CONSTANTS
    Fields <- MCFields
    Queries <- MCQueries
SPECIFICATION Spec
PROPERTIES
    ImplementsResolverSpec
    LookupTerminates
CHECK_DEADLOCK FALSE
