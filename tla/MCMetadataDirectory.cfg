\* Up to five registrations in any order, any request at any time, and listings
\* that change from call to call.
CONSTANTS
    Params = {"$service_account", "$account", "$key"}
    Registrations <- MCRegistrations
    Prefix <- MCPrefix
    Requests <- MCRequests
    Listings <- MCListings
    MaxRegistrations = 5
SPECIFICATION Spec
\* A panic while the tree is built ends the process.
CHECK_DEADLOCK FALSE
INVARIANTS
    DirTypeOK
    RegistrationOrderFree
    
    RecursiveExact
    ContextExact
