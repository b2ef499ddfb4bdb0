SPECIFICATION Spec
CONSTANTS
    Uris <- MCUris
    BadEntry = "bad"
    Authorities <- MCAuthorities
    Environments <- MCEnvironments
    Certificates <- MCCertificates
    Connections = {c1, c2}
    Anonymous = Anonymous
    Refused = Refused
    None = None
INVARIANTS TypeOK MakerIsNotChecker OneDoorPerAuthority HeldCanBeAnswered
    RefusedNeverServed
CHECK_DEADLOCK FALSE
