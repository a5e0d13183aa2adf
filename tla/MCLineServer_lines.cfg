\* Two clients of the iterative file server.
CONSTANTS
    c1 = c1  c2 = c2
    report = report  readme = readme  readmes = readmes  nofile = nofile
    Client <- MCClient
    File <- MCFile
    Lines <- MCLines
    Name <- MCName
    First8 <- MCFirst8
    MAXLINE = 4
    SrvFd = 2
    CliFd = 4
SPECIFICATION Spec
CHECK_DEADLOCK FALSE
INVARIANTS
    
    
    NothingStored
PROPERTIES
    Turn
