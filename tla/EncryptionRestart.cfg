\* One host, one command and one row, over any number of starts.
CONSTANTS
    Hosts = {h1}
    Commands = {k1}
    Entities = {e1}
    NoHost = NoHost
SPECIFICATION EncryptionSpec
INVARIANT MigrationNeverFails
