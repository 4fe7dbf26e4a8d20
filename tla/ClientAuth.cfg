\* Two clients and three keys: one key is replaced or given out again.
CONSTANTS
    Client = {alice, bob}
    MaxKeys = 3
SPECIFICATION AuthSpec
INVARIANTS StartTakesSnapshot NeverOpenByAccident
