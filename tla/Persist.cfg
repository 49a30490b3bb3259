SPECIFICATION Spec
CONSTANTS
    Values = {"a", "b", "c", "d", "e"}
    Size <- MCSize
    OCALL_STORE_THRESHOLD = 2
    None = None
INVARIANTS TypeOK ReadsOwnWrite OldOrNew
