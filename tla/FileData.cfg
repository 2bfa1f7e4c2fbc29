\* Blocks of two bytes, files of up to five.
SPECIFICATION Spec
CONSTANTS
    None = None
    BlockSize = 2
    MaxSize = 5
    MaxReaders = 2
    MaxChanges = 3
INVARIANTS TypeOK StoredIsWritten ReadIsStored
