------------------------------ MODULE MCRestore ------------------------------
(* Small instances of Restore: two backups of an account, the second without *)
(* stickers, and one made before pairing, on an install without stickers.    *)
EXTENDS Restore

CONSTANTS first, second, unpaired

TheRestores == {first, second, unpaired}
Paired      == {first, second}
TwoFolders  == <<"memory", "stickers">>
Contents    == [r \in Restores |-> IF r = second THEN {"memory"} ELSE {"memory", "stickers"}]
MemoryOnly  == {"memory"}
=============================================================================
