------------------------------ MODULE Catalog ------------------------------
(***************************************************************************)
(* What a file system promises (filesys/filesys.cc): a catalog of files of *)
(* fixed length, with room for so many files and so many sectors.  A copy  *)
(* is made when the name is new and there is room, and not otherwise; the  *)
(* room of a removed file can be used again.                               *)
(***************************************************************************)
EXTENDS Integers, FiniteSets, FiniteSetsExt

CONSTANTS
    MaxFiles,       \* how many files there can be
    Room,           \* how many sectors there are for them
    SectorSize,     \* bytes in a sector
    Stored(_),      \* what is kept of a name
    Names, Lengths

VARIABLES
    files,     \* what is stored under every stored name: a function
    call,      \* the last call, with its arguments
    result     \* what it returned

catalogVars == <<files, call, result>>

CatalogInit == files = [n \in {} |-> 0] /\ call.op = "format" /\ result = TRUE

(* Sectors for the data of a file; its header takes one more.              *)
Blocks(length) == (length + SectorSize - 1) \div SectorSize
Takes(length) == 1 + Blocks(length)

Fits(old, name, length) ==
    /\ Stored(name) \notin DOMAIN old
    /\ Cardinality(DOMAIN old) < MaxFiles
    /\ MapThenSumSet(LAMBDA n : Takes(old[n].length), DOMAIN old)
          + Takes(length) <= Room

CopyIn(old, name, length) ==
    /\ call' = [op |-> "copy", name |-> Stored(name), length |-> length]
    /\ result' = Fits(old, name, length)
    /\ files' = IF ~ result' THEN old
                ELSE [n \in DOMAIN old \cup {Stored(name)} |->
                         IF n \in DOMAIN old THEN old[n]
                         ELSE [length |-> length,
                               data |-> [i \in 1..Blocks(length) |-> Stored(name)]]]

Delete(old, name) ==
    /\ call' = [op |-> "remove", name |-> Stored(name)]
    /\ result' = (Stored(name) \in DOMAIN old)
    /\ files' = [n \in DOMAIN old \ {Stored(name)} |-> old[n]]

CatalogNext ==
    LET old == files
    IN \E name \in Names :
          \/ Delete(old, name)
          \/ \E length \in Lengths : CopyIn(old, name, length)

CatalogSpec == CatalogInit /\ [][CatalogNext]_catalogVars

=============================================================================
