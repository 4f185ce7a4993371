------------------------------ MODULE ByteFile ------------------------------
(***************************************************************************)
(* What an open file of the Nachos file system promises (filesys/          *)
(* openfile.h): a sequence of bytes of fixed length and a position in it.  *)
(***************************************************************************)
EXTENDS Integers, Sequences

CONSTANTS Requests, Positions, Texts

VARIABLES
    contents, position,
    answer,     \* the bytes that the last call returned
    call        \* the last call, with the number of bytes asked for

Transferred(n) ==
    IF n <= 0 \/ position >= Len(contents) THEN 0
    ELSE IF position + n > Len(contents) THEN Len(contents) - position ELSE n

ReadBytes(n) ==
    /\ call' = <<"read", n>>
    /\ answer' = SubSeq(contents, position + 1, position + Transferred(n))
    /\ position' = position + Transferred(n)
    /\ UNCHANGED contents

WriteBytes(text) ==
    LET n == Transferred(Len(text))
    IN /\ call' = <<"write", Len(text)>>
       /\ contents' = [i \in 1..Len(contents) |->
                          IF i \in (position + 1)..(position + n)
                          THEN text[i - position] ELSE contents[i]]
       /\ position' = position + n
       /\ answer' = <<>>

SeekTo(p) ==
    /\ call' = <<"seek", 0>>
    /\ position' = p /\ answer' = <<>> /\ UNCHANGED contents

ByteFileNext ==
    \/ \E n \in Requests : ReadBytes(n)
    \/ \E text \in Texts : WriteBytes(text)
    \/ \E p \in Positions : SeekTo(p)

byteFileVars == <<contents, position, answer, call>>

ByteFileSpec == [][ByteFileNext]_byteFileVars

=============================================================================
