---------------------------- MODULE MCFileHandler ----------------------------
(***************************************************************************)
(* Bounded instances of FileHandler.  SafeNext writes the way the B+ tree  *)
(* does, with nothing read ahead (after Seek, or after a read that used    *)
(* the buffer up), and completely.                                         *)
(***************************************************************************)
EXTENDS FileHandler

MCChars == {"a", " ", "\n"}
MCTexts == {<<"a", " ">>}

SafeNext ==
  \/ Calls \/ Reads \/ ReadFails
  \/ \E text \in Texts :
       ahead = <<>> /\ offset + Len(text) <= MaxLength + 1 /\ Write(text)

(* A read that was called goes on until it returns: each read(2) comes     *)
(* back, with a character at least or with the end of the file.            *)
SafeSpec == Init /\ [][SafeNext]_vars /\ WF_vars(Reads)

-----------------------------------------------------------------------------
(* The state has its type.                                                 *)
TypeOK ==
  /\ content \in Seq(Chars \cup {"NUL"})
  /\ offset \in Nat
  /\ ahead \in Seq(Chars \cup {"NUL"}) /\ Len(ahead) <= BufferSize
  /\ op \in {"none", "count", "word", "line"}
  /\ num \in Nat
  /\ got \in Seq(Chars \cup {"NUL"})

(* What is read ahead is what the file holds before the kernel's offset:   *)
(* no read gives what a write has replaced, or what stands elsewhere.      *)
AheadIsInFile ==
  ahead # <<>> =>
    /\ Len(ahead) <= offset /\ offset <= Len(content)
    /\ ahead = SubSeq(content, offset - Len(ahead) + 1, offset)

(* The buffered file is a file with one cursor, which stands before what   *)
(* is read ahead and before what the running call has collected.           *)
Plain == INSTANCE PlainFile WITH cursor <- offset - Len(ahead) - Len(got)
ImplementsPlainFile == Plain!Spec

(* Every read returns.                                                     *)
ReadsReturn == op # "none" ~> op = "none"
=============================================================================
