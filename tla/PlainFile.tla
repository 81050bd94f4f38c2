------------------------------ MODULE PlainFile ------------------------------
(***************************************************************************)
(* What the callers of FileHandler rely on: a file with one cursor.  A     *)
(* read gives what stands behind the cursor and moves the cursor past it;  *)
(* a word or a line ends with its separator, which is passed but not part  *)
(* of the result; a write overwrites what stands at the cursor.  A read at *)
(* the end of the file gives nothing and is true, as in the code and in    *)
(* the note on ReadWord (FileUtil.h:85).  FileUtil.h:65 and 75 contradict  *)
(* both: they say that Read is false there.                                *)
(***************************************************************************)
EXTENDS Sequences, Integers

CONSTANTS Chars, Counts, Positions, Texts

VARIABLES content,   (* the characters of the file                         *)
          cursor,    (* how many of them stand before the next read        *)
          answer     (* the last call and what it gave                     *)

vars == <<content, cursor, answer>>

Ends(op) == CASE op = "word" -> {" ", "\t", "\n"} [] op = "line" -> {"\n"} [] OTHER -> {}

(* The position of the separator behind position p that ends a read of     *)
(* kind op, or the end of the file.                                        *)
EndFrom(op, p) ==
  CHOOSE e \in p .. Len(content) :
    /\ e = Len(content) \/ content[e + 1] \in Ends(op)
    /\ \A i \in p .. e - 1 : content[i + 1] \notin Ends(op)

Between(p, q) == SubSeq(content, p + 1, q)

LesserOf(a, b) == IF a < b THEN a ELSE b

Init == content \in Seq(Chars) /\ cursor = 0 /\ answer = <<>>

(* Read of a number of characters.                                         *)
ReadCount(n) ==
  LET e == LesserOf(cursor + n, Len(content))
  IN  /\ cursor' = IF e < cursor THEN cursor ELSE e
      /\ answer' = <<"count", TRUE, Between(cursor, e)>>
      /\ UNCHANGED content

(* The first half of a read from another position.                         *)
Position(p) == cursor' = p /\ UNCHANGED <<content, answer>>

(* ReadWord and ReadLine.                                                  *)
ReadTo(op) ==
  /\ IF cursor >= Len(content) THEN cursor' = cursor /\ answer' = <<op, TRUE, <<>>>>
     ELSE /\ cursor' = LesserOf(EndFrom(op, cursor) + 1, Len(content))
          /\ answer' = <<op, TRUE, Between(cursor, EndFrom(op, cursor))>>
  /\ UNCHANGED content

(* A call that fails says so and leaves the file alone; a read may have    *)
(* gone on some way.                                                       *)
Fails(op) ==
  /\ IF op \in {"seek", "write"} THEN cursor' = cursor ELSE cursor' \in Nat /\ cursor' >= cursor
  /\ answer' = <<op, FALSE, <<>>>>
  /\ UNCHANGED content

Open == cursor' = 0 /\ answer' = <<"open", TRUE, <<>>>> /\ UNCHANGED content

Seek(p) == cursor' = p /\ answer' = <<"seek", TRUE, <<>>>> /\ UNCHANGED content

Over(p, text) ==
  [i \in 1 .. (IF p + Len(text) > Len(content) THEN p + Len(text) ELSE Len(content)) |->
     IF i > p /\ i <= p + Len(text) THEN text[i - p]
     ELSE IF i <= Len(content) THEN content[i] ELSE "NUL"]

Write(text) ==
  /\ content' = Over(cursor, text)
  /\ cursor' = cursor + Len(text)
  /\ answer' = <<"write", TRUE, <<>>>>

Next ==
  \/ Open
  \/ \E n \in Counts : ReadCount(n)
  \/ \E op \in {"word", "line"} : ReadTo(op)
  \/ \E op \in {"count", "word", "line", "seek", "write"} : Fails(op)
  \/ \E p \in Positions : Position(p) \/ Seek(p)
  \/ \E text \in Texts : Write(text)

Spec == Init /\ [][Next]_vars
=============================================================================
