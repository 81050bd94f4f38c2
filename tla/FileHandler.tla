----------------------------- MODULE FileHandler -----------------------------
(***************************************************************************)
(* FileHandler (common/FileUtil.cpp): a file descriptor with a read-ahead  *)
(* buffer.  The kernel's file offset stands behind what was read ahead.    *)
(* Each read(2) is a step of its own and may return less than it was asked *)
(* for, nothing at the end of the file, or an error.                       *)
(***************************************************************************)
EXTENDS Sequences, Integers

CONSTANTS Chars,       (* what a file may contain                          *)
          MaxLength,   (* bound on the length of the first file            *)
          BufferSize,  (* BUFFER_SIZE: 2048                                *)
          Counts,      (* the numbers of characters callers ask for        *)
          Positions,   (* the offsets they seek                            *)
          Texts        (* what they write                                  *)

ASSUME SizesAssumption == MaxLength \in Nat /\ BufferSize \in Nat \ {0}
ASSUME CallsAssumption == Counts \subseteq Nat /\ Positions \subseteq Nat /\ Texts \subseteq Seq(Chars)

VARIABLES content,    (* the file                                          *)
          offset,     (* the kernel's file offset                          *)
          ahead,      (* mBuffer from mBegin to mEnd: read, not yet given  *)
          op,         (* the read that is running: "count", "word", "line", or "none" *)
          num,        (* characters it still needs                         *)
          got,        (* what it has collected                             *)
          answer      (* the last call, what it returned, what it gave     *)

vars == <<content, offset, ahead, op, num, got, answer>>

(* What Read takes out of the buffer: what it needs, or all there is.      *)
Lesser(a, b) == IF a < b THEN a ELSE b

Init ==
  /\ content \in UNION {[1 .. n -> Chars] : n \in 0 .. MaxLength}
  /\ offset = 0 /\ ahead = <<>>
  /\ op = "none" /\ num = 0 /\ got = <<>>
  /\ answer = <<>>

(* Read(num), ReadWord, ReadLine.                                          *)
ReadCall(kind, n) ==
  /\ op = "none"
  /\ op' = kind /\ num' = n /\ got' = <<>>
  /\ UNCHANGED <<content, offset, ahead, answer>>

(* Read(offset, num).                                                      *)
ReadAtCall(p, n) ==
  /\ op = "none"
  /\ offset' = p /\ ahead' = <<>>
  /\ op' = "count" /\ num' = n /\ got' = <<>>
  /\ UNCHANGED <<content, answer>>

(* lseek fails; what was read ahead is gone all the same.                  *)
ReadAtFails ==
  /\ op = "none"
  /\ ahead' = <<>>
  /\ answer' = <<"count", FALSE, <<>>>>
  /\ UNCHANGED <<content, offset, op, num, got>>

(* Seeded fault: more is read while the buffer still holds something.      *)
Refill_Append(n) ==
  /\ op # "none"
  /\ op = "count" => num > 0
  /\ offset + n <= Len(content)
  /\ ahead' = ahead \o SubSeq(content, offset + 1, offset + n)
  /\ offset' = offset + n
  /\ UNCHANGED <<content, op, num, got, answer>>

(* read(2) fills an empty buffer, with n characters.                       *)
Refill(n) ==
  /\ op # "none" /\ ahead = <<>>
  /\ op = "count" => num > 0
  /\ offset + n <= Len(content)
  /\ ahead' = SubSeq(content, offset + 1, offset + n)
  /\ offset' = offset + n
  /\ UNCHANGED <<content, op, num, got, answer>>

Return(ok, text) ==
  /\ op' = "none" /\ num' = 0 /\ got' = <<>>
  /\ answer' = <<op, ok, text>>

(* Seeded fault: an empty read is tried again.                             *)
ReadEnds_Retry ==
  /\ op # "none" /\ ahead = <<>>
  /\ op = "count" => num > 0
  /\ offset >= Len(content)
  /\ UNCHANGED vars

(* read(2) finds the end of the file: what was collected is the result.    *)
ReadEnds ==
  /\ op # "none" /\ ahead = <<>>
  /\ op = "count" => num > 0
  /\ offset >= Len(content)
  /\ Return(TRUE, got)
  /\ UNCHANGED <<content, offset, ahead>>

(* read(2) fails: what was collected is lost.                              *)
ReadFails ==
  /\ op # "none" /\ ahead = <<>>
  /\ op = "count" => num > 0
  /\ Return(FALSE, <<>>)
  /\ UNCHANGED <<content, offset, ahead>>

(* Seeded fault: mBegin is not moved when the buffer holds enough.         *)
TakeCount_Unmoved ==
  /\ op = "count" /\ (ahead # <<>> \/ num = 0)
  /\ LET n == Lesser(num, Len(ahead))
         all == got \o SubSeq(ahead, 1, n)
     IN  /\ ahead' = IF num < Len(ahead) THEN ahead ELSE <<>>
         /\ IF num - n = 0 THEN Return(TRUE, all)
            ELSE num' = num - n /\ got' = all /\ UNCHANGED <<op, answer>>
  /\ UNCHANGED <<content, offset>>

(* The loop of Read: as much as is needed and there.                       *)
TakeCount ==
  /\ op = "count" /\ (ahead # <<>> \/ num = 0)
  /\ LET n == Lesser(num, Len(ahead))
         all == got \o SubSeq(ahead, 1, n)
     IN  /\ ahead' = SubSeq(ahead, n + 1, Len(ahead))
         /\ IF num - n = 0 THEN Return(TRUE, all)
            ELSE num' = num - n /\ got' = all /\ UNCHANGED <<op, answer>>
  /\ UNCHANGED <<content, offset>>

IsWhiteSpace(c) == c \in {" ", "\t", "\n"}

Separator(c) == IF op = "word" THEN IsWhiteSpace(c) ELSE c = "\n"

(* The loops of ReadWord and ReadLine: the characters before a separator,  *)
(* which is skipped; without one the buffer is used up and read again.     *)
TakeToSeparator ==
  /\ op \in {"word", "line"} /\ ahead # <<>>
  /\ LET ends == {i \in DOMAIN ahead : Separator(ahead[i])}
     IN  IF ends = {}
         THEN /\ got' = got \o ahead /\ ahead' = <<>>
              /\ UNCHANGED <<op, num, answer>>
         ELSE LET e == CHOOSE i \in ends : \A j \in ends : i <= j
              IN  /\ ahead' = SubSeq(ahead, e + 1, Len(ahead))
                  /\ Return(TRUE, got \o SubSeq(ahead, 1, e - 1))
  /\ UNCHANGED <<content, offset>>

(* Seeded fault: the buffer is kept.                                       *)
Seek_KeepAhead(p) ==
  /\ op = "none"
  /\ offset' = p
  /\ answer' = <<"seek", TRUE, <<>>>>
  /\ UNCHANGED <<content, ahead, op, num, got>>

(* Seek from the beginning of the file.                                    *)
Seek(p) ==
  /\ op = "none"
  /\ offset' = p /\ ahead' = <<>>
  /\ answer' = <<"seek", TRUE, <<>>>>
  /\ UNCHANGED <<content, op, num, got>>

SeekFails ==
  /\ op = "none"
  /\ answer' = <<"seek", FALSE, <<>>>>
  /\ UNCHANGED <<content, offset, ahead, op, num, got>>

(* The file after write(2) has put a text at the offset.                   *)
Written(text) ==
  [i \in 1 .. (IF offset + Len(text) > Len(content) THEN offset + Len(text) ELSE Len(content)) |->
     IF i > offset /\ i <= offset + Len(text) THEN text[i - offset]
     ELSE IF i <= Len(content) THEN content[i] ELSE "NUL"]

(* Write.  It takes no notice of the buffer.                               *)
Write(text) ==
  /\ op = "none"
  /\ content' = Written(text)
  /\ offset' = offset + Len(text)
  /\ answer' = <<"write", TRUE, <<>>>>
  /\ UNCHANGED <<ahead, op, num, got>>

(* write(2) takes only the first n characters, and Write returns true.     *)
WriteShort(text, n) == n < Len(text) /\ Write(SubSeq(text, 1, n))

WriteFails ==
  /\ op = "none"
  /\ answer' = <<"write", FALSE, <<>>>>
  /\ UNCHANGED <<content, offset, ahead, op, num, got>>

(* Open, of the same file.                                                 *)
Open ==
  /\ op = "none"
  /\ offset' = 0 /\ ahead' = <<>>
  /\ answer' = <<"open", TRUE, <<>>>>
  /\ UNCHANGED <<content, op, num, got>>

Calls ==
  \/ Open
  \/ \E n \in Counts : ReadCall("count", n) \/ \E p \in Positions : ReadAtCall(p, n)
  \/ ReadCall("word", 0) \/ ReadCall("line", 0)
  \/ ReadAtFails \/ SeekFails \/ WriteFails
  \/ \E p \in Positions : Seek(p)

Reads ==
  \/ \E n \in 1 .. BufferSize : Refill(n)
  \/ ReadEnds \/ TakeCount \/ TakeToSeparator

Next ==
  \/ Calls \/ Reads \/ ReadFails
  \/ \E text \in Texts : Write(text) \/ \E n \in 0 .. Len(text) : WriteShort(text, n)

Spec == Init /\ [][Next]_vars

=============================================================================
