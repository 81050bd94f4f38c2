-------------------------- MODULE FileHandler_proofs --------------------------
(***************************************************************************)
(* The buffered file of FileHandler implements a plain file with a cursor  *)
(* (module PlainFile), for every buffer size, as long as it is written     *)
(* completely and with nothing read ahead.                                 *)
(***************************************************************************)
EXTENDS MCFileHandler, SequenceTheorems, WellFoundedInduction, TLAPS

C == Chars \cup {"NUL"}

(* Where the next read of a plain file would begin.                        *)
Begin == offset - Len(ahead) - Len(got)

(* A text stands in the file behind a position.                            *)
At(text, p) ==
  /\ p + Len(text) <= Len(content)
  /\ \A i \in 1 .. Len(text) : text[i] = content[p + i]

(* What was collected and what is read ahead stand behind the cursor, one  *)
(* after the other.                                                        *)
InFile ==
  /\ Begin \in Nat
  /\ got # <<>> => At(got, Begin)
  /\ ahead # <<>> => At(ahead, Begin + Len(got))
  /\ got # <<>> => offset <= Len(content)

(* What was collected is part of what the running call asked for.          *)
Asked ==
  /\ op = "none" => got = <<>> /\ num = 0
  /\ op = "count" => num + Len(got) \in Counts
  /\ op \in {"word", "line"} => \A i \in 1 .. Len(got) : ~ Separator(got[i])

FileInv == TypeOK /\ InFile /\ Asked

-----------------------------------------------------------------------------
(* A text is what the file holds between two positions.                    *)
LEMMA TextBetween ==
  ASSUME NEW f \in Seq(C), NEW text \in Seq(C), NEW p \in Nat,
         text # <<>> => p + Len(text) <= Len(f),
         \A i \in 1 .. Len(text) : text[i] = f[p + i]
  PROVE  text = SubSeq(f, p + 1, p + Len(text))
<1>1. Len(text) \in Nat  BY LenProperties
<1>2. CASE text = <<>>
  BY <1>2, SubSeqEmpty, EmptySeq
<1>3. CASE text # <<>>
  <2>1. p + Len(text) <= Len(f) /\ Len(f) \in Nat  BY <1>3, LenProperties
  <2>2. \A i \in p + 1 .. p + Len(text) : f[i] \in C
    BY <1>1, <2>1, ElementOfSeq
  <2>3. PICK s : s = SubSeq(f, p + 1, p + Len(text))  OBVIOUS
  <2>4. /\ s \in Seq(C) /\ Len(s) = Len(text)
        /\ \A i \in 1 .. Len(text) : s[i] = f[p + i]
    <3>1. p + 1 \in Int /\ p + Len(text) \in Int  BY <1>1
    <3>2. /\ s \in Seq(C)
          /\ Len(s) = IF p + 1 <= p + Len(text) THEN p + Len(text) - (p + 1) + 1 ELSE 0
          /\ \A i \in 1 .. p + Len(text) - (p + 1) + 1 : s[i] = f[p + 1 + i - 1]
      BY <2>2, <2>3, <3>1, SubSeqProperties
    <3>3. Len(text) # 0  BY <1>3, EmptySeq
    <3>4. Len(s) = Len(text)  BY <1>1, <3>2, <3>3
    <3>5. ASSUME NEW i \in 1 .. Len(text) PROVE s[i] = f[p + i]
      <4>1. i \in 1 .. p + Len(text) - (p + 1) + 1 /\ p + 1 + i - 1 = p + i  BY <1>1
      <4> QED  BY <3>2, <4>1
    <3> QED  BY <3>2, <3>4, <3>5
  <2>5. text = s  BY <2>4, SeqEqual
  <2> QED  BY <2>3, <2>5
<1> QED  BY <1>2, <1>3

(* A part of a sequence.                                                   *)
LEMMA Part ==
  ASSUME NEW s \in Seq(C), NEW p \in Nat, NEW q \in Nat, p <= q, q <= Len(s)
  PROVE  /\ SubSeq(s, p + 1, q) \in Seq(C)
         /\ Len(SubSeq(s, p + 1, q)) = q - p
         /\ \A i \in 1 .. q - p : SubSeq(s, p + 1, q)[i] = s[p + i]
<1>1. Len(s) \in Nat  BY LenProperties
<1>2. \A i \in p + 1 .. q : s[i] \in C  BY <1>1, ElementOfSeq
<1>3. PICK t : t = SubSeq(s, p + 1, q)  OBVIOUS
<1>4. /\ t \in Seq(C)
      /\ Len(t) = IF p + 1 <= q THEN q - (p + 1) + 1 ELSE 0
      /\ \A i \in 1 .. q - (p + 1) + 1 : t[i] = s[p + 1 + i - 1]
  BY <1>2, <1>3, SubSeqProperties
<1>5. Len(t) = q - p  BY <1>4
<1>6. ASSUME NEW i \in 1 .. q - p PROVE t[i] = s[p + i]
  <2>1. i \in 1 .. q - (p + 1) + 1 /\ p + 1 + i - 1 = p + i  OBVIOUS
  <2> QED  BY <1>4, <2>1
<1> QED  BY <1>3, <1>4, <1>5, <1>6

(* Taking n characters out of the buffer: what was collected grows by what *)
(* the buffer loses, and both stand in the file.                           *)
Moved(n) ==
  \E all, rest \in Seq(C) :
    /\ all = got \o SubSeq(ahead, 1, n) /\ rest = SubSeq(ahead, n + 1, Len(ahead))
    /\ Len(all) = Len(got) + n /\ Len(rest) = Len(ahead) - n
    /\ \A i \in 1 .. Len(got) : all[i] = got[i]
    /\ \A i \in 1 .. n : all[Len(got) + i] = ahead[i]
    /\ all # <<>> => At(all, Begin) /\ offset <= Len(content)
    /\ rest # <<>> => At(rest, Begin + Len(all))

(* Both still stand in the file when characters were taken.                *)
LEMMA Moving ==
  ASSUME FileInv, NEW n \in 0 .. Len(ahead)
  PROVE  Moved(n)
<1>1. /\ content \in Seq(C) /\ ahead \in Seq(C) /\ got \in Seq(C)
      /\ Len(ahead) \in Nat /\ Len(got) \in Nat /\ Len(content) \in Nat
      /\ offset \in Nat /\ Begin \in Nat /\ n \in Nat
  BY LenProperties DEF FileInv, TypeOK, InFile, C
<1>2. PICK first : first = SubSeq(ahead, 1, n)  OBVIOUS
<1>3. PICK rest : rest = SubSeq(ahead, n + 1, Len(ahead))  OBVIOUS
<1>4. PICK all : all = got \o first  OBVIOUS
<1>5. /\ first \in Seq(C) /\ Len(first) = n /\ \A i \in 1 .. n : first[i] = ahead[i]
  <2>1. 0 + 1 = 1 /\ n - 0 = n /\ \A i \in 1 .. n : 0 + i = i  BY <1>1
  <2> QED  BY <1>1, <1>2, <2>1, Part
<1>6. /\ rest \in Seq(C) /\ Len(rest) = Len(ahead) - n
      /\ \A i \in 1 .. Len(ahead) - n : rest[i] = ahead[n + i]
  BY <1>1, <1>3, Part
<1>7. /\ all \in Seq(C) /\ Len(all) = Len(got) + n
      /\ \A i \in 1 .. Len(got) + n :
           all[i] = IF i <= Len(got) THEN got[i] ELSE first[i - Len(got)]
  <2>1. /\ all \in Seq(C) /\ Len(all) = Len(got) + Len(first)
        /\ \A i \in 1 .. Len(got) + Len(first) :
             all[i] = IF i <= Len(got) THEN got[i] ELSE first[i - Len(got)]
    <3>1. got \in Seq(C) /\ first \in Seq(C)  BY <1>1, <1>5
    <3> QED  BY ONLY <1>4, <3>1, ConcatProperties, Zenon
  <2> QED  BY <1>5, <2>1
<1>8. \A i \in 1 .. Len(got) : all[i] = got[i]  BY <1>1, <1>7
<1>9. ASSUME NEW i \in 1 .. n PROVE all[Len(got) + i] = ahead[i]
  <2>1. Len(got) + i \in 1 .. Len(got) + n /\ ~(Len(got) + i <= Len(got))
        /\ Len(got) + i - Len(got) = i
    BY <1>1
  <2> QED  BY <1>5, <1>7, <2>1
<1>10. /\ got # <<>> => At(got, Begin) /\ offset <= Len(content)
       /\ ahead # <<>> => At(ahead, Begin + Len(got))
  BY DEF FileInv, InFile
<1>11. Begin + Len(got) + Len(ahead) = offset  BY <1>1 DEF Begin
<1>12. ASSUME all # <<>> PROVE At(all, Begin) /\ offset <= Len(content)
  <2>1. Len(all) # 0  BY <1>7, <1>12, EmptySeq
  <2>2. offset <= Len(content)
    <3>1. CASE got # <<>>  BY <3>1, <1>10
    <3>2. CASE got = <<>>
      <4>1. Len(got) = 0  BY <3>2, EmptySeq
      <4>2. ahead # <<>>  BY <1>1, <1>7, <2>1, <4>1, EmptySeq
      <4> QED  BY <1>1, <1>10, <1>11, <4>2 DEF At
    <3> QED  BY <3>1, <3>2
  <2>3. Begin + Len(all) <= Len(content)  BY <1>1, <1>7, <1>11, <2>2
  <2>4. ASSUME NEW i \in 1 .. Len(all) PROVE all[i] = content[Begin + i]
    <3>1. CASE i <= Len(got)
      <4>1. i \in 1 .. Len(got)  BY <1>1, <1>7, <3>1
      <4>2. got # <<>>  BY <1>1, <4>1, EmptySeq
      <4> QED  BY <1>8, <1>10, <4>1, <4>2 DEF At
    <3>2. CASE ~(i <= Len(got))
      <4>1. PICK j : j = i - Len(got)  OBVIOUS
      <4>2. j \in 1 .. n /\ j \in 1 .. Len(ahead) /\ i = Len(got) + j
            /\ Begin + Len(got) + j = Begin + i
        BY <1>1, <1>7, <3>2, <4>1
      <4>3. ahead # <<>>  BY <1>1, <4>2, EmptySeq
      <4>4. ahead[j] = content[Begin + Len(got) + j]  BY <1>10, <4>2, <4>3 DEF At
      <4> QED  BY <1>9, <4>2, <4>4
    <3> QED  BY <3>1, <3>2
  <2> QED  BY <2>2, <2>3, <2>4 DEF At
<1>13. ASSUME rest # <<>> PROVE At(rest, Begin + Len(all))
  <2>1. Len(rest) # 0  BY <1>6, <1>13, EmptySeq
  <2>2. ahead # <<>>  BY <1>1, <1>6, <2>1, EmptySeq
  <2>3. At(ahead, Begin + Len(got))  BY <1>10, <2>2
  <2>4. Begin + Len(all) + Len(rest) <= Len(content)
    BY <1>1, <1>6, <1>7, <2>3 DEF At
  <2>5. ASSUME NEW i \in 1 .. Len(rest) PROVE rest[i] = content[Begin + Len(all) + i]
    <3>1. i \in 1 .. Len(ahead) - n /\ n + i \in 1 .. Len(ahead)
          /\ Begin + Len(got) + (n + i) = Begin + Len(all) + i
      BY <1>1, <1>6, <1>7
    <3>2. ahead[n + i] = content[Begin + Len(got) + (n + i)]  BY <2>3, <3>1 DEF At
    <3> QED  BY <1>6, <3>1, <3>2
  <2> QED  BY <2>4, <2>5 DEF At
<1> QED  BY <1>2, <1>3, <1>4, <1>6, <1>7, <1>8, <1>9, <1>12, <1>13 DEF Moved

-----------------------------------------------------------------------------
(* A step of the file with one cursor, or one it does not see.             *)
PlainStep == [Plain!Next]_(Plain!vars)

(* A step that leaves file, answer and cursor alone is not seen.           *)
LEMMA Unseen ==
  ASSUME content' = content, answer' = answer, Begin' = Begin
  PROVE  PlainStep
BY DEF PlainStep, Plain!vars, Begin

(* The least number of a set.                                              *)
LEMMA LeastOf ==
  ASSUME NEW S \in SUBSET Nat, S # {}
  PROVE  \E x \in S : \A y \in S : x <= y
<1>1. PICK x \in S : \A y \in S : <<y, x>> \notin OpToRel(<, Nat)
  BY NatLessThanWellFounded, WFMin
<1>2. \A y \in S : ~(y < x)  BY <1>1 DEF OpToRel
<1> QED  BY <1>2

(* The end of a read is the first separator behind the cursor.             *)
LEMMA EndIs ==
  ASSUME NEW o, NEW p \in Nat, NEW e \in p .. Len(content), content \in Seq(C),
         e = Len(content) \/ content[e + 1] \in Plain!Ends(o),
         \A i \in p .. e - 1 : content[i + 1] \notin Plain!Ends(o)
  PROVE  Plain!EndFrom(o, p) = e
<1>1. Len(content) \in Nat  BY LenProperties
<1>2. ASSUME NEW d \in p .. Len(content), d = Len(content) \/ content[d + 1] \in Plain!Ends(o),
             \A i \in p .. d - 1 : content[i + 1] \notin Plain!Ends(o)
      PROVE  d = e
  <2>1. CASE d < e
    <3>1. d \in p .. e - 1 /\ d # Len(content)  BY <1>1, <2>1
    <3> QED  BY <1>2, <3>1
  <2>2. CASE e < d
    <3>1. e \in p .. d - 1 /\ e # Len(content)  BY <1>1, <2>2
    <3> QED  BY <1>2, <3>1
  <2> QED  BY <1>1, <2>1, <2>2
<1> QED  BY <1>2 DEF Plain!EndFrom

(* The facts about the state that every case begins with.                  *)
LEMMA Known ==
  ASSUME FileInv
  PROVE  /\ content \in Seq(C) /\ ahead \in Seq(C) /\ got \in Seq(C)
         /\ Len(content) \in Nat /\ Len(ahead) \in Nat /\ Len(got) \in Nat
         /\ offset \in Nat /\ num \in Nat /\ Begin \in Nat
         /\ Begin + Len(got) + Len(ahead) = offset
         /\ op = "none" => got = <<>> /\ num = 0 /\ Begin + Len(ahead) = offset
         /\ ahead = <<>> => Begin + Len(got) = offset
<1>1. /\ content \in Seq(C) /\ ahead \in Seq(C) /\ got \in Seq(C)
      /\ offset \in Nat /\ num \in Nat /\ Begin \in Nat
  BY DEF FileInv, TypeOK, InFile, C
<1>2. Len(content) \in Nat /\ Len(ahead) \in Nat /\ Len(got) \in Nat  BY <1>1, LenProperties
<1>3. Begin + Len(got) + Len(ahead) = offset  BY <1>1, <1>2 DEF Begin
<1>4. op = "none" => got = <<>> /\ num = 0  BY DEF FileInv, Asked
<1>5. got = <<>> => Len(got) = 0  BY EmptySeq
<1>6. ahead = <<>> => Len(ahead) = 0  BY EmptySeq
<1> QED  BY <1>1, <1>2, <1>3, <1>4, <1>5, <1>6

(* Nothing read ahead and nothing collected: any offset is one to read at. *)
LEMMA Drained ==
  ASSUME ahead' = <<>>, got' = <<>>, offset' \in Nat
  PROVE  InFile' /\ Begin' = offset'
<1>1. Begin' = offset'
  <2>1. Begin' = offset' - Len(ahead') - Len(got')  BY DEF Begin
  <2>2. Len(ahead') = 0 /\ Len(got') = 0  BY EmptySeq
  <2>3. Begin' = (offset' - 0) - 0  BY ONLY <2>1, <2>2
  <2>4. \A o \in Nat : (o - 0) - 0 = o  OBVIOUS
  <2> QED  BY ONLY <2>3, <2>4, offset' \in Nat
<1> QED  BY <1>1 DEF InFile

(* The same buffer, file and offset, and nothing collected before or after.*)
LEMMA Untouched ==
  ASSUME FileInv, got = <<>>, UNCHANGED <<content, offset, ahead, got>>
  PROVE  InFile' /\ Begin' = Begin
BY DEF FileInv, InFile, Begin, At

-----------------------------------------------------------------------------
(* Open of the same file.                                                  *)
LEMMA OpenKeeps == ASSUME FileInv, Open PROVE FileInv' /\ PlainStep
<1>1. op' = op /\ num' = num /\ got' = got /\ content' = content /\ op = "none"
      /\ offset' = 0 /\ ahead' = <<>> /\ answer' = <<"open", TRUE, <<>>>>
  BY DEF Open
<1>2. got = <<>> /\ num = 0  BY <1>1, Known
<1>3. InFile' /\ Begin' = 0  BY <1>1, <1>2, Drained
<1>4. TypeOK'
  <2>1. Len(<<>>) <= BufferSize  BY SizesAssumption, EmptySeq
  <2> QED  BY <1>1, <2>1 DEF FileInv, TypeOK
<1>5. Asked'  BY <1>1, <1>2 DEF FileInv, Asked
<1>6. Plain!Open  BY <1>1, <1>3 DEF Plain!Open, Begin
<1> QED  BY <1>3, <1>4, <1>5, <1>6 DEF FileInv, PlainStep, Plain!Next

(* Seek.                                                                   *)
LEMMA SeekKeeps ==
  ASSUME FileInv, NEW p \in Positions, Seek(p)
  PROVE  FileInv' /\ PlainStep
<1>1. op' = op /\ num' = num /\ got' = got /\ content' = content /\ op = "none"
      /\ offset' = p /\ ahead' = <<>> /\ answer' = <<"seek", TRUE, <<>>>> /\ p \in Nat
  BY CallsAssumption DEF Seek
<1>2. got = <<>> /\ num = 0  BY <1>1, Known
<1>3. InFile' /\ Begin' = p  BY <1>1, <1>2, Drained
<1>4. TypeOK'
  <2>1. Len(<<>>) <= BufferSize  BY SizesAssumption, EmptySeq
  <2> QED  BY <1>1, <2>1 DEF FileInv, TypeOK
<1>5. Asked'  BY <1>1, <1>2 DEF FileInv, Asked
<1>6. Plain!Seek(p)  BY <1>1, <1>3 DEF Plain!Seek, Begin
<1> QED  BY <1>3, <1>4, <1>5, <1>6 DEF FileInv, PlainStep, Plain!Next

(* A Seek that fails.                                                      *)
LEMMA SeekFailsKeeps == ASSUME FileInv, SeekFails PROVE FileInv' /\ PlainStep
<1>1. UNCHANGED <<content, offset, ahead, op, num, got>> /\ op = "none"
      /\ answer' = <<"seek", FALSE, <<>>>>
  BY DEF SeekFails
<1>2. got = <<>> /\ num = 0  BY <1>1, Known
<1>3. InFile' /\ Begin' = Begin  BY <1>1, <1>2, Untouched
<1>4. TypeOK' /\ Asked'  BY <1>1, <1>2 DEF FileInv, TypeOK, Asked
<1>5. Plain!Fails("seek")  BY <1>1, <1>3 DEF Plain!Fails, Begin
<1> QED  BY <1>3, <1>4, <1>5 DEF FileInv, PlainStep, Plain!Next

(* A Write that fails.                                                     *)
LEMMA WriteFailsKeeps == ASSUME FileInv, WriteFails PROVE FileInv' /\ PlainStep
<1>1. UNCHANGED <<content, offset, ahead, op, num, got>> /\ op = "none"
      /\ answer' = <<"write", FALSE, <<>>>>
  BY DEF WriteFails
<1>2. got = <<>> /\ num = 0  BY <1>1, Known
<1>3. InFile' /\ Begin' = Begin  BY <1>1, <1>2, Untouched
<1>4. TypeOK' /\ Asked'  BY <1>1, <1>2 DEF FileInv, TypeOK, Asked
<1>5. Plain!Fails("write")  BY <1>1, <1>3 DEF Plain!Fails, Begin
<1> QED  BY <1>3, <1>4, <1>5 DEF FileInv, PlainStep, Plain!Next

(* A failed lseek in a read drops what was read ahead: the next read goes  *)
(* on further back.                                                        *)
LEMMA ReadAtFailsKeeps == ASSUME FileInv, ReadAtFails PROVE FileInv' /\ PlainStep
<1>1. UNCHANGED <<content, offset, op, num, got>> /\ op = "none" /\ ahead' = <<>>
      /\ answer' = <<"count", FALSE, <<>>>>
  BY DEF ReadAtFails
<1>2. got = <<>> /\ num = 0 /\ Begin + Len(ahead) = offset /\ offset \in Nat
      /\ Len(ahead) \in Nat /\ Begin \in Nat
  BY <1>1, Known
<1>3. InFile' /\ Begin' = offset  BY <1>1, <1>2, Drained
<1>4. TypeOK'
  <2>1. Len(<<>>) <= BufferSize  BY SizesAssumption, EmptySeq
  <2> QED  BY <1>1, <2>1 DEF FileInv, TypeOK
<1>5. Asked'  BY <1>1, <1>2 DEF FileInv, Asked
<1>6. Begin' \in Nat /\ Begin' >= Begin  BY <1>2, <1>3
<1>7. Plain!Fails("count")  BY <1>1, <1>6 DEF Plain!Fails, Begin
<1> QED  BY <1>3, <1>4, <1>5, <1>7 DEF FileInv, PlainStep, Plain!Next

-----------------------------------------------------------------------------
(* A read is called.                                                       *)
LEMMA ReadCallKeeps ==
  ASSUME FileInv, NEW kind \in {"count", "word", "line"}, NEW n, ReadCall(kind, n),
         kind = "count" => n \in Counts, kind # "count" => n = 0
  PROVE  FileInv' /\ PlainStep
<1>0. n \in Nat
  <2>1. CASE kind = "count"
    <3>1. n \in Counts  BY <2>1
    <3> QED  BY ONLY <3>1, CallsAssumption
  <2>2. CASE kind # "count"
    <3>1. n = 0  BY <2>2
    <3> QED  BY ONLY <3>1
  <2> QED  BY <2>1, <2>2
<1>1. UNCHANGED <<content, offset, ahead, answer>> /\ op = "none"
      /\ op' = kind /\ num' = n /\ got' = <<>> /\ n \in Nat
  BY <1>0 DEF ReadCall
<1>2. got = <<>> /\ got' = got  BY <1>1, Known
<1>3. InFile' /\ Begin' = Begin  BY <1>1, <1>2, Untouched
<1>4. TypeOK'  BY <1>1, <1>2 DEF FileInv, TypeOK
<1>5. Asked'
  <2>1. Len(got') = 0  BY <1>1, EmptySeq
  <2> QED  BY <1>1, <2>1 DEF Asked
<1>6. PlainStep  BY <1>1, <1>3, Unseen
<1> QED  BY <1>3, <1>4, <1>5, <1>6 DEF FileInv

(* A read from another position is called.                                 *)
LEMMA ReadAtCallKeeps ==
  ASSUME FileInv, NEW p \in Positions, NEW n \in Counts, ReadAtCall(p, n)
  PROVE  FileInv' /\ PlainStep
<1>1. UNCHANGED <<content, answer>> /\ offset' = p /\ ahead' = <<>> /\ p \in Nat
      /\ op' = "count" /\ num' = n /\ got' = <<>> /\ n \in Nat
  BY CallsAssumption DEF ReadAtCall
<1>2. InFile' /\ Begin' = p  BY <1>1, Drained
<1>3. Len(<<>>) = 0  BY EmptySeq
<1>4. TypeOK'  BY <1>1, <1>3, SizesAssumption DEF FileInv, TypeOK
<1>5. Asked'  BY <1>1, <1>3 DEF Asked
<1>6. Plain!Position(p)  BY <1>1, <1>2 DEF Plain!Position, Begin
<1> QED  BY <1>2, <1>4, <1>5, <1>6 DEF FileInv, PlainStep, Plain!Next

(* read(2) fills the empty buffer with what stands at the offset.          *)
LEMMA RefillKeeps ==
  ASSUME FileInv, NEW n \in 1 .. BufferSize, Refill(n)
  PROVE  FileInv' /\ PlainStep
<1>1. UNCHANGED <<content, op, num, got, answer>> /\ ahead = <<>>
      /\ offset + n <= Len(content) /\ offset' = offset + n
      /\ ahead' = SubSeq(content, offset + 1, offset + n)
  BY DEF Refill
<1>2. /\ content \in Seq(C) /\ got \in Seq(C) /\ Len(content) \in Nat /\ Len(got) \in Nat
      /\ offset \in Nat /\ n \in Nat /\ Begin \in Nat /\ Begin + Len(got) = offset
  BY <1>1, Known, SizesAssumption
<1>3. /\ ahead' \in Seq(C) /\ Len(ahead') = n
      /\ \A i \in 1 .. n : ahead'[i] = content[offset + i]
  <2>1. PICK e : e = offset + n  OBVIOUS
  <2>2. e \in Nat /\ offset <= e /\ e - offset = n /\ e <= Len(content)  BY <1>1, <1>2, <2>1
  <2>3. ahead' = SubSeq(content, offset + 1, e)  BY <1>1, <2>1
  <2>4. /\ ahead' \in Seq(C) /\ Len(ahead') = e - offset
        /\ \A i \in 1 .. e - offset : ahead'[i] = content[offset + i]
    BY <1>2, <2>2, <2>3, Part
  <2> QED  BY <2>2, <2>4
<1>4. Begin' = Begin
  <2>1. Begin' = offset' - Len(ahead') - Len(got')  BY DEF Begin
  <2> QED  BY <1>1, <1>2, <1>3, <2>1
<1>5. InFile'
  <2>1. At(ahead, Begin + Len(got))'
    <3>1. (Begin + Len(got))' = offset  BY <1>1, <1>2, <1>4
    <3>2. offset + Len(ahead') <= Len(content')  BY <1>1, <1>3
    <3>3. \A i \in 1 .. Len(ahead') : ahead'[i] = content'[offset + i]  BY <1>1, <1>3
    <3> QED  BY <3>1, <3>2, <3>3 DEF At
  <2>2. got # <<>> => At(got, Begin) /\ offset <= Len(content)  BY DEF FileInv, InFile
  <2>3. got' # <<>> => At(got, Begin)' /\ offset' <= Len(content')  BY <1>1, <1>4, <2>2 DEF At
  <2> QED  BY <1>2, <1>4, <2>1, <2>3 DEF InFile
<1>6. TypeOK'  BY <1>1, <1>2, <1>3 DEF FileInv, TypeOK, C
<1>7. Asked'  BY <1>1 DEF FileInv, Asked, Separator
<1>8. PlainStep  BY <1>1, <1>4, Unseen
<1> QED  BY <1>5, <1>6, <1>7, <1>8 DEF FileInv

(* An error in the middle of a read.                                       *)
LEMMA ReadFailsKeeps == ASSUME FileInv, ReadFails PROVE FileInv' /\ PlainStep
<1>1. UNCHANGED <<content, offset, ahead>> /\ op # "none" /\ ahead = <<>>
      /\ op' = "none" /\ num' = 0 /\ got' = <<>> /\ answer' = <<op, FALSE, <<>>>>
  BY DEF ReadFails, Return
<1>2. offset \in Nat /\ Begin \in Nat /\ Begin + Len(got) = offset /\ Len(got) \in Nat
  BY <1>1, Known
<1>3. InFile' /\ Begin' = offset  BY <1>1, <1>2, Drained
<1>4. TypeOK' /\ Asked'  BY <1>1 DEF FileInv, TypeOK, Asked
<1>5. Begin' \in Nat /\ Begin' >= Begin  BY <1>2, <1>3
<1>6. op \in {"count", "word", "line"}  BY <1>1 DEF FileInv, TypeOK
<1>7. Plain!Fails(op)  BY <1>1, <1>5, <1>6 DEF Plain!Fails, Begin
<1> QED  BY <1>3, <1>4, <1>6, <1>7 DEF FileInv, PlainStep, Plain!Next

-----------------------------------------------------------------------------
(* A text is what a plain read of n characters from position p gives.      *)
CountGives(text, p, n) ==
  \E e : /\ e = Plain!LesserOf(p + n, Len(content))
         /\ (IF e < p THEN p ELSE e) = p + Len(text)
         /\ text = Plain!Between(p, e)

(* What a count asks for and does not find ends at the end of the file.    *)
LEMMA CountedIs ==
  ASSUME content \in Seq(C), NEW text \in Seq(C), NEW p \in Nat, NEW n \in Nat,
         text # <<>> => At(text, p),
         Len(text) <= n, Len(text) = n \/ p + Len(text) >= Len(content)
  PROVE  CountGives(text, p, n)
<1>1. Len(text) \in Nat /\ Len(content) \in Nat  BY LenProperties
<1>2. PICK e : e = Plain!LesserOf(p + n, Len(content))  OBVIOUS
<1>3. e = IF p + n < Len(content) THEN p + n ELSE Len(content)  BY <1>2 DEF Plain!LesserOf
<1>4. CASE text = <<>>
  <2>1. Len(text) = 0  BY <1>4, EmptySeq
  <2>2. e \in Nat /\ e <= p  BY <1>1, <1>3, <2>1
  <2>3. (IF e < p THEN p ELSE e) = p + Len(text)  BY <1>1, <2>1, <2>2
  <2>4. SubSeq(content, p + 1, e) = <<>>  BY <2>2, SubSeqEmpty
  <2> QED  BY <1>2, <1>4, <2>3, <2>4 DEF Plain!Between, CountGives
<1>5. CASE text # <<>>
  <2>1. p + Len(text) <= Len(content) /\ \A i \in 1 .. Len(text) : text[i] = content[p + i]
    BY <1>5 DEF At
  <2>2. e = p + Len(text)  BY <1>1, <1>3, <2>1
  <2>3. (IF e < p THEN p ELSE e) = p + Len(text)  BY <1>1, <2>2
  <2>4. text = SubSeq(content, p + 1, p + Len(text))  BY <2>1, TextBetween
  <2> QED  BY <1>2, <2>2, <2>3, <2>4 DEF Plain!Between, CountGives
<1> QED  BY <1>4, <1>5

(* A read that meets the end of the file gives what is left of it.         *)
LEMMA ReadEndsKeeps == ASSUME FileInv, ReadEnds PROVE FileInv' /\ PlainStep
<1>1. /\ UNCHANGED <<content, offset, ahead>> /\ op # "none" /\ ahead = <<>>
      /\ op = "count" => num > 0
      /\ offset >= Len(content)
      /\ op' = "none" /\ num' = 0 /\ got' = <<>> /\ answer' = <<op, TRUE, got>>
  BY DEF ReadEnds, Return
<1>2. /\ content \in Seq(C) /\ got \in Seq(C) /\ offset \in Nat /\ Begin \in Nat /\ num \in Nat
      /\ Begin + Len(got) = offset /\ Len(got) \in Nat /\ Len(content) \in Nat
  BY <1>1, Known
<1>3. InFile' /\ Begin' = offset  BY <1>1, <1>2, Drained
<1>4. TypeOK' /\ Asked'  BY <1>1 DEF FileInv, TypeOK, Asked
<1>5. got # <<>> => At(got, Begin) /\ offset <= Len(content)  BY DEF FileInv, InFile
<1>6. CASE op = "count"
  <2>1. PICK n : n = num + Len(got)  OBVIOUS
  <2>2. n \in Counts /\ n \in Nat /\ Len(got) <= n  BY <1>2, <1>6, <2>1 DEF FileInv, Asked
  <2>3. CountGives(got, Begin, n)  BY <1>1, <1>2, <1>5, <2>2, CountedIs
  <2>4. PICK e : /\ e = Plain!LesserOf(Begin + n, Len(content))
                 /\ (IF e < Begin THEN Begin ELSE e) = Begin + Len(got)
                 /\ got = Plain!Between(Begin, e)
    BY <2>3 DEF CountGives
  <2>5. Begin' = (IF e < Begin THEN Begin ELSE e)  BY <1>2, <1>3, <2>4
  <2>6. answer' = <<"count", TRUE, Plain!Between(Begin, e)>>  BY <1>1, <1>6, <2>4
  <2>7. Plain!ReadCount(n)  BY <1>1, <2>4, <2>5, <2>6 DEF Plain!ReadCount, Begin
  <2> QED  BY <1>3, <1>4, <2>2, <2>7 DEF FileInv, PlainStep, Plain!Next
<1>7. CASE op \in {"word", "line"}
  <2>1. CASE got = <<>>
    <3>1. Len(got) = 0  BY <2>1, EmptySeq
    <3>2. Begin >= Len(content) /\ Begin' = Begin  BY <1>1, <1>2, <1>3, <3>1
    <3>3. Plain!ReadTo(op)  BY <1>1, <2>1, <3>2 DEF Plain!ReadTo, Begin
    <3> QED  BY <1>3, <1>4, <1>7, <3>3 DEF FileInv, PlainStep, Plain!Next
  <2>2. CASE got # <<>>
    <3>1. Len(got) # 0  BY <2>2, EmptySeq
    <3>2. offset = Len(content) /\ Begin + Len(got) = Len(content) /\ ~(Begin >= Len(content))
      BY <1>1, <1>2, <1>5, <2>2, <3>1
    <3>3. ASSUME NEW i \in Begin .. Len(content) - 1 PROVE content[i + 1] \notin Plain!Ends(op)
      <4>1. PICK j : j = i + 1 - Begin  OBVIOUS
      <4>2. j \in 1 .. Len(got) /\ Begin + j = i + 1  BY <1>2, <3>2, <4>1
      <4>3. got[j] = content[i + 1]  BY <1>5, <2>2, <4>2 DEF At
      <4>4. ~ Separator(got[j])  BY <1>7, <4>2 DEF FileInv, Asked
      <4> QED  BY <1>7, <4>3, <4>4 DEF Separator, IsWhiteSpace, Plain!Ends
    <3>4. Plain!EndFrom(op, Begin) = Len(content)
      <4>1. Len(content) \in Begin .. Len(content)  BY <1>2, <3>2
      <4> QED  BY <1>2, <3>3, <4>1, EndIs
    <3>5. Plain!LesserOf(Plain!EndFrom(op, Begin) + 1, Len(content)) = Len(content)
      BY <1>2, <3>4 DEF Plain!LesserOf
    <3>6. got = Plain!Between(Begin, Plain!EndFrom(op, Begin))
      <4>1. got = SubSeq(content, Begin + 1, Begin + Len(got))  BY <1>2, <1>5, <2>2, TextBetween DEF At
      <4> QED  BY <3>2, <3>4, <4>1 DEF Plain!Between
    <3>7. Begin' = Plain!LesserOf(Plain!EndFrom(op, Begin) + 1, Len(content))
      BY <1>3, <3>2, <3>5
    <3>8. Plain!ReadTo(op)  BY <1>1, <3>2, <3>6, <3>7 DEF Plain!ReadTo, Begin
    <3> QED  BY <1>3, <1>4, <1>7, <3>8 DEF FileInv, PlainStep, Plain!Next
  <2> QED  BY <2>1, <2>2
<1> QED  BY <1>1, <1>6, <1>7 DEF FileInv, TypeOK

(* The buffer and what was collected after n characters were taken, with   *)
(* the text returned at once or kept for the next round.                   *)
LEMMA TakenStands ==
  ASSUME FileInv, NEW n \in 0 .. Len(ahead), Moved(n),
         content' = content, offset' = offset, ahead' = SubSeq(ahead, n + 1, Len(ahead)),
         got' = got \o SubSeq(ahead, 1, n) \/ got' = <<>>
  PROVE  /\ InFile'
         /\ ahead' \in Seq(C) /\ got' \in Seq(C) /\ Len(ahead') <= Len(ahead)
         /\ Begin' = IF got' = <<>> THEN Begin + Len(got) + n ELSE Begin
<1>1. PICK all \in Seq(C), rest \in Seq(C) :
        /\ all = got \o SubSeq(ahead, 1, n) /\ rest = SubSeq(ahead, n + 1, Len(ahead))
        /\ Len(all) = Len(got) + n /\ Len(rest) = Len(ahead) - n
        /\ all # <<>> => At(all, Begin) /\ offset <= Len(content)
        /\ rest # <<>> => At(rest, Begin + Len(all))
  BY DEF Moved
<1>2. /\ offset \in Nat /\ Len(got) \in Nat /\ Len(ahead) \in Nat /\ n \in Nat
      /\ Begin \in Nat /\ Begin + Len(got) + Len(ahead) = offset
  BY Known
<1>3. ahead' = rest  BY <1>1
<1>4. PICK b, g, a : b = Begin /\ g = Len(got) /\ a = Len(ahead)  OBVIOUS
<1>5. b \in Nat /\ g \in Nat /\ a \in Nat /\ n \in Nat /\ n <= a /\ b + g + a = offset
  BY <1>2, <1>4
<1>6. Len(all) = g + n /\ Len(rest) = a - n /\ rest \in Seq(C) /\ all \in Seq(C)  BY <1>1, <1>4
<1>7. PICK k : k = Len(got')  OBVIOUS
<1>8. Begin' = (offset - (a - n)) - k
  <2>1. Begin' = offset' - Len(ahead') - Len(got')  BY DEF Begin
  <2> QED  BY <1>3, <1>6, <1>7, <2>1
<1>9. ASSUME NEW m \in Nat, Begin' = b + m, (Begin + Len(got))' = b + (g + n)
      PROVE  ahead' # <<>> => At(ahead, Begin + Len(got))'
  <2>1. rest # <<>> => At(rest, b + (g + n))  BY <1>1, <1>4, <1>6
  <2> QED  BY <1>3, <1>9, <2>1 DEF At
<1>10. CASE got' = <<>>
  <2>1. k = 0  BY <1>7, <1>10, EmptySeq
  <2>2. Begin' = b + (g + n)
    <3>1. (offset - (a - n)) - k = b + (g + n)  BY <1>5, <2>1
    <3> QED  BY ONLY <1>8, <3>1
  <2>3. (Begin + Len(got))' = b + (g + n)
    <3>1. (Begin + Len(got))' = Begin' + k  BY <1>7
    <3>2. b + (g + n) + k = b + (g + n)  BY <1>5, <2>1
    <3> QED  BY ONLY <2>2, <3>1, <3>2
  <2>4. g + n \in Nat /\ b + (g + n) = Begin + Len(got) + n /\ b + (g + n) \in Nat  BY <1>4, <1>5
  <2>5. ahead' # <<>> => At(ahead, Begin + Len(got))'  BY <1>9, <2>2, <2>3, <2>4
  <2>6. Begin' = Begin + Len(got) + n /\ Begin' \in Nat  BY ONLY <2>2, <2>4
  <2>7. InFile'  BY <1>10, <2>5, <2>6 DEF InFile
  <2>8. got' \in Seq(C)  BY <1>10, EmptySeq
  <2>9. a - n <= a  BY <1>5
  <2> QED  BY <1>3, <1>4, <1>6, <1>10, <2>6, <2>7, <2>8, <2>9
<1>11. CASE got' = all
  <2>1. k = g + n  BY <1>6, <1>7, <1>11
  <2>2. Begin' = b
    <3>1. (offset - (a - n)) - k = b  BY <1>5, <2>1
    <3> QED  BY ONLY <1>8, <3>1
  <2>3. (Begin + Len(got))' = b + (g + n)
    <3>1. (Begin + Len(got))' = Begin' + k  BY <1>7
    <3> QED  BY ONLY <2>1, <2>2, <3>1
  <2>4. Begin' = b + 0 /\ 0 \in Nat
    <3>1. b + 0 = b  BY <1>5
    <3> QED  BY ONLY <2>2, <3>1
  <2>5. ahead' # <<>> => At(ahead, Begin + Len(got))'  BY <1>9, <2>3, <2>4
  <2>6. Begin' = Begin /\ Begin' \in Nat  BY ONLY <1>4, <1>5, <2>2
  <2>7. got' # <<>> => At(got, Begin)' /\ offset' <= Len(content')
    BY <1>1, <1>11, <2>6 DEF At
  <2>8. InFile'  BY <2>5, <2>6, <2>7 DEF InFile
  <2>9. Begin' = IF got' = <<>> THEN Begin + Len(got) + n ELSE Begin
    <3>1. CASE got' = <<>>
      <4>1. k = 0  BY <1>7, <3>1, EmptySeq
      <4>2. b + g + n = b  BY <1>5, <2>1, <4>1
      <4>3. Begin + Len(got) + n = Begin  BY ONLY <1>4, <4>2
      <4> QED  BY <2>6, <3>1, <4>3
    <3> QED  BY <2>6, <3>1
  <2>10. a - n <= a  BY <1>5
  <2> QED  BY <1>3, <1>4, <1>6, <1>11, <2>8, <2>9, <2>10
<1> QED  BY <1>1, <1>10, <1>11

(* Read takes what it needs out of the buffer, and returns with it or goes *)
(* on.                                                                     *)
LEMMA TakeCountKeeps == ASSUME FileInv, TakeCount PROVE FileInv' /\ PlainStep
<1>1. PICK n : n = Lesser(num, Len(ahead))  OBVIOUS
<1>2. /\ content \in Seq(C) /\ ahead \in Seq(C) /\ got \in Seq(C) /\ num \in Nat
      /\ Len(ahead) \in Nat /\ Len(got) \in Nat /\ Begin \in Nat /\ Len(content) \in Nat
  BY Known
<1>3. n \in 0 .. Len(ahead) /\ n \in Nat /\ n <= num /\ (n = num \/ n = Len(ahead))
  BY <1>1, <1>2 DEF Lesser
<1>4. Moved(n)  BY <1>3, Moving
<1>5. PICK all \in Seq(C) :
        /\ all = got \o SubSeq(ahead, 1, n) /\ Len(all) = Len(got) + n
        /\ all # <<>> => At(all, Begin) /\ offset <= Len(content)
  BY <1>4 DEF Moved
<1>6. /\ content' = content /\ offset' = offset /\ op = "count"
      /\ ahead' = SubSeq(ahead, n + 1, Len(ahead))
      /\ IF num - n = 0
         THEN op' = "none" /\ num' = 0 /\ got' = <<>> /\ answer' = <<op, TRUE, all>>
         ELSE num' = num - n /\ got' = all /\ op' = op /\ answer' = answer
  BY <1>1, <1>5 DEF TakeCount, Return
<1>7. got' = all \/ got' = <<>>  BY <1>6
<1>8. /\ InFile'
      /\ ahead' \in Seq(C) /\ got' \in Seq(C) /\ Len(ahead') <= Len(ahead)
      /\ Begin' = IF got' = <<>> THEN Begin + Len(got) + n ELSE Begin
  BY <1>3, <1>4, <1>5, <1>6, <1>7, TakenStands
<1>9. num' \in Nat
  <2>1. num - n \in Nat  BY <1>2, <1>3
  <2> QED  BY <1>6, <2>1
<1>10. TypeOK'
  <2>1. Len(ahead) <= BufferSize /\ content \in Seq(C)  BY <1>2 DEF FileInv, TypeOK
  <2>2. Len(ahead') \in Nat  BY <1>8, LenProperties
  <2>3. Len(ahead') <= BufferSize  BY <1>2, <1>8, <2>1, <2>2, SizesAssumption
  <2>4. offset' \in Nat /\ op' \in {"none", "count"}  BY <1>6, Known
  <2> QED  BY <1>2, <1>6, <1>8, <1>9, <2>3, <2>4 DEF TypeOK, C
<1>11. PICK c : c = num + Len(got)  OBVIOUS
<1>12. c \in Counts /\ c \in Nat  BY <1>2, <1>6, <1>11 DEF FileInv, Asked
<1>13. CASE num - n = 0
  <2>1. n = num /\ Len(all) = c  BY <1>2, <1>3, <1>5, <1>11, <1>13
  <2>2. op' = "none" /\ num' = 0 /\ got' = <<>> /\ answer' = <<"count", TRUE, all>>
    BY <1>6, <1>13
  <2>3. Asked'  BY <2>2 DEF Asked
  <2>4. CountGives(all, Begin, c)
    <3>1. all # <<>> => At(all, Begin)  BY <1>5
    <3>2. all \in Seq(C) /\ content \in Seq(C) /\ Begin \in Nat /\ c \in Nat
          /\ Len(all) <= c /\ (Len(all) = c \/ Begin + Len(all) >= Len(content))
      BY <1>2, <1>12, <2>1
    <3> QED  BY ONLY <3>1, <3>2, CountedIs
  <2>5. PICK e : /\ e = Plain!LesserOf(Begin + c, Len(content))
                 /\ (IF e < Begin THEN Begin ELSE e) = Begin + Len(all)
                 /\ all = Plain!Between(Begin, e)
    BY <2>4 DEF CountGives
  <2>6. Begin' = Begin + Len(all)
    <3>1. Begin + Len(got) + n = Begin + (Len(got) + n)  BY <1>2, <1>3
    <3>2. Begin + Len(got) + n = Begin + Len(all)  BY ONLY <1>5, <3>1
    <3> QED  BY <1>8, <2>2, <3>2
  <2>7. Plain!ReadCount(c)  BY <1>6, <2>2, <2>5, <2>6 DEF Plain!ReadCount, Begin
  <2>8. PlainStep  BY <1>12, <2>7 DEF PlainStep, Plain!Next
  <2> QED  BY <1>8, <1>10, <2>3, <2>8 DEF FileInv
<1>14. CASE num - n # 0
  <2>1. num' = num - n /\ got' = all /\ op' = "count" /\ answer' = answer  BY <1>6, <1>14
  <2>2. num - n + (Len(got) + n) = c  BY <1>2, <1>3, <1>11
  <2>3. num' + Len(got') = c
    <3>1. Len(got') = Len(got) + n  BY <1>5, <2>1
    <3> QED  BY ONLY <2>1, <2>2, <3>1
  <2>4. Asked'  BY <1>12, <2>1, <2>3 DEF Asked
  <2>5. Begin' = Begin
    <3>1. CASE got' = <<>>
      <4>1. Len(all) = 0  BY <2>1, <3>1, EmptySeq
      <4>2. Begin + Len(got) + n = Begin  BY <1>2, <1>3, <1>5, <4>1
      <4> QED  BY <1>8, <3>1, <4>2
    <3> QED  BY <1>8, <3>1
  <2>6. PlainStep  BY <1>6, <2>1, <2>5, Unseen
  <2> QED  BY <1>8, <1>10, <2>4, <2>6 DEF FileInv
<1> QED  BY <1>13, <1>14

(* A separator of ReadWord or ReadLine is one of the plain file's.         *)
LEMMA SeparatorIs ==
  ASSUME op \in {"word", "line"}, NEW c
  PROVE  Separator(c) <=> c \in Plain!Ends(op)
<1>1. CASE op = "word"  BY <1>1 DEF Separator, IsWhiteSpace, Plain!Ends
<1>2. CASE op = "line"  BY <1>2 DEF Separator, IsWhiteSpace, Plain!Ends
<1> QED  BY <1>1, <1>2

(* ReadWord and ReadLine use the buffer up, without a separator in it.     *)
LEMMA NoSeparatorKeeps ==
  ASSUME FileInv, op \in {"word", "line"}, ahead # <<>>,
         \A i \in DOMAIN ahead : ~ Separator(ahead[i]),
         got' = got \o ahead, ahead' = <<>>,
         UNCHANGED <<content, offset, op, num, answer>>
  PROVE  FileInv' /\ PlainStep
<1>1. /\ content \in Seq(C) /\ ahead \in Seq(C) /\ got \in Seq(C) /\ num \in Nat
      /\ Len(ahead) \in Nat /\ Len(got) \in Nat /\ Begin \in Nat /\ Len(content) \in Nat
      /\ offset \in Nat
  BY Known
<1>2. PICK n : n = Len(ahead)  OBVIOUS
<1>3. n \in 0 .. Len(ahead) /\ n \in Nat  BY <1>1, <1>2
<1>4. SubSeq(ahead, 1, n) = ahead  BY <1>1, <1>2, SubSeqFull
<1>5. SubSeq(ahead, n + 1, Len(ahead)) = <<>>
  <2>1. Len(ahead) < n + 1 /\ n + 1 \in Int /\ Len(ahead) \in Int  BY <1>1, <1>2
  <2> QED  BY <2>1, SubSeqEmpty
<1>6. Moved(n)  BY <1>3, Moving
<1>7. /\ InFile'
      /\ got' \in Seq(C)
      /\ Begin' = IF got' = <<>> THEN Begin + Len(got) + n ELSE Begin
  BY <1>3, <1>4, <1>5, <1>6, TakenStands
<1>8. /\ Len(got') = Len(got) + n
      /\ \A i \in 1 .. Len(got) : got'[i] = got[i]
      /\ \A i \in 1 .. n : got'[Len(got) + i] = ahead[i]
  BY <1>4, <1>6 DEF Moved
<1>9. got' # <<>>
  <2>1. n # 0  BY <1>1, <1>2, EmptySeq
  <2>2. Len(got') # 0  BY <1>1, <1>3, <1>8, <2>1
  <2> QED  BY <2>2, EmptySeq
<1>10. Begin' = Begin  BY <1>7, <1>9
<1>11. TypeOK'
  <2>1. Len(<<>>) <= BufferSize /\ <<>> \in Seq(C)  BY SizesAssumption, EmptySeq
  <2> QED  BY <1>1, <1>7, <2>1 DEF FileInv, TypeOK, C
<1>12. Asked'
  <2>1. ASSUME NEW i \in 1 .. Len(got) + n PROVE ~ Separator(got'[i])
    <3>1. CASE i \in 1 .. Len(got)
      <4>1. ~ Separator(got[i])  BY <3>1 DEF FileInv, Asked
      <4> QED  BY <1>8, <3>1, <4>1
    <3>2. CASE i \notin 1 .. Len(got)
      <4>1. PICK j : j = i - Len(got)  OBVIOUS
      <4>2. j \in 1 .. n /\ Len(got) + j = i  BY <1>1, <1>3, <3>2, <4>1
      <4>3. j \in DOMAIN ahead  BY <1>1, <1>2, <4>2, LenProperties
      <4> QED  BY <1>8, <4>2, <4>3
    <3> QED  BY <3>1, <3>2
  <2>2. \A i \in 1 .. Len(got') : ~ Separator(got[i])'
    BY <1>8, <2>1 DEF Separator
  <2> QED  BY <2>2 DEF Asked
<1>13. PlainStep  BY <1>10, Unseen
<1> QED  BY <1>7, <1>11, <1>12, <1>13 DEF FileInv

(* The character behind n more characters is the one counted as e = n + 1. *)
LEMMA OnePast ==
  ASSUME NEW b \in Nat, NEW k \in Nat, NEW n \in Nat, NEW e \in Nat, n + 1 = e
  PROVE  b + (k + n) \in Nat /\ b <= b + (k + n) /\ b + (k + n) + 1 = b + k + e
OBVIOUS

(* They find one, the first of those in the buffer: the text before it is  *)
(* the result, and the buffer goes on behind it.                           *)
LEMMA SeparatorKeeps ==
  ASSUME FileInv, op \in {"word", "line"}, NEW e \in 1 .. Len(ahead), Separator(ahead[e]),
         \A j \in 1 .. Len(ahead) : Separator(ahead[j]) => e <= j,
         ahead' = SubSeq(ahead, e + 1, Len(ahead)),
         op' = "none", num' = 0, got' = <<>>,
         answer' = <<op, TRUE, got \o SubSeq(ahead, 1, e - 1)>>,
         UNCHANGED <<content, offset>>
  PROVE  FileInv' /\ PlainStep
<1>1. /\ content \in Seq(C) /\ ahead \in Seq(C) /\ got \in Seq(C)
      /\ Len(ahead) \in Nat /\ Len(got) \in Nat /\ Begin \in Nat /\ Len(content) \in Nat
      /\ offset \in Nat /\ Begin + Len(got) + Len(ahead) = offset /\ e \in Nat
  BY Known
<1>2. PICK n : n = e - 1  OBVIOUS
<1>3. n \in 0 .. Len(ahead) /\ n \in Nat /\ n + 1 = e /\ e \in 0 .. Len(ahead)  BY <1>1, <1>2
<1>4. Moved(n) /\ Moved(e)  BY <1>3, Moving
<1>5. /\ InFile'
      /\ ahead' \in Seq(C) /\ Len(ahead') <= Len(ahead)
      /\ Begin' = Begin + Len(got) + e
  BY <1>3, <1>4, TakenStands
<1>6. TypeOK'
  <2>1. Len(ahead) <= BufferSize  BY DEF FileInv, TypeOK
  <2>2. Len(ahead') \in Nat  BY <1>5, LenProperties
  <2>3. Len(ahead') <= BufferSize  BY <1>1, <1>5, <2>1, <2>2, SizesAssumption
  <2>4. <<>> \in Seq(C)  BY EmptySeq
  <2> QED  BY <1>1, <1>5, <2>3, <2>4 DEF TypeOK, C
<1>7. Asked'  BY DEF Asked
<1>8. PICK all \in Seq(C) :
        /\ all = got \o SubSeq(ahead, 1, n) /\ Len(all) = Len(got) + n
        /\ \A i \in 1 .. Len(got) : all[i] = got[i]
        /\ \A i \in 1 .. n : all[Len(got) + i] = ahead[i]
        /\ all # <<>> => At(all, Begin) /\ offset <= Len(content)
  BY <1>4 DEF Moved
<1>9. answer' = <<op, TRUE, all>>  BY <1>2, <1>8
<1>10. PICK m : m = Begin + Len(all)  OBVIOUS
<1>11. m \in Nat /\ m = Begin + (Len(got) + n) /\ Begin <= m /\ m + 1 = Begin + Len(got) + e
  <2>1. Begin + (Len(got) + n) \in Nat /\ Begin <= Begin + (Len(got) + n)
        /\ Begin + (Len(got) + n) + 1 = Begin + Len(got) + e
    <3>1. PICK b, k : b = Begin /\ k = Len(got)  OBVIOUS
    <3>2. b \in Nat /\ k \in Nat /\ n \in Nat /\ e \in Nat /\ n + 1 = e
      BY ONLY <1>1, <1>3, <3>1
    <3>3. b + (k + n) \in Nat /\ b <= b + (k + n) /\ b + (k + n) + 1 = b + k + e
      BY ONLY <3>2, OnePast
    <3> QED  BY ONLY <3>1, <3>3
  <2> QED  BY ONLY <1>8, <1>10, <2>1
<1>12. At(ahead, Begin + Len(got))
  <2>1. ahead # <<>>  BY <1>1, <1>3, EmptySeq
  <2> QED  BY <2>1 DEF FileInv, InFile
<1>13. m + 1 <= Len(content) /\ content[m + 1] = ahead[e]
  <2>1. Begin + Len(got) + Len(ahead) <= Len(content) /\ ahead[e] = content[Begin + Len(got) + e]
    BY <1>12 DEF At
  <2>2. Begin + Len(got) + e <= Len(content)  BY ONLY <1>1, <1>3, <2>1
  <2> QED  BY ONLY <1>11, <2>1, <2>2
<1>14. ASSUME NEW i \in Begin .. m - 1 PROVE content[i + 1] \notin Plain!Ends(op)
  <2>1. PICK j : j = i + 1 - Begin  OBVIOUS
  <2>2. j \in 1 .. Len(got) + n /\ Begin + j = i + 1 /\ j \in Nat
    BY <1>1, <1>3, <1>11, <2>1
  <2>3. content[i + 1] = all[j]
    <3>1. j \in 1 .. Len(all)  BY <1>8, <2>2
    <3>2. all # <<>>
      <4>1. Len(all) # 0  BY <1>1, <1>3, <1>8, <2>2
      <4> QED  BY <4>1, EmptySeq
    <3> QED  BY <1>8, <2>2, <3>1, <3>2 DEF At
  <2>4. ~ Separator(all[j])
    <3>1. CASE j \in 1 .. Len(got)
      <4>1. ~ Separator(got[j])  BY <3>1 DEF FileInv, Asked
      <4> QED  BY <1>8, <3>1, <4>1
    <3>2. CASE j \notin 1 .. Len(got)
      <4>1. PICK k : k = j - Len(got)  OBVIOUS
      <4>2. k \in 1 .. n /\ Len(got) + k = j /\ k \in 1 .. Len(ahead) /\ ~(e <= k)
        BY <1>1, <1>3, <2>2, <3>2, <4>1
      <4>3. ~ Separator(ahead[k])  BY <4>2
      <4> QED  BY <1>8, <4>2, <4>3
    <3> QED  BY <3>1, <3>2
  <2> QED  BY <2>3, <2>4, SeparatorIs
<1>15. Plain!EndFrom(op, Begin) = m
  <2>1. content[m + 1] \in Plain!Ends(op)  BY <1>13, SeparatorIs
  <2>2. m \in Begin .. Len(content)  BY <1>1, <1>11, <1>13
  <2> QED  BY <1>1, <1>14, <2>1, <2>2, EndIs
<1>16. Plain!LesserOf(m + 1, Len(content)) = m + 1  BY <1>1, <1>11, <1>13 DEF Plain!LesserOf
<1>17. all = Plain!Between(Begin, m)
  <2>1. all # <<>> => At(all, Begin)  BY <1>8
  <2>2. all = SubSeq(content, Begin + 1, Begin + Len(all))
    <3>1. CASE all = <<>>
      <4>1. \A i \in 1 .. Len(all) : all[i] = content[Begin + i]  BY <3>1, EmptySeq
      <4> QED  BY <1>1, <3>1, <4>1, TextBetween
    <3>2. CASE all # <<>>  BY <1>1, <2>1, <3>2, TextBetween DEF At
    <3> QED  BY <3>1, <3>2
  <2> QED  BY <1>10, <2>2 DEF Plain!Between
<1>18. ~(Begin >= Len(content))  BY <1>1, <1>11, <1>13
<1>19. Begin' = m + 1  BY ONLY <1>5, <1>11
<1>20. Plain!ReadTo(op)
  <2>1. Begin' = Plain!LesserOf(Plain!EndFrom(op, Begin) + 1, Len(content))
        /\ answer' = <<op, TRUE, Plain!Between(Begin, Plain!EndFrom(op, Begin))>>
    BY ONLY <1>9, <1>15, <1>16, <1>17, <1>19
  <2> QED  BY <1>18, <2>1 DEF Plain!ReadTo, Begin
<1>21. PlainStep  BY <1>20 DEF PlainStep, Plain!Next
<1> QED  BY <1>5, <1>6, <1>7, <1>21 DEF FileInv

(* Both outcomes of the search for a separator.                            *)
LEMMA TakeToSeparatorKeeps == ASSUME FileInv, TakeToSeparator PROVE FileInv' /\ PlainStep
<1>1. PICK ends : ends = {i \in DOMAIN ahead : Separator(ahead[i])}  OBVIOUS
<1>2. DOMAIN ahead = 1 .. Len(ahead) /\ Len(ahead) \in Nat  BY Known, LenProperties
<1>3. op \in {"word", "line"} /\ ahead # <<>> /\ UNCHANGED <<content, offset>>
  BY DEF TakeToSeparator
<1>4. CASE ends = {}
  <2>1. got' = got \o ahead /\ ahead' = <<>> /\ UNCHANGED <<op, num, answer>>
    BY <1>1, <1>4 DEF TakeToSeparator
  <2>2. \A i \in DOMAIN ahead : ~ Separator(ahead[i])  BY <1>1, <1>4
  <2> QED  BY <1>3, <2>1, <2>2, NoSeparatorKeeps
<1>5. CASE ends # {}
  <2>1. PICK e : e = CHOOSE i \in ends : \A j \in ends : i <= j  OBVIOUS
  <2>2. ends \in SUBSET Nat  BY <1>1, <1>2
  <2>3. e \in ends /\ \A j \in ends : e <= j  BY <1>5, <2>1, <2>2, LeastOf
  <2>4. /\ ahead' = SubSeq(ahead, e + 1, Len(ahead))
        /\ op' = "none" /\ num' = 0 /\ got' = <<>>
        /\ answer' = <<op, TRUE, got \o SubSeq(ahead, 1, e - 1)>>
    BY <1>1, <1>5, <2>1 DEF TakeToSeparator, Return
  <2>5. e \in 1 .. Len(ahead) /\ Separator(ahead[e])
        /\ \A j \in 1 .. Len(ahead) : Separator(ahead[j]) => e <= j
    BY <1>1, <1>2, <2>3
  <2> QED  BY <1>3, <2>4, <2>5, SeparatorKeeps
<1> QED  BY <1>4, <1>5

-----------------------------------------------------------------------------
(* The file after a write holds characters.                                *)
LEMMA WrittenType ==
  ASSUME FileInv, NEW text \in Texts
  PROVE  Written(text) \in Seq(C)
<1>1. text \in Seq(Chars) /\ content \in Seq(C) /\ offset \in Nat  BY CallsAssumption, Known
<1>2. Len(text) \in Nat /\ Len(content) \in Nat  BY <1>1, LenProperties
<1>3. PICK k : k = IF offset + Len(text) > Len(content) THEN offset + Len(text) ELSE Len(content)
  OBVIOUS
<1>4. k \in Nat  BY <1>1, <1>2, <1>3
<1>5. ASSUME NEW i \in 1 .. k
      PROVE  (IF i > offset /\ i <= offset + Len(text) THEN text[i - offset]
              ELSE IF i <= Len(content) THEN content[i] ELSE "NUL") \in C
  <2>1. CASE i > offset /\ i <= offset + Len(text)
    <3>1. PICK j : j = i - offset  OBVIOUS
    <3>2. j \in 1 .. Len(text)  BY <1>1, <1>2, <1>4, <2>1, <3>1
    <3>3. text[j] \in Chars  BY <1>1, <3>2, ElementOfSeq
    <3> QED  BY <2>1, <3>1, <3>3 DEF C
  <2>2. CASE ~(i > offset /\ i <= offset + Len(text)) /\ i <= Len(content)
    <3>1. i \in 1 .. Len(content)  BY <1>2, <1>4, <2>2
    <3>2. content[i] \in C  BY <1>1, <3>1, ElementOfSeq
    <3> QED  BY <2>2, <3>2
  <2>3. CASE ~(i > offset /\ i <= offset + Len(text)) /\ ~(i <= Len(content))
    BY <2>3 DEF C
  <2> QED  BY <2>1, <2>2, <2>3
<1>6. Written(text) = [i \in 1 .. k |-> IF i > offset /\ i <= offset + Len(text) THEN text[i - offset]
                                        ELSE IF i <= Len(content) THEN content[i] ELSE "NUL"]
  BY <1>3 DEF Written
<1>7. Written(text) \in [1 .. k -> C]  BY <1>5, <1>6
<1> QED  BY <1>4, <1>7, SeqDef

(* A write with nothing read ahead goes where the cursor stands.           *)
LEMMA WriteKeeps ==
  ASSUME FileInv, NEW text \in Texts, ahead = <<>>, Write(text)
  PROVE  FileInv' /\ PlainStep
<1>1. UNCHANGED <<ahead, op, num, got>> /\ op = "none" /\ content' = Written(text)
      /\ offset' = offset + Len(text) /\ answer' = <<"write", TRUE, <<>>>>
  BY DEF Write
<1>2. got = <<>> /\ num = 0 /\ offset \in Nat /\ Begin \in Nat /\ Begin + Len(ahead) = offset
  BY <1>1, Known
<1>3. Begin = offset
  <2>1. Len(ahead) = 0  BY EmptySeq
  <2>2. Begin + 0 = offset  BY ONLY <1>2, <2>1
  <2> QED  BY <1>2, <2>2
<1>4. Len(text) \in Nat  BY CallsAssumption, LenProperties
<1>5. offset + Len(text) \in Nat  BY <1>2, <1>4
<1>6. offset' \in Nat /\ ahead' = <<>> /\ got' = <<>>  BY <1>1, <1>2, <1>5
<1>7. InFile' /\ Begin' = offset'  BY <1>6, Drained
<1>8. content' \in Seq(C)  BY <1>1, WrittenType
<1>9. TypeOK'  BY <1>1, <1>6, <1>8 DEF FileInv, TypeOK, C
<1>10. Asked'  BY <1>1, <1>2 DEF FileInv, Asked
<1>11. Written(text) = Plain!Over(Begin, text)  BY <1>3 DEF Written, Plain!Over
<1>12. Begin' = Begin + Len(text)  BY <1>1, <1>3, <1>7
<1>13. Plain!Write(text)  BY <1>1, <1>11, <1>12 DEF Plain!Write, Begin
<1>14. PlainStep  BY <1>13 DEF PlainStep, Plain!Next
<1> QED  BY <1>7, <1>9, <1>10, <1>14 DEF FileInv

-----------------------------------------------------------------------------
(* The initial file, with nothing read ahead.                              *)
LEMMA InitFile == ASSUME Init PROVE FileInv /\ Plain!Init
<1>1. PICK n \in 0 .. MaxLength : content \in [1 .. n -> Chars]  BY DEF Init
<1>2. n \in Nat  BY SizesAssumption
<1>3. content \in Seq(Chars)  BY <1>1, <1>2, SeqDef
<1>4. content \in Seq(C)  BY <1>3, SeqMonotonic DEF C
<1>5. offset = 0 /\ ahead = <<>> /\ op = "none" /\ num = 0 /\ got = <<>> /\ answer = <<>>
  BY DEF Init
<1>6. Len(ahead) = 0 /\ Len(got) = 0 /\ ahead \in Seq(C) /\ got \in Seq(C)  BY <1>5, EmptySeq
<1>7. Begin = (0 - 0) - 0  BY ONLY <1>5, <1>6 DEF Begin
<1>8. Begin = 0  BY ONLY <1>7
<1>9. InFile  BY <1>5, <1>8 DEF InFile
<1>10. TypeOK  BY <1>4, <1>5, <1>6, SizesAssumption DEF TypeOK, C
<1>11. Asked  BY <1>5 DEF Asked
<1>12. Plain!Init  BY <1>3, <1>5, <1>8 DEF Plain!Init, Begin
<1> QED  BY <1>9, <1>10, <1>11, <1>12 DEF FileInv

(* Every step keeps the invariant and is a step of the plain file.         *)
LEMMA StepFile == ASSUME FileInv, [SafeNext]_vars PROVE FileInv' /\ PlainStep
<1>1. CASE Calls
  <2>1. CASE \E n \in Counts : ReadCall("count", n) \/ \E p \in Positions : ReadAtCall(p, n)
    <3>1. PICK n \in Counts : ReadCall("count", n) \/ \E p \in Positions : ReadAtCall(p, n)
      BY <2>1
    <3>2. CASE ReadCall("count", n)  BY <3>2, ReadCallKeeps
    <3>3. CASE \E p \in Positions : ReadAtCall(p, n)  BY <3>3, ReadAtCallKeeps
    <3> QED  BY <3>1, <3>2, <3>3
  <2>2. CASE ReadCall("word", 0) \/ ReadCall("line", 0)  BY <2>2, ReadCallKeeps
  <2> QED
    BY <1>1, <2>1, <2>2, OpenKeeps, ReadAtFailsKeeps, SeekFailsKeeps, WriteFailsKeeps, SeekKeeps
    DEF Calls
<1>2. CASE Reads
  BY <1>2, RefillKeeps, ReadEndsKeeps, TakeCountKeeps, TakeToSeparatorKeeps DEF Reads
<1>3. CASE ReadFails  BY <1>3, ReadFailsKeeps
<1>4. CASE \E text \in Texts :
             ahead = <<>> /\ offset + Len(text) <= MaxLength + 1 /\ Write(text)
  BY <1>4, WriteKeeps
<1>5. CASE UNCHANGED vars
  <2>1. PlainStep  BY <1>5, Unseen DEF vars, Begin
  <2> QED  BY <1>5, <2>1 DEF vars, FileInv, TypeOK, InFile, Asked, At, Begin, Separator
<1> QED  BY <1>1, <1>2, <1>3, <1>4, <1>5 DEF SafeNext

(* The state of the file handler keeps its type.                           *)
THEOREM FileTypeCorrect == SafeSpec => []TypeOK
<1>1. Init => FileInv  BY InitFile
<1>2. FileInv /\ [SafeNext]_vars => FileInv'  BY StepFile
<1>3. FileInv => TypeOK  BY DEF FileInv
<1> QED  BY <1>1, <1>2, <1>3, PTL DEF SafeSpec

(* What is read ahead is what the file holds just before the kernel's      *)
(* offset, whatever is read, sought and written.                           *)
THEOREM BufferInFile == SafeSpec => []AheadIsInFile
<1>1. Init => FileInv  BY InitFile
<1>2. FileInv /\ [SafeNext]_vars => FileInv'  BY StepFile
<1>3. ASSUME FileInv PROVE AheadIsInFile
  <2>1. SUFFICES ASSUME ahead # <<>>
                 PROVE  /\ Len(ahead) <= offset /\ offset <= Len(content)
                        /\ ahead = SubSeq(content, offset - Len(ahead) + 1, offset)
    BY DEF AheadIsInFile
  <2>2. PICK p : p = Begin + Len(got)  OBVIOUS
  <2>3. /\ content \in Seq(C) /\ ahead \in Seq(C) /\ Len(ahead) \in Nat /\ Len(content) \in Nat
        /\ offset \in Nat /\ p \in Nat /\ p + Len(ahead) = offset
    BY <1>3, <2>2, Known
  <2>4. At(ahead, p)  BY <1>3, <2>1, <2>2 DEF FileInv, InFile
  <2>5. ahead = SubSeq(content, p + 1, p + Len(ahead)) /\ p + Len(ahead) <= Len(content)
    BY <2>3, <2>4, TextBetween DEF At
  <2>6. offset - Len(ahead) + 1 = p + 1 /\ Len(ahead) <= offset  BY ONLY <2>3
  <2> QED  BY ONLY <2>3, <2>5, <2>6
<1> QED  BY <1>1, <1>2, <1>3, PTL DEF SafeSpec

(* Every read gives what stands in the file behind the one before, every   *)
(* write goes where the cursor stands: with its buffer the file behaves as *)
(* a file without one.                                                     *)
THEOREM FileImplementsPlain == SafeSpec => ImplementsPlainFile
<1>1. Init => FileInv /\ Plain!Init  BY InitFile
<1>2. FileInv /\ [SafeNext]_vars => FileInv' /\ [Plain!Next]_(Plain!vars)
  BY StepFile DEF PlainStep
<1> QED  BY <1>1, <1>2, PTL DEF SafeSpec, ImplementsPlainFile, Plain!Spec
=============================================================================
