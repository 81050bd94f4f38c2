----------------------------- MODULE CLPIM_proofs -----------------------------
(***************************************************************************)
(* What a restart finds in the two files the program keeps, for all        *)
(* plugins, names, urls and feeds, whatever the plugins do and wherever    *)
(* the process is killed: the configuration that was made of it in the     *)
(* menu, and the subscriptions the reader had when it was quit (the file   *)
(* is rewritten in place text by text, and read by lines); and what the    *)
(* views show.                                                             *)
(***************************************************************************)
EXTENDS MCCLPIM, SequenceTheorems, FiniteSetTheorems, WellFoundedInduction, TLAPS

(* Numbers, and functions defined by recursion.                            *)

(* A set of numbers that is not empty has a least one.                    *)
LEMMA LeastNumber ==
  ASSUME NEW S \in SUBSET Nat, S # {}
  PROVE  \E x \in S : \A y \in S : x <= y
<1>1. PICK x \in S : \A y \in S : <<y, x>> \notin OpToRel(<, Nat)
  BY NatLessThanWellFounded, WFMin
<1>2. \A y \in S : ~(y < x)  BY <1>1 DEF OpToRel
<1> QED  BY <1>2

(* Induction up to n, on the set of the numbers for which a fact holds.    *)
LEMMA UpTo ==
  ASSUME NEW n \in Nat, NEW S, 0 \in S, \A i \in 1 .. n : i - 1 \in S => i \in S
  PROVE  0 .. n \subseteq S
<1>1. SUFFICES ASSUME 0 .. n \ S # {} PROVE FALSE  OBVIOUS
<1>2. PICK m \in 0 .. n \ S : \A y \in 0 .. n \ S : m <= y
  <2>1. 0 .. n \ S \in SUBSET Nat  OBVIOUS
  <2> QED  BY ONLY <1>1, <2>1, LeastNumber
<1>3. m \in 1 .. n /\ m - 1 \in 0 .. n /\ ~ (m <= m - 1)  BY <1>2
<1> QED  BY <1>2, <1>3

(* The values of a function that is defined by recursion over 0 .. n.      *)
Steps(n, S) == [1 .. n -> [S -> S]]

Unfolds(g, n, S, f0, step) ==
  g \in [0 .. n -> S] /\ g[0] = f0 /\ \A i \in 1 .. n : g[i] = step[i][g[i - 1]]

(* Such a function exists.                                                 *)
LEMMA RecursionExists ==
  ASSUME NEW n \in Nat, NEW S, NEW f0 \in S, NEW step \in Steps(n, S)
  PROVE  \E g : Unfolds(g, n, S, f0, step)
<1>0. step \in [1 .. n -> [S -> S]]  BY DEF Steps
<1> DEFINE Good(m) == \E g \in [0 .. m -> S] :
             g[0] = f0 /\ \A i \in 1 .. m : g[i] = step[i][g[i - 1]]
<1>1. PICK D : D = {m \in 0 .. n : Good(m)}  OBVIOUS
<1>2. 0 \in D
  <2>1. PICK g : g = [i \in 0 .. 0 |-> f0]  OBVIOUS
  <2>2. g \in [0 .. 0 -> S] /\ g[0] = f0 /\ \A i \in 1 .. 0 : g[i] = step[i][g[i - 1]]
    BY <2>1
  <2>3. Good(0)  BY <2>2
  <2> QED  BY <1>1, <2>3
<1>3. ASSUME NEW m \in 1 .. n, m - 1 \in D PROVE m \in D
  <2>1. PICK g \in [0 .. m - 1 -> S] :
          g[0] = f0 /\ \A i \in 1 .. m - 1 : g[i] = step[i][g[i - 1]]
    BY <1>1, <1>3
  <2>2. PICK h : h = [i \in 0 .. m |-> IF i = m THEN step[m][g[m - 1]] ELSE g[i]]  OBVIOUS
  <2>3. g[m - 1] \in S /\ step[m][g[m - 1]] \in S  BY <1>0, <2>1
  <2>4. h \in [0 .. m -> S]  BY <2>1, <2>2, <2>3
  <2>5. h[0] = f0  BY <2>1, <2>2
  <2>6. ASSUME NEW i \in 1 .. m PROVE h[i] = step[i][h[i - 1]]
    <3>1. CASE i = m  BY <2>2, <3>1
    <3>2. CASE i # m
      <4>1. i \in 1 .. m - 1 /\ i - 1 \in 0 .. m /\ i - 1 # m  BY <3>2
      <4> QED  BY <2>1, <2>2, <4>1
    <3> QED  BY <3>1, <3>2
  <2>7. Good(m) /\ m \in 0 .. n  BY <2>4, <2>5, <2>6
  <2> QED  BY <1>1, <2>7
<1>4. n \in D
  <2>1. 0 .. n \subseteq D  BY <1>2, <1>3, UpTo
  <2> QED  BY <2>1
<1> QED  BY <1>1, <1>4 DEF Unfolds

-----------------------------------------------------------------------------
(* What the start of the program reads of the configuration file.          *)

(* A word is put behind those read before, unless it is ignored.           *)
Reading(s, w) == IF w \in Ignored THEN s ELSE Append(s, w)

(* ReadBack goes over the words from the first to the last.                *)
LEMMA ReadBackReads ==
  ASSUME NEW words \in Seq(Plugins)
  PROVE  \E q : /\ q \in [0 .. Len(words) -> Seq(Plugins \ Ignored)]
                /\ q[0] = <<>>
                /\ \A i \in 1 .. Len(words) : q[i] = Reading(q[i - 1], words[i])
                /\ ReadBack(words) = q[Len(words)]
<1> DEFINE n == Len(words)
           S == Seq(Plugins \ Ignored)
           step == [i \in 1 .. n |-> [s \in S |-> Reading(s, words[i])]]
           def(g) == [i \in 0 .. n |-> IF i = 0 THEN <<>> ELSE Reading(g[i - 1], words[i])]
           read == CHOOSE g : g = def(g)
<1>1. n \in Nat /\ <<>> \in S  BY EmptySeq, LenProperties
<1>2. step \in Steps(n, S)
  <2>1. ASSUME NEW i \in 1 .. n, NEW s \in S
        PROVE  Reading(s, words[i]) \in S
    <3>1. words[i] \in Plugins  BY ElementOfSeq
    <3> QED  BY <3>1, AppendProperties DEF Reading
  <2> QED  BY <2>1 DEF Steps
<1>3. PICK g : Unfolds(g, n, S, <<>>, step)  BY <1>1, <1>2, RecursionExists
<1>4. /\ g \in [0 .. n -> S] /\ g[0] = <<>>
      /\ \A i \in 1 .. n : g[i - 1] \in S /\ g[i] = step[i][g[i - 1]]
  <2> HIDE DEF step, S
  <2>1. g \in [0 .. n -> S] /\ g[0] = <<>> /\ \A i \in 1 .. n : g[i] = step[i][g[i - 1]]
    BY <1>3 DEF Unfolds
  <2>2. \A i \in 1 .. n : i - 1 \in 0 .. n  BY <1>1
  <2> QED  BY <2>1, <2>2
<1>5. \A i \in 1 .. n : g[i] = Reading(g[i - 1], words[i])  BY <1>4
<1>6. g = def(g)
  <2>1. \A i \in 0 .. n : g[i] = def(g)[i]  BY <1>1, <1>4, <1>5
  <2>2. g = [i \in 0 .. n |-> g[i]] /\ def(g) = [i \in 0 .. n |-> def(g)[i]]  BY <1>4
  <2> QED  BY <2>1, <2>2
<1>7. read = def(read)  BY <1>6
<1>8. ReadBack(words) = read[n]  BY DEF ReadBack, Reading
<1> HIDE DEF read
<1>9. /\ read[0] = <<>>
      /\ \A i \in 1 .. n : read[i] = Reading(read[i - 1], words[i])
      /\ read = [i \in 0 .. n |-> read[i]]
  BY <1>1, <1>7
<1>10. \A i \in 0 .. n : read[i] = g[i]
  <2>1. PICK D : D = {i \in 0 .. n : read[i] = g[i]}  OBVIOUS
  <2>2. 0 \in D  BY <2>1, <1>1, <1>4, <1>9
  <2>3. ASSUME NEW i \in 1 .. n, i - 1 \in D PROVE i \in D
    <3>1. i \in 0 .. n  BY <1>1
    <3>2. PICK x : x = g[i - 1]  OBVIOUS
    <3>3. read[i - 1] = x  BY <2>1, <2>3, <3>2
    <3>4. read[i] = g[i]  BY <1>5, <1>9, <3>2, <3>3
    <3> QED  BY <2>1, <3>1, <3>4
  <2>4. 0 .. n \subseteq D  BY <1>1, <2>2, <2>3, UpTo
  <2> QED  BY <2>1, <2>4
<1>11. read \in [0 .. n -> S]  BY <1>4, <1>9, <1>10
<1> QED  BY <1>8, <1>9, <1>11

(* Only words that are not ignored come back,                              *)
LEMMA ReadBackType ==
  ASSUME NEW words \in Seq(Plugins)
  PROVE  ReadBack(words) \in Seq(Plugins \ Ignored)
<1>1. PICK q : /\ q \in [0 .. Len(words) -> Seq(Plugins \ Ignored)]
               /\ ReadBack(words) = q[Len(words)]
  BY ReadBackReads
<1>2. Len(words) \in 0 .. Len(words)  BY LenProperties
<1> QED  BY <1>1, <1>2

(* and they come back as they are.                                         *)
LEMMA ReadBackAll ==
  ASSUME NEW words \in Seq(Plugins \ Ignored)
  PROVE  ReadBack(words) = words
<1>0. Plugins \ Ignored \subseteq Plugins /\ Len(words) \in Nat
      /\ \A i \in 1 .. Len(words) : words[i] \in Plugins \ Ignored
  BY LenProperties, ElementOfSeq
<1>1. words \in Seq(Plugins)  BY <1>0, LenProperties, SeqDef
<1>2. PICK q : /\ q \in [0 .. Len(words) -> Seq(Plugins \ Ignored)]
               /\ q[0] = <<>>
               /\ \A i \in 1 .. Len(words) : q[i] = Reading(q[i - 1], words[i])
               /\ ReadBack(words) = q[Len(words)]
  BY <1>1, ReadBackReads
<1>3. PICK D : D = {i \in 0 .. Len(words) : Len(q[i]) = i /\ \A j \in 1 .. i : q[i][j] = words[j]}
  OBVIOUS
<1>4. 0 \in D
  <2>1. Len(q[0]) = 0 /\ \A j \in 1 .. 0 : q[0][j] = words[j]  BY <1>2, EmptySeq
  <2> QED  BY <1>0, <1>3, <2>1
<1>5. ASSUME NEW i \in 1 .. Len(words), i - 1 \in D PROVE i \in D
  <2>1. PICK s, w : s = q[i - 1] /\ w = words[i]  OBVIOUS
  <2>2. s \in Seq(Plugins \ Ignored) /\ Len(s) = i - 1 /\ \A j \in 1 .. i - 1 : s[j] = words[j]
    BY <1>2, <1>3, <1>5, <2>1
  <2>3. w \in Plugins \ Ignored  BY <1>0, <2>1
  <2>4. q[i] = Append(s, w)  BY <1>2, <2>1, <2>3 DEF Reading
  <2>5. Len(q[i]) = i /\ q[i][i] = w /\ \A j \in 1 .. i - 1 : q[i][j] = s[j]
    BY <2>2, <2>3, <2>4, AppendProperties
  <2>6. \A j \in 1 .. i : q[i][j] = words[j]
    <3>1. \A j \in 1 .. i : j = i \/ j \in 1 .. i - 1  OBVIOUS
    <3> QED  BY <2>1, <2>2, <2>5, <3>1
  <2> QED  BY <1>0, <1>3, <2>5, <2>6
<1>6. Len(words) \in D
  <2>1. 0 .. Len(words) \subseteq D  BY <1>0, <1>4, <1>5, UpTo
  <2> QED  BY <1>0, <2>1
<1>7. PICK r : r = q[Len(words)]  OBVIOUS
<1>8. r \in Seq(Plugins \ Ignored) /\ Len(r) = Len(words) /\ \A j \in 1 .. Len(words) : r[j] = words[j]
  <2>1. Len(words) \in 0 .. Len(words)  BY <1>0
  <2> QED  BY <1>2, <1>3, <1>6, <1>7, <2>1
<1>9. r = words  BY <1>8, SeqEqual
<1> QED  BY <1>2, <1>7, <1>9

(* Reading it back once more changes nothing.                              *)
LEMMA ReadBackAgain ==
  ASSUME NEW words \in Seq(Plugins)
  PROVE  ReadBack(words) \in Seq(Plugins) /\ ReadBack(ReadBack(words)) = ReadBack(words)
<1>1. PICK s : s = ReadBack(words)  OBVIOUS
<1>2. s \in Seq(Plugins \ Ignored)  BY <1>1, ReadBackType
<1>3. ReadBack(s) = s  BY <1>2, ReadBackAll
<1>4. s \in Seq(Plugins)
  <2>1. Len(s) \in Nat /\ \A i \in 1 .. Len(s) : s[i] \in Plugins  BY <1>2, LenProperties, ElementOfSeq
  <2> QED  BY <1>2, <2>1, LenProperties, SeqDef
<1> QED  BY <1>1, <1>3, <1>4

-----------------------------------------------------------------------------
(* The configuration.  All words on their way from the user to the file    *)
(* and back are plugins; outside the menu and the start a restart would    *)
(* read what the program has, and in the menu as long as nothing changed.  *)
Elsewhere == {"off", "load", "conf", "save"}

ConfInv ==
  /\ content \in Seq(Plugins) /\ conf \in Seq(Plugins)
  /\ mode = "off" => plugins = {}
  /\ mode = "load" => content = ReadBack(conf) /\ plugins \subseteq ToSet(content)
  /\ mode \notin Elsewhere => ReadBack(content) = ReadBack(conf)
  /\ mode = "conf" /\ ~changed => ReadBack(content) = ReadBack(conf)

(* No step of the reader starts or ends in the configuration menu.         *)
LEMMA ReaderModes == ASSUME ReaderNext PROVE mode \notin Elsewhere /\ mode' \notin Elsewhere
<1>1. CASE Exec \/ ImportFromGoogleReader \/ Quit
  BY <1>1 DEF Exec, ImportFromGoogleReader, Quit, Elsewhere
<1>2. CASE DumpWrite \/ DumpEnds
  BY <1>2 DEF DumpWrite, DumpEnds, Elsewhere
<1>3. CASE GetIn \/ LeaveList
  BY <1>3 DEF GetIn, LeaveList, Elsewhere
<1>4. CASE ChooseItem \/ ShowItem
  BY <1>4 DEF ChooseItem, ShowItem, GoOn, LeaveView, Elsewhere
<1>5. ASSUME NEW id, NEW n, View(id, n)
      PROVE  mode \notin Elsewhere /\ mode' \notin Elsewhere
  <2>1. mode = "list" /\ (mode' = mode \/ mode' = "dir")  BY <1>5 DEF View
  <2> QED  BY <2>1 DEF Elsewhere
<1> QED  BY <1>1, <1>2, <1>3, <1>4, <1>5 DEF ReaderNext

(* Taking one name out leaves a sequence of the others.                    *)
LEMMA RemoveAtType ==
  ASSUME NEW S, NEW s \in Seq(S), NEW i \in DOMAIN s
  PROVE  RemoveAt(s, i) \in Seq(S)
<1>1. Len(s) \in Nat /\ DOMAIN s = 1 .. Len(s)  BY LenProperties
<1>2. i \in 1 .. Len(s) /\ i - 1 \in Int /\ i + 1 \in Int /\ 1 \in Int /\ Len(s) \in Int  BY <1>1
<1>3. (\A j \in 1 .. i - 1 : s[j] \in S) /\ (\A j \in i + 1 .. Len(s) : s[j] \in S)
  <2>1. \A j \in 1 .. Len(s) : s[j] \in S  BY ElementOfSeq
  <2>2. 1 .. i - 1 \subseteq 1 .. Len(s) /\ i + 1 .. Len(s) \subseteq 1 .. Len(s)  BY <1>1, <1>2
  <2> QED  BY <2>1, <2>2
<1>4. PICK p, q : p = i - 1 /\ q = i + 1  OBVIOUS
<1>5. p \in Int /\ q \in Int  BY <1>2, <1>4
<1>6. SubSeq(s, 1, p) \in Seq(S)
  <2>1. \A j \in 1 .. p : s[j] \in S  BY <1>3, <1>4
  <2> QED  BY <1>2, <1>5, <2>1, SubSeqProperties
<1>7. SubSeq(s, q, Len(s)) \in Seq(S)
  <2>1. \A j \in q .. Len(s) : s[j] \in S  BY <1>3, <1>4
  <2> QED  BY <1>2, <1>5, <2>1, SubSeqProperties
<1>8. SubSeq(s, 1, p) \o SubSeq(s, q, Len(s)) \in Seq(S)  BY <1>6, <1>7, ConcatProperties
<1> QED  BY <1>4, <1>8 DEF RemoveAt

(* The process is gone, and the file with the configuration is not.        *)
LEMMA EndKeeps ==
  ASSUME ConfInv, Gone, Forgotten, UNCHANGED conf
  PROVE  ConfInv'
<1>1. mode' = "off" /\ content' = <<>> /\ conf' = conf /\ plugins' = {}  BY DEF Gone, Forgotten
<1>2. content' \in Seq(Plugins)  BY <1>1, EmptySeq
<1> QED  BY <1>1, <1>2 DEF ConfInv, Elsewhere

(* The steps of the configuration menu.                                    *)
LEMMA MenuKeeps == ASSUME ConfInv, ConfStep PROVE ConfInv'
<1>1. CASE Configure
  <2>1. mode = "main" /\ mode' = "conf" /\ content' = content /\ conf' = conf  BY <1>1 DEF Configure
  <2>2. ReadBack(content) = ReadBack(conf)  BY <2>1 DEF ConfInv, Elsewhere
  <2> QED  BY <2>1, <2>2 DEF ConfInv, Elsewhere
<1>2. CASE ExitConf
  <2>1. <<>> \in Seq(Plugins)  BY EmptySeq
  <2>2. CASE changed
    <3>1. mode' = "save" /\ conf' = <<>> /\ content' = content  BY <1>2, <2>2 DEF ExitConf
    <3> QED  BY <2>1, <3>1 DEF ConfInv, Elsewhere
  <2>3. CASE ~changed
    <3>1. mode = "conf" /\ mode' = "main" /\ conf' = conf /\ content' = content
      BY <1>2, <2>3 DEF ExitConf
    <3>2. ReadBack(content) = ReadBack(conf)  BY <2>3, <3>1 DEF ConfInv
    <3> QED  BY <3>1, <3>2 DEF ConfInv, Elsewhere
  <2> QED  BY <2>2, <2>3
<1>3. CASE SaveConf
  <2>1. mode' = "main" /\ conf' = content /\ content' = content  BY <1>3 DEF SaveConf
  <2> QED  BY <2>1 DEF ConfInv, Elsewhere
<1>4. ASSUME NEW p \in Plugins, AddPlugin(p) PROVE ConfInv'
  <2>1. mode' = "conf" /\ changed' = TRUE /\ conf' = conf /\ content' = Append(content, p)
    BY <1>4 DEF AddPlugin
  <2>2. content' \in Seq(Plugins)  BY <2>1, AppendProperties DEF ConfInv
  <2> QED  BY <2>1, <2>2 DEF ConfInv, Elsewhere
<1>5. ASSUME NEW p \in Plugins, RemovePlugin(p) PROVE ConfInv'
  <2>1. PICK i \in DOMAIN content : content' = RemoveAt(content, i)  BY <1>5 DEF RemovePlugin
  <2>2. mode' = "conf" /\ changed' = TRUE /\ conf' = conf  BY <1>5 DEF RemovePlugin
  <2>3. content' \in Seq(Plugins)  BY <2>1, RemoveAtType DEF ConfInv
  <2> QED  BY <2>2, <2>3 DEF ConfInv, Elsewhere
<1> QED  BY <1>1, <1>2, <1>3, <1>4, <1>5 DEF ConfStep

(* The steps of the start.                                                 *)
LEMMA LoadKeeps == ASSUME ConfInv, StartStep PROVE ConfInv'
<1>1. CASE Start
  <2>1. /\ mode = "off" /\ mode' = "load" /\ content' = ReadBack(conf)
        /\ conf' = conf /\ plugins' = plugins
    BY <1>1 DEF Start
  <2>2. conf \in Seq(Plugins) /\ plugins = {}  BY <2>1 DEF ConfInv
  <2>3. content' \in Seq(Plugins)  BY <2>1, <2>2, ReadBackAgain
  <2> QED  BY <2>1, <2>2, <2>3 DEF ConfInv, Elsewhere
<1>2. CASE EnterLoop
  <2>1. mode = "load" /\ mode' = "main" /\ UNCHANGED <<content, conf>>  BY <1>2 DEF EnterLoop, settings
  <2>2. content = ReadBack(conf) /\ conf \in Seq(Plugins)  BY <2>1 DEF ConfInv
  <2>3. ReadBack(content) = ReadBack(conf)  BY <2>2, ReadBackAgain
  <2> QED  BY <2>1, <2>3 DEF ConfInv, Elsewhere
<1>3. ASSUME NEW p \in Plugins, LoadPlugin(p) PROVE ConfInv'
  <2>1. /\ mode = "load" /\ mode' = "load" /\ content' = content /\ conf' = conf
        /\ plugins' = plugins \cup {p} /\ \E i \in DOMAIN content : content[i] = p
    BY <1>3 DEF LoadPlugin, ToLoad
  <2>2. p \in ToSet(content)  BY <2>1 DEF ToSet
  <2>3. content = ReadBack(conf) /\ plugins \subseteq ToSet(content)  BY <2>1 DEF ConfInv
  <2>4. content' = ReadBack(conf') /\ plugins' \subseteq ToSet(content')  BY <2>1, <2>2, <2>3
  <2> QED  BY <2>1, <2>4 DEF ConfInv, Elsewhere
<1>4. ASSUME NEW p \in Plugins, LoadFails(p) PROVE ConfInv'  BY <1>4, EndKeeps DEF LoadFails
<1> QED  BY <1>1, <1>2, <1>3, <1>4 DEF StartStep

(* All other steps leave configuration and file alone.                     *)
LEMMA StepKeeps == ASSUME ConfInv, [Next]_vars PROVE ConfInv'
<1>1. CASE StartStep  BY <1>1, LoadKeeps
<1>2. CASE Leave  BY <1>2, EndKeeps DEF Leave
<1>3. CASE Crash  BY <1>3, EndKeeps DEF Crash
<1>4. CASE ReaderStep
  <2>1. content' = content /\ conf' = conf  BY <1>4 DEF ReaderStep, settings
  <2>2. mode \notin Elsewhere /\ mode' \notin Elsewhere  BY <1>4, ReaderModes DEF ReaderStep
  <2> QED  BY <2>1, <2>2 DEF ConfInv, Elsewhere
<1>5. CASE ConfStep  BY <1>5, MenuKeeps
<1>6. CASE UNCHANGED vars
  <2>1. content' = content /\ conf' = conf /\ mode' = mode /\ changed' = changed /\ plugins' = plugins
    BY <1>6 DEF vars, settings, readerVars
  <2> QED  BY <2>1 DEF ConfInv
<1> QED  BY <1>1, <1>2, <1>3, <1>4, <1>5, <1>6 DEF Next

(* The first start.                                                        *)
LEMMA StartKeeps == ASSUME Init PROVE ConfInv
<1>1. mode = "off" /\ content = <<>> /\ conf = FirstConf /\ plugins = {}  BY DEF Init, ReaderInit
<1>2. content \in Seq(Plugins)  BY <1>1, EmptySeq
<1>3. conf \in Seq(Plugins)  BY <1>1, FirstConfAssumption
<1> QED  BY <1>1, <1>2, <1>3 DEF ConfInv, Elsewhere

-----------------------------------------------------------------------------
(* What the menu promises.                                                 *)

(* PluginList reads its words in the same way.                             *)
LEMMA ReadableIs == \A words : List!Readable(words) = ReadBack(words)
BY DEF List!Readable, ReadBack

(* The mapping.                                                            *)
OutOfLoop == mode \in {"off", "load"}
ListKept == ReadBack(conf)
ListListed == IF OutOfLoop THEN <<>> ELSE content
ListOffered == IF OutOfLoop THEN {} ELSE plugins
ListPlace == CASE OutOfLoop -> "off"
               [] mode = "conf" -> "visit"
               [] mode = "save" -> "keep"
               [] OTHER -> "on"

(* What PluginList's steps do, in these terms.                             *)
ListStep ==
  \/ /\ ListPlace = "off" /\ ListPlace' = "on" /\ ListKept' = ListKept
     /\ ListListed' = ListKept /\ ListOffered' = ToSet(ListKept)
  \/ /\ ListPlace = "on" /\ ListPlace' = "visit"
     /\ ListKept' = ListKept /\ ListListed' = ListListed /\ ListOffered' = ListOffered
  \/ /\ ListPlace = "visit" /\ ListPlace' = "visit"
     /\ ListKept' = ListKept /\ ListOffered' = ListOffered
     /\ \/ \E w \in Plugins \ ToSet(ListListed) : ListListed' = Append(ListListed, w)
        \/ \E i \in DOMAIN ListListed : ListListed' = RemoveAt(ListListed, i)
  \/ /\ ListPlace = "visit" /\ ListPlace' = "keep" /\ ListKept' = <<>>
     /\ ListListed' = ListListed /\ ListOffered' = ListOffered
  \/ /\ ListPlace \in {"visit", "keep"} /\ ListPlace' = "on" /\ ListKept' = ReadBack(ListListed)
     /\ ListListed' = ListListed /\ ListOffered' = ListOffered
  \/ /\ ListPlace # "off" /\ ListPlace' = "off" /\ ListKept' = ListKept
     /\ ListListed' = <<>> /\ ListOffered' = {}
  \/ /\ ListPlace' = ListPlace /\ ListKept' = ListKept
     /\ ListListed' = ListListed /\ ListOffered' = ListOffered

(* The process is gone.                                                    *)
LEMMA EndIsListStep ==
  ASSUME Gone, Forgotten, UNCHANGED conf
  PROVE  ListStep
<1>1. mode' = "off" /\ conf' = conf  BY DEF Gone, Forgotten
<1>2. ListPlace' = "off" /\ ListListed' = <<>> /\ ListOffered' = {} /\ ListKept' = ListKept
  BY <1>1 DEF ListPlace, ListListed, ListOffered, ListKept, OutOfLoop
<1>3. CASE OutOfLoop
  <2>1. ListPlace = "off" /\ ListListed = <<>> /\ ListOffered = {}
    BY <1>3 DEF ListPlace, ListListed, ListOffered, OutOfLoop
  <2> QED  BY <1>2, <2>1 DEF ListStep
<1>4. CASE ~OutOfLoop
  <2>1. ListPlace # "off"  BY <1>4 DEF ListPlace, OutOfLoop
  <2> QED  BY <1>2, <2>1 DEF ListStep
<1> QED  BY <1>3, <1>4

(* In the menu and in the loop the mapping is plain.                       *)
LEMMA MappedIn ==
  ASSUME mode \notin {"off", "load"}
  PROVE  /\ ListListed = content /\ ListOffered = plugins
         /\ mode = "conf" => ListPlace = "visit"
         /\ mode = "save" => ListPlace = "keep"
         /\ mode \notin {"conf", "save"} => ListPlace = "on"
BY DEF ListListed, ListOffered, ListPlace, OutOfLoop

(* The same of the next state.                                             *)
LEMMA MappedNext ==
  ASSUME mode' \notin {"off", "load"}
  PROVE  /\ ListListed' = content' /\ ListOffered' = plugins'
         /\ mode' = "conf" => ListPlace' = "visit"
         /\ mode' = "save" => ListPlace' = "keep"
         /\ mode' \notin {"conf", "save"} => ListPlace' = "on"
BY DEF ListListed, ListOffered, ListPlace, OutOfLoop

LEMMA MenuIsListStep == ASSUME ConfInv, ConfStep PROVE ListStep
<1>0. <<>> \in Seq(Plugins \ Ignored) /\ ReadBack(<<>>) = <<>>
  <2>1. <<>> \in Seq(Plugins \ Ignored)  BY EmptySeq
  <2> QED  BY <2>1, ReadBackAll
<1>1. CASE Configure
  <2>1. mode = "main" /\ mode' = "conf" /\ UNCHANGED <<content, conf, plugins>>  BY <1>1 DEF Configure
  <2>2. ListPlace = "on" /\ ListPlace' = "visit" /\ ListKept' = ListKept
        /\ ListListed' = ListListed /\ ListOffered' = ListOffered
    BY <2>1, MappedIn, MappedNext DEF ListKept
  <2> QED  BY <2>2 DEF ListStep
<1>2. CASE ExitConf
  <2>1. mode = "conf" /\ UNCHANGED <<content, plugins>>  BY <1>2 DEF ExitConf
  <2>2. CASE changed
    <3>1. mode' = "save" /\ conf' = <<>>  BY <1>2, <2>2 DEF ExitConf
    <3>2. ListPlace = "visit" /\ ListPlace' = "keep"
          /\ ListListed' = ListListed /\ ListOffered' = ListOffered
      BY <2>1, <3>1, MappedIn, MappedNext
    <3>3. ListKept' = <<>>  BY <1>0, <3>1 DEF ListKept
    <3> QED  BY <3>2, <3>3 DEF ListStep
  <2>3. CASE ~changed
    <3>1. mode' = "main" /\ conf' = conf  BY <1>2, <2>3 DEF ExitConf
    <3>2. ListPlace = "visit" /\ ListPlace' = "on" /\ ListListed = content
          /\ ListListed' = ListListed /\ ListOffered' = ListOffered
      BY <2>1, <3>1, MappedIn, MappedNext
    <3>3. ReadBack(content) = ReadBack(conf)  BY <2>1, <2>3 DEF ConfInv
    <3>4. ListKept' = ReadBack(ListListed)  BY <3>1, <3>2, <3>3 DEF ListKept
    <3> QED  BY <3>2, <3>4 DEF ListStep
  <2> QED  BY <2>2, <2>3
<1>3. CASE SaveConf
  <2>1. mode = "save" /\ mode' = "main" /\ conf' = content /\ UNCHANGED <<content, plugins>>
    BY <1>3 DEF SaveConf
  <2>2. ListPlace = "keep" /\ ListPlace' = "on" /\ ListListed = content
        /\ ListListed' = ListListed /\ ListOffered' = ListOffered
    BY <2>1, MappedIn, MappedNext
  <2>3. ListKept' = ReadBack(ListListed)  BY <2>1, <2>2 DEF ListKept
  <2> QED  BY <2>2, <2>3 DEF ListStep
<1>4. ASSUME NEW p \in Plugins, AddPlugin(p) \/ RemovePlugin(p) PROVE ListStep
  <2>1. mode = "conf" /\ mode' = "conf" /\ UNCHANGED <<conf, plugins>>
        /\ \/ p \notin ToSet(content) /\ content' = Append(content, p)
           \/ \E i \in DOMAIN content : content' = RemoveAt(content, i)
    BY <1>4 DEF AddPlugin, RemovePlugin
  <2>2. ListPlace = "visit" /\ ListPlace' = "visit" /\ ListListed = content /\ ListListed' = content'
        /\ ListOffered' = ListOffered /\ ListKept' = ListKept
    BY <2>1, MappedIn, MappedNext DEF ListKept
  <2> QED  BY <2>1, <2>2 DEF ListStep
<1> QED  BY <1>1, <1>2, <1>3, <1>4 DEF ConfStep

LEMMA LoadIsListStep == ASSUME ConfInv, StartStep PROVE ListStep
<1>1. ASSUME mode \in {"off", "load"}, mode' \in {"off", "load"}, conf' = conf PROVE ListStep
  <2>1. /\ ListPlace = "off" /\ ListListed = <<>> /\ ListOffered = {} /\ ListKept' = ListKept
        /\ ListPlace' = "off" /\ ListListed' = <<>> /\ ListOffered' = {}
    BY <1>1 DEF ListPlace, ListListed, ListOffered, ListKept, OutOfLoop
  <2> QED  BY <2>1 DEF ListStep
<1>2. CASE Start
  <2>1. mode = "off" /\ mode' = "load" /\ conf' = conf  BY <1>2 DEF Start
  <2> QED  BY <1>1, <2>1
<1>3. CASE EnterLoop
  <2>1. /\ mode = "load" /\ mode' = "main" /\ ToSet(content) \subseteq plugins
        /\ UNCHANGED <<content, conf, plugins>>
    BY <1>3 DEF EnterLoop, settings
  <2>2. content = ReadBack(conf) /\ plugins = ToSet(content)  BY <2>1 DEF ConfInv
  <2>3. ListPlace = "off"  BY <2>1 DEF ListPlace, OutOfLoop
  <2>4. ListPlace' = "on" /\ ListListed' = content' /\ ListOffered' = plugins'  BY <2>1, MappedNext
  <2>5. ListKept' = ListKept /\ ListKept = content  BY <2>1, <2>2 DEF ListKept
  <2>6. ListListed' = ListKept /\ ListOffered' = ToSet(ListKept)  BY <2>1, <2>2, <2>4, <2>5
  <2> QED  BY <2>3, <2>4, <2>5, <2>6 DEF ListStep
<1>4. ASSUME NEW p \in Plugins, LoadPlugin(p) PROVE ListStep
  <2>1. mode = "load" /\ mode' = "load" /\ conf' = conf  BY <1>4 DEF LoadPlugin, ToLoad
  <2> QED  BY <1>1, <2>1
<1>5. ASSUME NEW p \in Plugins, LoadFails(p) PROVE ListStep  BY <1>5, EndIsListStep DEF LoadFails
<1> QED  BY <1>2, <1>3, <1>4, <1>5 DEF StartStep

LEMMA NextIsListStep == ASSUME ConfInv, [Next]_vars PROVE ListStep
<1>1. CASE StartStep  BY <1>1, LoadIsListStep
<1>2. CASE Leave  BY <1>2, EndIsListStep DEF Leave
<1>3. CASE Crash  BY <1>3, EndIsListStep DEF Crash
<1>4. CASE ReaderStep
  <2>1. UNCHANGED <<content, conf, plugins>>  BY <1>4 DEF ReaderStep, settings
  <2>2. mode \notin Elsewhere /\ mode' \notin Elsewhere  BY <1>4, ReaderModes DEF ReaderStep
  <2>3. ListPlace = "on" /\ ListPlace' = "on" /\ ListListed' = ListListed /\ ListOffered' = ListOffered
    BY <2>1, <2>2, MappedIn, MappedNext DEF Elsewhere
  <2>4. ListKept' = ListKept  BY <2>1 DEF ListKept
  <2> QED  BY <2>3, <2>4 DEF ListStep
<1>5. CASE ConfStep  BY <1>5, MenuIsListStep
<1>6. CASE UNCHANGED vars
  <2>1. UNCHANGED <<mode, content, conf, plugins>>  BY <1>6 DEF vars, settings, readerVars
  <2>2. ListPlace' = ListPlace /\ ListListed' = ListListed /\ ListOffered' = ListOffered /\ ListKept' = ListKept
    BY <2>1 DEF ListPlace, ListListed, ListOffered, ListKept, OutOfLoop
  <2> QED  BY <2>2 DEF ListStep
<1> QED  BY <1>1, <1>2, <1>3, <1>4, <1>5, <1>6 DEF Next

(* For all words, however the file was written by hand at first and        *)
(* wherever the process is killed: what is added and removed in a visit of *)
(* the menu takes effect as a whole with the next start that gets through, *)
(* a program that runs has loaded every word of the file that is read, and *)
(* only a kill while the file is written can lose plugins.                 *)
THEOREM PluginsKept == Spec => ImplementsList
<1>1. Init => ConfInv  BY StartKeeps
<1>2. ConfInv /\ [Next]_vars => ConfInv'  BY StepKeeps
<1>3. Init => List!Init
  <2> SUFFICES ASSUME Init PROVE List!Init  OBVIOUS
  <2>1. mode = "off" /\ conf = FirstConf  BY DEF Init, ReaderInit
  <2>2. ReadBack(conf) \in Seq(Plugins \ Ignored)  BY <2>1, FirstConfAssumption, ReadBackType
  <2> QED  BY <2>1, <2>2 DEF List!Init
<1>4. ConfInv /\ [Next]_vars => [List!Next]_List!vars
  <2> SUFFICES ASSUME ConfInv, [Next]_vars PROVE [List!Next]_List!vars  OBVIOUS
  <2>1. ListStep  BY NextIsListStep
  <2> USE DEF ListKept, ListListed, ListOffered, ListPlace, OutOfLoop
  <2>2. ASSUME ListPlace = "off", ListPlace' = "on", ListKept' = ListKept,
               ListListed' = ListKept, ListOffered' = ToSet(ListKept)
        PROVE  List!Next
    <3>1. List!Start  BY <2>2 DEF List!Start, List!ToSet, ToSet
    <3> QED  BY <3>1 DEF List!Next
  <2>3. ASSUME ListPlace = "on", ListPlace' = "visit", ListKept' = ListKept,
               ListListed' = ListListed, ListOffered' = ListOffered
        PROVE  List!Next
    <3>1. List!Visit  BY <2>3 DEF List!Visit
    <3> QED  BY <3>1 DEF List!Next
  <2>4. ASSUME ListPlace = "visit", ListPlace' = "visit", ListKept' = ListKept, ListOffered' = ListOffered,
               \E w \in Plugins \ ToSet(ListListed) : ListListed' = Append(ListListed, w)
        PROVE  List!Next
    <3>1. List!Enter  BY <2>4 DEF List!Enter, List!ToSet, ToSet
    <3> QED  BY <3>1 DEF List!Next
  <2>5. ASSUME ListPlace = "visit", ListPlace' = "visit", ListKept' = ListKept, ListOffered' = ListOffered,
               \E i \in DOMAIN ListListed : ListListed' = RemoveAt(ListListed, i)
        PROVE  List!Next
    <3>1. List!TakeOut  BY <2>5 DEF List!TakeOut, List!RemoveAt, RemoveAt
    <3> QED  BY <3>1 DEF List!Next
  <2>6. ASSUME ListPlace = "visit", ListPlace' = "keep", ListKept' = <<>>,
               ListListed' = ListListed, ListOffered' = ListOffered
        PROVE  List!Next
    <3>1. List!Empty  BY <2>6 DEF List!Empty
    <3> QED  BY <3>1 DEF List!Next
  <2>7. ASSUME ListPlace \in {"visit", "keep"}, ListPlace' = "on", ListKept' = ReadBack(ListListed),
               ListListed' = ListListed, ListOffered' = ListOffered
        PROVE  List!Next
    <3>1. List!Return  BY <2>7, ReadableIs DEF List!Return
    <3> QED  BY <3>1 DEF List!Next
  <2>8. ASSUME ListPlace # "off", ListPlace' = "off", ListKept' = ListKept,
               ListListed' = <<>>, ListOffered' = {}
        PROVE  List!Next
    <3>1. List!Stop  BY <2>8 DEF List!Stop
    <3> QED  BY <3>1 DEF List!Next
  <2>9. ASSUME ListPlace' = ListPlace, ListKept' = ListKept,
               ListListed' = ListListed, ListOffered' = ListOffered
        PROVE  UNCHANGED List!vars
    BY <2>9 DEF List!vars
  <2> HIDE DEF ListKept, ListListed, ListOffered, ListPlace, OutOfLoop
  <2> QED  BY <2>1, <2>2, <2>3, <2>4, <2>5, <2>6, <2>7, <2>8, <2>9 DEF ListStep
<1> QED  BY <1>1, <1>2, <1>3, <1>4, PTL DEF Spec, ImplementsList, List!Spec

-----------------------------------------------------------------------------
(* What DumpSubs writes.                                                   *)

(* The i-th name is put behind s if it is one of the map's.                *)
Listing(s, i, m) == IF Names[i] \in DOMAIN m THEN Append(s, Names[i]) ELSE s

(* The names of a map, collected from the first to the last.               *)
Collected(q, m) ==
  /\ q \in [0 .. Len(Names) -> Seq(Range(Names))]
  /\ q[0] = <<>>
  /\ \A i \in 1 .. Len(Names) :
       q[i] = Listing(q[i - 1], i, m)

(* The sequence of the names has a length.                                 *)
LEMMA NamesList ==
  /\ Len(Names) \in Nat /\ DOMAIN Names = 1 .. Len(Names)
  /\ \A i \in 1 .. Len(Names) : Names[i] \in Range(Names)
  /\ \A n \in Range(Names) : \E i \in 1 .. Len(Names) : Names[i] = n
<1>1. Len(Names) \in Nat /\ DOMAIN Names = 1 .. Len(Names)
  BY NamesAssumption, LenProperties
<1> QED  BY <1>1 DEF Range

(* InOrder collects them.                                                  *)
LEMMA InOrderCollects ==
  ASSUME NEW m
  PROVE  \E q : Collected(q, m) /\ InOrder(m) = q[Len(Names)]
<1> DEFINE n == Len(Names)
           S == Seq(Range(Names))
           step == [i \in 1 .. n |-> [s \in S |-> Listing(s, i, m)]]
           def(g) == [i \in 0 .. n |-> IF i = 0 THEN <<>>
                                       ELSE Listing(g[i - 1], i, m)]
           listed == CHOOSE g : g = def(g)
<1>1. n \in Nat /\ <<>> \in S  BY NamesList, EmptySeq
<1>2. step \in Steps(n, S)
  <2>1. ASSUME NEW i \in 1 .. n, NEW s \in S
        PROVE  Listing(s, i, m) \in S
    BY NamesList, AppendProperties DEF Listing
  <2> QED  BY <2>1 DEF Steps
<1>3. PICK g : Unfolds(g, n, S, <<>>, step)  BY <1>1, <1>2, RecursionExists
<1>4. /\ g \in [0 .. n -> S] /\ g[0] = <<>>
      /\ \A i \in 1 .. n : g[i - 1] \in S /\ g[i] = step[i][g[i - 1]]
  <2> HIDE DEF step, S
  <2>1. g \in [0 .. n -> S] /\ g[0] = <<>> /\ \A i \in 1 .. n : g[i] = step[i][g[i - 1]]
    BY <1>3 DEF Unfolds
  <2>2. \A i \in 1 .. n : i - 1 \in 0 .. n  BY <1>1
  <2> QED  BY <2>1, <2>2
<1>5. \A i \in 1 .. n : g[i] = Listing(g[i - 1], i, m)
  BY <1>4
<1>6. g = def(g)
  <2>1. \A i \in 0 .. n : g[i] = def(g)[i]  BY <1>1, <1>4, <1>5
  <2>2. g = [i \in 0 .. n |-> g[i]] /\ def(g) = [i \in 0 .. n |-> def(g)[i]]  BY <1>4
  <2> QED  BY <2>1, <2>2
<1>7. listed = def(listed)  BY <1>6
<1>8. InOrder(m) = listed[n]  BY DEF InOrder, Listing
<1> HIDE DEF listed
<1>9. /\ listed[0] = <<>>
      /\ \A i \in 1 .. n :
           listed[i] = Listing(listed[i - 1], i, m)
      /\ listed = [i \in 0 .. n |-> listed[i]]
  BY <1>1, <1>7
<1>10. \A i \in 0 .. n : listed[i] = g[i]
  <2>1. PICK D : D = {i \in 0 .. n : listed[i] = g[i]}  OBVIOUS
  <2>2. 0 \in D  BY <2>1, <1>1, <1>4, <1>9
  <2>3. ASSUME NEW i \in 1 .. n, i - 1 \in D PROVE i \in D
    <3>1. i \in 0 .. n  BY <1>1
    <3>2. PICK x : x = g[i - 1]  OBVIOUS
    <3>3. listed[i - 1] = x  BY <2>1, <2>3, <3>2
    <3>4. listed[i] = g[i]  BY <1>5, <1>9, <3>2, <3>3
    <3> QED  BY <2>1, <3>1, <3>4
  <2>4. 0 .. n \subseteq D  BY <1>1, <2>2, <2>3, UpTo
  <2> QED  BY <2>1, <2>4
<1>11. listed \in [0 .. n -> S]  BY <1>4, <1>9, <1>10
<1> QED  BY <1>8, <1>9, <1>11 DEF Collected

(* One text behind another.                                                *)
Behind(s, t) == s \o t

(* The texts written so far.                                               *)
Written(T) ==
  LET written[k \in 0 .. Len(T)] == IF k = 0 THEN <<>> ELSE Behind(written[k - 1], T[k])
  IN  written

(* They are put one behind the other.                                      *)
LEMMA WrittenIs ==
  ASSUME NEW C, NEW T \in Seq(Seq(C))
  PROVE  /\ Written(T) \in [0 .. Len(T) -> Seq(C)]
         /\ Written(T)[0] = <<>>
         /\ \A k \in 1 .. Len(T) : Written(T)[k] = Behind(Written(T)[k - 1], T[k])
<1> DEFINE n == Len(T)
           S == Seq(C)
           step == [k \in 1 .. n |-> [s \in S |-> Behind(s, T[k])]]
           def(g) == [k \in 0 .. n |-> IF k = 0 THEN <<>> ELSE Behind(g[k - 1], T[k])]
           written == CHOOSE g : g = def(g)
<1>1. n \in Nat /\ <<>> \in S /\ \A k \in 1 .. n : T[k] \in S
  BY LenProperties, EmptySeq, ElementOfSeq
<1>2. step \in Steps(n, S)
  <2>1. ASSUME NEW k \in 1 .. n, NEW s \in S
        PROVE  Behind(s, T[k]) \in S
    BY <1>1, ConcatProperties DEF Behind
  <2> QED  BY <2>1 DEF Steps
<1>3. PICK g : Unfolds(g, n, S, <<>>, step)  BY <1>1, <1>2, RecursionExists
<1>4. /\ g \in [0 .. n -> S] /\ g[0] = <<>>
      /\ \A k \in 1 .. n : g[k - 1] \in S /\ g[k] = step[k][g[k - 1]]
  <2> HIDE DEF step, S
  <2>1. g \in [0 .. n -> S] /\ g[0] = <<>> /\ \A k \in 1 .. n : g[k] = step[k][g[k - 1]]
    BY <1>3 DEF Unfolds
  <2>2. \A k \in 1 .. n : k - 1 \in 0 .. n  BY <1>1
  <2> QED  BY <2>1, <2>2
<1>5. \A k \in 1 .. n : g[k] = Behind(g[k - 1], T[k])  BY <1>4
<1>6. g = def(g)
  <2>1. \A k \in 0 .. n : g[k] = def(g)[k]  BY <1>1, <1>4, <1>5
  <2>2. g = [k \in 0 .. n |-> g[k]] /\ def(g) = [k \in 0 .. n |-> def(g)[k]]  BY <1>4
  <2> QED  BY <2>1, <2>2
<1>7. written = def(written)  BY <1>6
<1>8. Written(T) = written  BY DEF Written
<1> HIDE DEF written
<1>9. /\ written[0] = <<>>
      /\ \A k \in 1 .. n : written[k] = Behind(written[k - 1], T[k])
      /\ written = [k \in 0 .. n |-> written[k]]
  BY <1>1, <1>7
<1>10. \A k \in 0 .. n : written[k] = g[k]
  <2>1. PICK D : D = {k \in 0 .. n : written[k] = g[k]}  OBVIOUS
  <2>2. 0 \in D  BY <2>1, <1>1, <1>4, <1>9
  <2>3. ASSUME NEW k \in 1 .. n, k - 1 \in D PROVE k \in D
    <3>1. k \in 0 .. n  BY <1>1
    <3>2. PICK x : x = g[k - 1]  OBVIOUS
    <3>3. written[k - 1] = x  BY <2>1, <2>3, <3>2
    <3>4. written[k] = g[k]  BY <1>5, <1>9, <3>2, <3>3
    <3> QED  BY <2>1, <3>1, <3>4
  <2>4. 0 .. n \subseteq D  BY <1>1, <2>2, <2>3, UpTo
  <2> QED  BY <2>1, <2>4
<1>11. written \in [0 .. n -> S]  BY <1>4, <1>9, <1>10
<1> QED  BY <1>8, <1>9, <1>11

(* The maps of names to urls.                                              *)
Books == UNION {[S -> Urls] : S \in SUBSET Range(Names)}

(* What a map is.                                                          *)
LEMMA BookIs ==
  ASSUME NEW m \in Books
  PROVE  DOMAIN m \subseteq Range(Names) /\ \A n \in DOMAIN m : m[n] \in Urls
BY DEF Books

(* Names, urls and the end of a line are texts.                            *)
LEMMA TextsAre ==
  /\ \A t \in Range(Names) \cup Urls :
       /\ t \in Seq(Chars) /\ t # <<>>
       /\ \A j \in 1 .. Len(t) : t[j] # NewLine
  /\ <<NewLine>> \in Seq(Chars)
<1>1. ToSet(Names) = Range(Names)  BY DEF ToSet, Range
<1>2. ASSUME NEW t \in Range(Names) \cup Urls
      PROVE  /\ t \in Seq(Chars) /\ t # <<>>
             /\ \A j \in 1 .. Len(t) : t[j] # NewLine
  <2>1. t \in Seq(Range(t)) /\ t # <<>> /\ NewLine \notin Range(t)
    BY TextsAssumption
  <2>2. Range(t) \subseteq Chars  BY <1>1 DEF Chars
  <2>3. t \in Seq(Chars)  BY <2>1, <2>2, SeqMonotonic
  <2>4. DOMAIN t = 1 .. Len(t)  BY <2>1, LenProperties
  <2> QED  BY <2>1, <2>3, <2>4 DEF Range
<1>3. NewLine \in Chars
  <2>1. Range(<<NewLine>>) \subseteq Chars  BY DEF Chars
  <2>2. <<NewLine>>[1] = NewLine /\ 1 \in DOMAIN <<NewLine>>  OBVIOUS
  <2> QED  BY <2>1, <2>2 DEF Range
<1>4. <<NewLine>> \in Seq(Chars)  BY <1>3
<1> QED  BY <1>2, <1>4

(* t begins with s.                                                        *)
Begins(s, t) == Len(s) <= Len(t) /\ \A j \in 1 .. Len(s) : t[j] = s[j]

(* From the position behind l on it is t.                                  *)
Ends(u, l, t) == \A j \in 1 .. Len(t) : u[l + j] = t[j]

LEMMA BehindIs ==
  ASSUME NEW C, NEW s \in Seq(C), NEW t \in Seq(C)
  PROVE  /\ Behind(s, t) \in Seq(C) /\ Len(Behind(s, t)) = Len(s) + Len(t)
         /\ Begins(s, Behind(s, t)) /\ Ends(Behind(s, t), Len(s), t)
<1>1. PICK u : u = Behind(s, t)  OBVIOUS
<1>2. PICK a, b : a = Len(s) /\ b = Len(t)  OBVIOUS
<1>3. a \in Nat /\ b \in Nat  BY <1>2, LenProperties
<1>4. /\ u \in Seq(C) /\ Len(u) = a + b
      /\ \A i \in 1 .. a + b : u[i] = IF i <= a THEN s[i] ELSE t[i - a]
  BY <1>1, <1>2, ConcatProperties DEF Behind
<1>5. a <= a + b /\ \A j \in 1 .. a : u[j] = s[j]
  <2>1. \A j \in 1 .. a : j \in 1 .. a + b /\ j <= a  BY <1>3
  <2> QED  BY <1>3, <1>4, <2>1
<1>6. \A j \in 1 .. b : u[a + j] = t[j]
  <2> SUFFICES ASSUME NEW j \in 1 .. b PROVE u[a + j] = t[j]  OBVIOUS
  <2>1. PICK i : i = a + j  OBVIOUS
  <2>2. i \in 1 .. a + b /\ ~ (i <= a) /\ i - a = j  BY <1>3, <2>1
  <2>3. u[i] = t[i - a]  BY <1>4, <2>2
  <2> QED  BY <2>1, <2>2, <2>3
<1> QED  BY <1>1, <1>2, <1>4, <1>5, <1>6 DEF Begins, Ends

(* Putting behind is associative.                                          *)
LEMMA BehindBehind ==
  ASSUME NEW C, NEW x \in Seq(C), NEW y \in Seq(C), NEW w \in Seq(C)
  PROVE  Behind(Behind(x, y), w) = Behind(x, Behind(y, w))
<1>1. (x \o y) \o w = x \o (y \o w)  BY ConcatAssociative, SMT
<1> QED  BY <1>1 DEF Behind

(* Where texts are put one behind the other the last begins with each.     *)
LEMMA Grows ==
  ASSUME NEW C, NEW n \in Nat, NEW h \in [0 .. n -> Seq(C)],
         \A i \in 1 .. n : \E t \in Seq(C) : h[i] = Behind(h[i - 1], t)
  PROVE  \A i \in 0 .. n : Begins(h[i], h[n])
<1>1. PICK D : D = {d \in 0 .. n : Begins(h[n - d], h[n])}  OBVIOUS
<1>2. 0 \in D
  <2>1. n - 0 = n /\ h[n] \in Seq(C)  OBVIOUS
  <2>2. Len(h[n]) \in Nat  BY <2>1, LenProperties
  <2>3. Begins(h[n], h[n])  BY <2>2 DEF Begins
  <2> QED  BY <1>1, <2>1, <2>3
<1>3. ASSUME NEW d \in 1 .. n, d - 1 \in D
      PROVE  d \in D
  <2>1. PICK i : i = n - (d - 1)  OBVIOUS
  <2>2. i \in 1 .. n /\ i - 1 = n - d /\ i - 1 \in 0 .. n /\ d \in 0 .. n  BY <2>1
  <2>3. PICK t \in Seq(C) : h[i] = Behind(h[i - 1], t)  BY <2>2
  <2>4. PICK a, b, c : a = h[i - 1] /\ b = h[i] /\ c = h[n]  OBVIOUS
  <2>5. a \in Seq(C) /\ b \in Seq(C) /\ c \in Seq(C)  BY <2>2, <2>4
  <2>6. Begins(b, c)  BY <1>1, <1>3, <2>1, <2>4
  <2>7. Begins(a, b)
    <3>1. b = Behind(a, t)  BY <2>3, <2>4
    <3> QED  BY <2>5, <3>1, BehindIs
  <2>8. Begins(a, c)
    <3>1. Len(a) \in Nat /\ Len(b) \in Nat /\ Len(c) \in Nat  BY <2>5, LenProperties
    <3>2. PICK x, y, z : x = Len(a) /\ y = Len(b) /\ z = Len(c)  OBVIOUS
    <3>3. x <= y /\ y <= z  BY <2>6, <2>7, <3>2 DEF Begins
    <3>4. \A j \in 1 .. x : j \in 1 .. y  BY <3>1, <3>2, <3>3
    <3>5. \A j \in 1 .. x : c[j] = a[j]  BY <2>6, <2>7, <3>2, <3>4 DEF Begins
    <3>6. x <= z  BY <3>1, <3>2, <3>3
    <3> QED  BY <3>2, <3>5, <3>6 DEF Begins
  <2> QED  BY <1>1, <2>2, <2>4, <2>8
<1>4. 0 .. n \subseteq D  BY <1>2, <1>3, UpTo
<1>5. ASSUME NEW i \in 0 .. n
      PROVE  Begins(h[i], h[n])
  <2>1. n - i \in 0 .. n /\ n - (n - i) = i  OBVIOUS
  <2>2. n - i \in D  BY <1>4, <2>1
  <2> QED  BY <1>1, <2>1, <2>2
<1> QED  BY <1>5

(* The names listed so far are the map's among the first names.            *)
LEMMA ListingIs ==
  ASSUME NEW m, NEW q, Collected(q, m), NEW i \in 1 .. Len(Names)
  PROVE  /\ Names[i] \in DOMAIN m =>
              /\ Len(q[i]) = Len(q[i - 1]) + 1
              /\ q[i][Len(q[i])] = Names[i]
              /\ Begins(q[i - 1], q[i])
         /\ Names[i] \notin DOMAIN m => q[i] = q[i - 1]
         /\ \E t \in Seq(Range(Names)) : q[i] = Behind(q[i - 1], t)
<1>1. PICK S, a, b, x : S = Range(Names) /\ a = q[i - 1] /\ b = q[i] /\ x = Names[i]
  OBVIOUS
<1>2. a \in Seq(S) /\ x \in S /\ b = Listing(a, i, m)
  <2>1. i - 1 \in 0 .. Len(Names)  BY NamesList
  <2> QED  BY <1>1, <2>1, NamesList DEF Collected
<1>3. CASE x \in DOMAIN m
  <2>1. b = Append(a, x)  BY <1>1, <1>2, <1>3 DEF Listing
  <2>2. /\ Len(a) \in Nat /\ Len(b) = Len(a) + 1 /\ b[Len(a) + 1] = x
        /\ \A j \in 1 .. Len(a) : b[j] = a[j]
    BY <1>2, <2>1, AppendProperties, LenProperties
  <2>3. Begins(a, b)
    <3>1. Len(a) <= Len(b)  BY <2>2
    <3> QED  BY <2>2, <3>1 DEF Begins
  <2>4. <<x>> \in Seq(S) /\ b = Behind(a, <<x>>)
    BY <1>2, <2>1, AppendIsConcat DEF Behind
  <2> QED  BY <1>1, <1>3, <2>2, <2>3, <2>4
<1>4. CASE x \notin DOMAIN m
  <2>1. b = a  BY <1>1, <1>2, <1>4 DEF Listing
  <2>2. <<>> \in Seq(S) /\ a = Behind(a, <<>>)
    BY <1>2, EmptySeq, ConcatEmptySeq DEF Behind
  <2> QED  BY <1>1, <1>4, <2>1, <2>2
<1> QED  BY <1>3, <1>4

(* InOrder lists each name of the map once.                                *)
LEMMA InOrderLists ==
  ASSUME NEW m \in Books
  PROVE  /\ InOrder(m) \in Seq(DOMAIN m)
         /\ Len(InOrder(m)) = Cardinality(DOMAIN m)
<1>1. PICK q : Collected(q, m) /\ InOrder(m) = q[Len(Names)]  BY InOrderCollects
<1>2. PICK N : N = Len(Names)  OBVIOUS
<1>3. N \in Nat /\ q[0] = <<>>  BY <1>1, <1>2, NamesList DEF Collected
<1> DEFINE part(i) == {n \in DOMAIN m : \E j \in 1 .. i : Names[j] = n}
           good(i) == /\ q[i] \in Seq(DOMAIN m) /\ IsFiniteSet(part(i))
                      /\ Cardinality(part(i)) = Len(q[i])
<1>4. PICK D : D = {i \in 0 .. N : good(i)}  OBVIOUS
<1>5. 0 \in D
  <2>1. part(0) = {}  OBVIOUS
  <2>2. q[0] \in Seq(DOMAIN m) /\ Len(q[0]) = 0  BY <1>3, EmptySeq
  <2>3. IsFiniteSet(part(0)) /\ Cardinality(part(0)) = 0  BY <2>1, FS_EmptySet
  <2>4. good(0)  BY <2>2, <2>3
  <2>5. 0 \in 0 .. N  BY <1>3
  <2> HIDE DEF good
  <2> QED  BY <1>4, <2>4, <2>5
<1>6. ASSUME NEW i \in 1 .. N, i - 1 \in D
      PROVE  i \in D
  <2>1. good(i - 1)  BY <1>4, <1>6
  <2>2. PICK P, R, a, b, x : P = part(i - 1) /\ R = part(i) /\ a = q[i - 1] /\ b = q[i] /\ x = Names[i]
    OBVIOUS
  <2>3. a \in Seq(DOMAIN m) /\ IsFiniteSet(P) /\ Cardinality(P) = Len(a)  BY <2>1, <2>2
  <2>4. i \in 0 .. N /\ i \in 1 .. Len(Names)  BY <1>2, <1>3
  <2>5. \A j \in 1 .. i : j = i \/ j \in 1 .. i - 1  BY <1>3
  <2>6. \A j \in 1 .. i - 1 : j \in 1 .. i /\ j # i  BY <1>3
  <2>7. i \in 1 .. i  BY <1>3
  <2>8. CASE x \in DOMAIN m
    <3>1. b = Append(a, x)  BY <1>1, <2>2, <2>4, <2>8 DEF Collected, Listing
    <3>2. b \in Seq(DOMAIN m) /\ Len(b) = Len(a) + 1  BY <2>3, <2>8, <3>1, AppendProperties
    <3>3. R = P \cup {x}  BY <2>2, <2>5, <2>6, <2>7, <2>8
    <3>4. x \notin P
      <4>1. \A j \in 1 .. i - 1 : j \in DOMAIN Names /\ i \in DOMAIN Names /\ j # i
        BY <1>2, <1>3, NamesList
      <4> QED  BY <2>2, <4>1, NamesAssumption
    <3>5. IsFiniteSet(R) /\ Cardinality(R) = Cardinality(P) + 1
      BY <2>3, <3>3, <3>4, FS_AddElement
    <3>6. b \in Seq(DOMAIN m) /\ IsFiniteSet(R) /\ Cardinality(R) = Len(b)  BY <2>3, <3>2, <3>5
    <3> QED  BY <1>4, <2>2, <2>4, <3>6
  <2>9. CASE x \notin DOMAIN m
    <3>1. b = a  BY <1>1, <2>2, <2>4, <2>9 DEF Collected, Listing
    <3>2. R = P  BY <2>2, <2>5, <2>6, <2>9
    <3> QED  BY <1>4, <2>2, <2>3, <2>4, <3>1, <3>2
  <2> QED  BY <2>8, <2>9
<1>7. good(N)
  <2>1. 0 .. N \subseteq D  BY <1>3, <1>5, <1>6, UpTo
  <2>2. N \in 0 .. N  BY <1>3
  <2> QED  BY <1>4, <2>1, <2>2
<1>8. part(N) = DOMAIN m  BY <1>2, BookIs, NamesList
<1> QED  BY <1>1, <1>2, <1>7, <1>8

(* A name, its url, and the ends of their lines.                           *)
Entry(n, u) == Behind(Behind(Behind(n, <<NewLine>>), u), <<NewLine>>)

LEMMA EntryIs ==
  ASSUME NEW n \in Seq(Chars), NEW u \in Seq(Chars)
  PROVE  LET e == Entry(n, u)
             a == Len(n)
             b == Len(u)
         IN  /\ e \in Seq(Chars) /\ Len(e) = a + b + 2
             /\ \A j \in 1 .. a : e[j] = n[j]
             /\ e[a + 1] = NewLine
             /\ \A j \in 1 .. b : e[a + 1 + j] = u[j]
             /\ e[a + b + 2] = NewLine
<1>1. PICK z : z = <<NewLine>>  OBVIOUS
<1>2. z \in Seq(Chars) /\ Len(z) = 1 /\ z[1] = NewLine  BY <1>1, TextsAre
<1>3. PICK p, q, e : p = Behind(n, z) /\ q = Behind(p, u) /\ e = Behind(q, z)  OBVIOUS
<1>4. PICK a, b : a = Len(n) /\ b = Len(u)  OBVIOUS
<1>5. a \in Nat /\ b \in Nat  BY <1>4, LenProperties
<1>6. /\ p \in Seq(Chars) /\ Len(p) = a + 1
      /\ \A j \in 1 .. a : p[j] = n[j]
      /\ \A j \in 1 .. 1 : p[a + j] = z[j]
  <2>1. p \in Seq(Chars) /\ Len(p) = Len(n) + Len(z) /\ Begins(n, p) /\ Ends(p, Len(n), z)
    BY <1>2, <1>3, BehindIs
  <2> QED  BY <1>2, <1>4, <2>1 DEF Begins, Ends
<1>7. /\ q \in Seq(Chars) /\ Len(q) = a + 1 + b
      /\ \A j \in 1 .. a + 1 : q[j] = p[j]
      /\ \A j \in 1 .. b : q[a + 1 + j] = u[j]
  <2>1. q \in Seq(Chars) /\ Len(q) = Len(p) + Len(u) /\ Begins(p, q) /\ Ends(q, Len(p), u)
    BY <1>3, <1>6, BehindIs
  <2>2. PICK l : l = a + 1  OBVIOUS
  <2>3. Len(p) = l  BY <1>6, <2>2
  <2>4. Len(q) = l + b /\ (\A j \in 1 .. l : q[j] = p[j]) /\ \A j \in 1 .. b : q[l + j] = u[j]
    BY <1>4, <2>1, <2>3 DEF Begins, Ends
  <2> QED  BY <2>1, <2>2, <2>4
<1>8. /\ e \in Seq(Chars) /\ Len(e) = a + 1 + b + 1
      /\ \A j \in 1 .. a + 1 + b : e[j] = q[j]
      /\ \A j \in 1 .. 1 : e[a + 1 + b + j] = z[j]
  <2>1. e \in Seq(Chars) /\ Len(e) = Len(q) + Len(z) /\ Begins(q, e) /\ Ends(e, Len(q), z)
    BY <1>2, <1>3, <1>7, BehindIs
  <2>2. PICK l : l = a + 1 + b  OBVIOUS
  <2>3. Len(q) = l  BY <1>7, <2>2
  <2>4. Len(e) = l + 1 /\ (\A j \in 1 .. l : e[j] = q[j]) /\ \A j \in 1 .. 1 : e[l + j] = z[j]
    BY <1>2, <2>1, <2>3 DEF Begins, Ends
  <2> QED  BY <2>1, <2>2, <2>4
<1>9. \A j \in 1 .. a : e[j] = n[j]
  <2>1. \A j \in 1 .. a : j \in 1 .. a + 1 /\ j \in 1 .. a + 1 + b  BY <1>5
  <2> QED  BY <1>6, <1>7, <1>8, <2>1
<1>10. e[a + 1] = NewLine
  <2>1. a + 1 \in 1 .. a + 1 /\ a + 1 \in 1 .. a + 1 + b /\ 1 \in 1 .. 1  BY <1>5
  <2> QED  BY <1>2, <1>6, <1>7, <1>8, <2>1
<1>11. ASSUME NEW j \in 1 .. b
       PROVE  e[a + 1 + j] = u[j]
  <2>1. PICK i : i = a + 1 + j  OBVIOUS
  <2>2. i \in 1 .. a + 1 + b  BY <1>5, <2>1
  <2> QED  BY <1>7, <1>8, <2>1, <2>2
<1>12. e[a + b + 2] = NewLine
  <2>1. a + b + 2 = a + 1 + b + 1 /\ 1 \in 1 .. 1  BY <1>5
  <2> QED  BY <1>2, <1>8, <2>1
<1>13. Len(e) = a + b + 2  BY <1>5, <1>8
<1>14. e = Entry(n, u)  BY <1>1, <1>3 DEF Entry
<1> QED  BY <1>4, <1>8, <1>9, <1>10, <1>11, <1>12, <1>13, <1>14

(* DumpSubs writes four texts for each name.                               *)
Fours(T, q, m) ==
  \A k \in 1 .. Len(q) :
    /\ T[4 * k - 3] = q[k] /\ T[4 * k - 2] = <<NewLine>>
    /\ T[4 * k - 1] = m[q[k]] /\ T[4 * k] = <<NewLine>>

LEMMA TextsIs ==
  ASSUME NEW m \in Books
  PROVE  /\ Texts(m) \in Seq(Seq(Chars)) /\ Len(Texts(m)) = 4 * Len(InOrder(m))
         /\ Fours(Texts(m), InOrder(m), m)
<1>1. PICK q, c, z : q = InOrder(m) /\ c = Len(q) /\ z = <<NewLine>>  OBVIOUS
<1>2. c \in Nat /\ \A k \in 1 .. c : q[k] \in DOMAIN m
  <2>1. q \in Seq(DOMAIN m)  BY <1>1, InOrderLists
  <2> QED  BY <1>1, <2>1, LenProperties, ElementOfSeq
<1>3. \A k \in 1 .. c : q[k] \in Seq(Chars) /\ m[q[k]] \in Seq(Chars)
  BY <1>2, BookIs, TextsAre
<1>4. PICK T : T = [j \in 1 .. 4 * c |-> IF j % 4 = 1 THEN q[(j + 3) \div 4]
                                         ELSE IF j % 4 = 3 THEN m[q[(j + 3) \div 4]] ELSE z]
  OBVIOUS
<1>5. T = Texts(m)  BY <1>1, <1>4 DEF Texts
<1>6. ASSUME NEW j \in 1 .. 4 * c
      PROVE  T[j] \in Seq(Chars)
  <2>1. (j + 3) \div 4 \in 1 .. c  BY <1>2
  <2>2. z \in Seq(Chars)  BY <1>1, TextsAre
  <2>3. PICK k \in 1 .. c : k = (j + 3) \div 4  BY <2>1
  <2>4. T[j] = IF j % 4 = 1 THEN q[k] ELSE IF j % 4 = 3 THEN m[q[k]] ELSE z  BY <1>4, <2>3
  <2> QED  BY <1>3, <2>2, <2>3, <2>4
<1>7. T \in [1 .. 4 * c -> Seq(Chars)] /\ 4 * c \in Nat  BY <1>2, <1>4, <1>6
<1>8. T \in Seq(Seq(Chars)) /\ Len(T) = 4 * c
  <2>1. T \in Seq(Seq(Chars))  BY <1>7, SeqDef
  <2>2. DOMAIN T = 1 .. 4 * c /\ DOMAIN T = 1 .. Len(T) /\ Len(T) \in Nat  BY <1>7, <2>1, LenProperties
  <2> QED  BY <1>7, <2>1, <2>2
<1>9. ASSUME NEW k \in 1 .. c
      PROVE  /\ T[4 * k - 3] = q[k] /\ T[4 * k - 2] = z
             /\ T[4 * k - 1] = m[q[k]] /\ T[4 * k] = z
  <2>1. 4 * k - 3 \in 1 .. 4 * c /\ (4 * k - 3) % 4 = 1 /\ (4 * k - 3 + 3) \div 4 = k  BY <1>2
  <2>2. 4 * k - 2 \in 1 .. 4 * c /\ (4 * k - 2) % 4 = 2  BY <1>2
  <2>3. 4 * k - 1 \in 1 .. 4 * c /\ (4 * k - 1) % 4 = 3 /\ (4 * k - 1 + 3) \div 4 = k  BY <1>2
  <2>4. 4 * k \in 1 .. 4 * c /\ (4 * k) % 4 = 0  BY <1>2
  <2> QED  BY <1>4, <2>1, <2>2, <2>3, <2>4
<1>10. Fours(T, q, m)  BY <1>1, <1>9 DEF Fours
<1> QED  BY <1>1, <1>5, <1>8, <1>10

(* The file DumpSubs leaves when it starts with an empty one.              *)
File(m) == Written(Texts(m))[Len(Texts(m))]

(* It is the entries of the names that the map has, one behind the other.  *)
Laid(h, m) ==
  /\ h \in [0 .. Len(Names) -> Seq(Chars)]
  /\ h[0] = <<>>
  /\ \A i \in 1 .. Len(Names) :
       /\ Names[i] \in DOMAIN m => h[i] = Behind(h[i - 1], Entry(Names[i], m[Names[i]]))
       /\ Names[i] \notin DOMAIN m => h[i] = h[i - 1]

(* Four texts behind one another are an entry behind.                      *)
LEMMA FourBehind ==
  ASSUME NEW s \in Seq(Chars), NEW n \in Seq(Chars), NEW u \in Seq(Chars)
  PROVE  Behind(Behind(Behind(Behind(s, n), <<NewLine>>), u), <<NewLine>>) = Behind(s, Entry(n, u))
<1>1. PICK z \in Seq(Chars) : z = <<NewLine>>  BY TextsAre
<1>2. \A x, y \in Seq(Chars) : Behind(x, y) \in Seq(Chars)  BY BehindIs
<1>3. \A x, y, w \in Seq(Chars) : Behind(Behind(x, y), w) = Behind(x, Behind(y, w))
  BY BehindBehind
<1>4. Behind(n, z) \in Seq(Chars) /\ Behind(Behind(n, z), u) \in Seq(Chars)  BY <1>2
<1>5. Behind(Behind(s, n), z) = Behind(s, Behind(n, z))  BY <1>3
<1>6. Behind(Behind(s, Behind(n, z)), u) = Behind(s, Behind(Behind(n, z), u))  BY <1>3, <1>4
<1>7. Behind(Behind(s, Behind(Behind(n, z), u)), z) = Behind(s, Behind(Behind(Behind(n, z), u), z))
  BY <1>3, <1>4
<1> QED  BY <1>1, <1>5, <1>6, <1>7 DEF Entry

LEMMA Layout ==
  ASSUME NEW m \in Books
  PROVE  \E h : Laid(h, m) /\ File(m) = h[Len(Names)]
<1>1. PICK q : Collected(q, m) /\ InOrder(m) = q[Len(Names)]  BY InOrderCollects
<1>2. PICK N, C, T, W : N = Len(Names) /\ C = Range(Names) /\ T = Texts(m) /\ W = Written(T)
  OBVIOUS
<1>3. N \in Nat /\ q \in [0 .. N -> Seq(C)] /\ q[0] = <<>>
  BY <1>1, <1>2, NamesList DEF Collected
<1>4. \A i \in 0 .. N : Len(q[i]) \in Nat /\ q[i] \in Seq(C)  BY <1>3, LenProperties
<1>5. \A i \in 0 .. N : Begins(q[i], q[N])
  <2>1. \A i \in 1 .. N : \E t \in Seq(C) : q[i] = Behind(q[i - 1], t)  BY <1>1, <1>2, ListingIs
  <2> QED  BY <1>3, <2>1, Grows
<1>6. PICK c : c = Len(q[N])  OBVIOUS
<1>7. /\ c \in Nat /\ T \in Seq(Seq(Chars)) /\ Len(T) = 4 * c
      /\ \A k \in 1 .. c :
           /\ T[4 * k - 3] = q[N][k] /\ T[4 * k - 2] = <<NewLine>>
           /\ T[4 * k - 1] = m[q[N][k]] /\ T[4 * k] = <<NewLine>>
  <2>1. T \in Seq(Seq(Chars)) /\ Len(T) = 4 * c /\ Fours(T, q[N], m)  BY <1>1, <1>2, <1>6, TextsIs
  <2>2. c \in Nat  BY <1>3, <1>4, <1>6
  <2> QED  BY <1>6, <2>1, <2>2 DEF Fours
<1>8. /\ W \in [0 .. 4 * c -> Seq(Chars)] /\ W[0] = <<>>
      /\ \A k \in 1 .. 4 * c : W[k] = Behind(W[k - 1], T[k])
  <2>1. /\ W \in [0 .. Len(T) -> Seq(Chars)] /\ W[0] = <<>>
        /\ \A k \in 1 .. Len(T) : W[k] = Behind(W[k - 1], T[k])
    <3>1. T \in Seq(Seq(Chars))  BY <1>7
    <3> QED  BY <1>2, <3>1, WrittenIs
  <2>2. PICK l : l = Len(T)  OBVIOUS
  <2>3. l = 4 * c  BY <1>7, <2>2
  <2> QED  BY ONLY <2>1, <2>2, <2>3
<1>9. PICK h : h = [i \in 0 .. N |-> W[4 * Len(q[i])]]  OBVIOUS
<1>10. ASSUME NEW i \in 0 .. N
       PROVE  Len(q[i]) \in 0 .. c /\ 4 * Len(q[i]) \in 0 .. 4 * c
  <2>1. Len(q[i]) \in Nat /\ Len(q[i]) <= c  BY <1>4, <1>5, <1>6 DEF Begins
  <2> QED  BY <1>7, <2>1
<1>11. h \in [0 .. N -> Seq(Chars)]  BY <1>8, <1>9, <1>10
<1>12. h[0] = <<>>
  <2>1. 4 * Len(q[0]) = 0  BY <1>3, EmptySeq
  <2> QED  BY <1>3, <1>8, <1>9, <2>1
<1>13. ASSUME NEW i \in 1 .. N, Names[i] \in DOMAIN m
       PROVE  h[i] = Behind(h[i - 1], Entry(Names[i], m[Names[i]]))
  <2>1. PICK x, k, p, r : x = Names[i] /\ k = Len(q[i]) /\ p = q[i - 1] /\ r = q[i]  OBVIOUS
  <2>2. i \in 0 .. N /\ i - 1 \in 0 .. N  BY <1>3
  <2>3. k = Len(p) + 1 /\ r[k] = x  BY <1>1, <1>2, <1>13, <2>1, ListingIs
  <2>4. k \in 1 .. c /\ Len(p) \in Nat
    <3>1. k \in 0 .. c  BY <1>10, <2>1, <2>2
    <3>2. Len(p) \in Nat  BY <1>4, <2>1, <2>2
    <3> QED  BY <1>7, <2>3, <3>1, <3>2
  <2>5. q[N][k] = x
    <3>1. k \in 1 .. Len(r)  BY <2>1, <2>4
    <3> QED  BY <1>5, <2>1, <2>2, <2>3, <3>1 DEF Begins
  <2>6. /\ T[4 * k - 3] = x /\ T[4 * k - 2] = <<NewLine>>
        /\ T[4 * k - 1] = m[x] /\ T[4 * k] = <<NewLine>>
    BY <1>7, <2>4, <2>5
  <2>7. PICK b : b = 4 * k  OBVIOUS
  <2>8. /\ b - 3 \in 1 .. 4 * c /\ b - 2 \in 1 .. 4 * c /\ b - 1 \in 1 .. 4 * c /\ b \in 1 .. 4 * c
        /\ b - 3 - 1 = b - 4 /\ b - 2 - 1 = b - 3 /\ b - 1 - 1 = b - 2 /\ b - 4 = 4 * Len(p)
    <3>1. PICK l : l = Len(p)  OBVIOUS
    <3>2. c \in Nat /\ l \in Nat /\ k \in 1 .. c /\ k = l + 1  BY <1>7, <2>3, <2>4, <3>1
    <3> QED  BY ONLY <2>7, <3>1, <3>2
  <2>9. /\ W[b - 3] = Behind(W[b - 4], x) /\ W[b - 2] = Behind(W[b - 3], <<NewLine>>)
        /\ W[b - 1] = Behind(W[b - 2], m[x]) /\ W[b] = Behind(W[b - 1], <<NewLine>>)
    <3>1. \A j \in 1 .. 4 * c : W[j] = Behind(W[j - 1], T[j])  BY <1>8
    <3>2. /\ T[b - 3] = x /\ T[b - 2] = <<NewLine>> /\ T[b - 1] = m[x] /\ T[b] = <<NewLine>>
      BY <2>6, <2>7
    <3>3. W[b - 3] = Behind(W[b - 3 - 1], T[b - 3])  BY <2>8, <3>1
    <3>4. W[b - 2] = Behind(W[b - 2 - 1], T[b - 2])  BY <2>8, <3>1
    <3>5. W[b - 1] = Behind(W[b - 1 - 1], T[b - 1])  BY <2>8, <3>1
    <3>6. W[b] = Behind(W[b - 1], T[b])  BY <2>8, <3>1
    <3> QED  BY ONLY <2>8, <3>2, <3>3, <3>4, <3>5, <3>6
  <2>10. h[i] = W[b] /\ h[i - 1] = W[b - 4]  BY <1>9, <2>1, <2>2, <2>7, <2>8
  <2>11. PICK s : s = W[b - 4]  OBVIOUS
  <2>12. s \in Seq(Chars) /\ x \in Seq(Chars) /\ m[x] \in Seq(Chars)
    <3>1. s = h[i - 1]  BY <2>10, <2>11
    <3>2. s \in Seq(Chars)  BY <1>11, <2>2, <3>1
    <3> QED  BY <1>2, <1>13, <2>1, <3>2, BookIs, TextsAre
  <2>13. W[b] = Behind(s, Entry(x, m[x]))  BY <2>9, <2>11, <2>12, FourBehind
  <2> QED  BY <2>1, <2>10, <2>11, <2>13
<1>14. ASSUME NEW i \in 1 .. N, Names[i] \notin DOMAIN m
       PROVE  h[i] = h[i - 1]
  <2>1. q[i] = q[i - 1]  BY <1>1, <1>2, <1>14, ListingIs
  <2>2. i \in 0 .. N /\ i - 1 \in 0 .. N  BY <1>3
  <2> QED  BY <1>9, <2>1, <2>2
<1>15. File(m) = h[N]
  <2>1. N \in 0 .. N  BY <1>3
  <2>2. h[N] = W[4 * c]  BY <1>6, <1>9, <2>1
  <2> QED  BY <1>2, <1>7, <2>2 DEF File
<1>16. Laid(h, m)  BY <1>2, <1>11, <1>12, <1>13, <1>14 DEF Laid
<1> QED  BY <1>2, <1>15, <1>16

-----------------------------------------------------------------------------
(* What the constructor reads.                                             *)

(* A function defined by recursion over 1 .. l + 1, each value by a later  *)
(* one.                                                                    *)
Unwinds(g, l, S, f0, next, step) ==
  /\ g \in [1 .. l + 1 -> S] /\ g[l + 1] = f0
  /\ \A i \in 1 .. l : g[i] = step[i][g[next[i]]]

Later(next, l) == next \in [1 .. l -> Nat] /\ \A i \in 1 .. l : next[i] \in i + 1 .. l + 1

LEMMA BackwardExists ==
  ASSUME NEW l \in Nat, NEW S, NEW f0 \in S, NEW step \in Steps(l, S),
         NEW next, Later(next, l)
  PROVE  \E g : Unwinds(g, l, S, f0, next, step)
<1>0. step \in [1 .. l -> [S -> S]] /\ \A i \in 1 .. l : next[i] \in i + 1 .. l + 1
  BY DEF Steps, Later
<1> DEFINE Good(d) == \E g \in [l + 1 - d .. l + 1 -> S] :
             g[l + 1] = f0 /\ \A i \in l + 1 - d .. l : g[i] = step[i][g[next[i]]]
<1>1. PICK D : D = {d \in 0 .. l : Good(d)}  OBVIOUS
<1>2. 0 \in D
  <2>1. PICK g : g = [i \in l + 1 - 0 .. l + 1 |-> f0]  OBVIOUS
  <2>2. /\ g \in [l + 1 - 0 .. l + 1 -> S] /\ g[l + 1] = f0
        /\ \A i \in l + 1 - 0 .. l : g[i] = step[i][g[next[i]]]
    BY <2>1
  <2>3. Good(0)  BY <2>2
  <2> QED  BY <1>1, <2>3
<1>3. ASSUME NEW d \in 1 .. l, d - 1 \in D PROVE d \in D
  <2>1. PICK e : e = l + 1 - d  OBVIOUS
  <2>2. e \in 1 .. l /\ l + 1 - (d - 1) = e + 1  BY <2>1
  <2>3. PICK g \in [e + 1 .. l + 1 -> S] :
          g[l + 1] = f0 /\ \A i \in e + 1 .. l : g[i] = step[i][g[next[i]]]
    BY <1>1, <1>3, <2>2
  <2>4. PICK v : v = step[e][g[next[e]]]  OBVIOUS
  <2>5. next[e] \in e + 1 .. l + 1 /\ v \in S
    <3>1. next[e] \in e + 1 .. l + 1  BY <1>0, <2>2
    <3>2. g[next[e]] \in S  BY <2>3, <3>1
    <3> QED  BY <1>0, <2>2, <2>4, <3>1, <3>2
  <2>6. PICK h : h = [i \in e .. l + 1 |-> IF i = e THEN v ELSE g[i]]  OBVIOUS
  <2>7. h \in [e .. l + 1 -> S]
    <3>1. \A i \in e .. l + 1 : i = e \/ i \in e + 1 .. l + 1  BY <2>2
    <3> QED  BY <2>3, <2>5, <2>6, <3>1
  <2>8. h[l + 1] = f0  BY <2>2, <2>3, <2>6
  <2>9. ASSUME NEW i \in e .. l PROVE h[i] = step[i][h[next[i]]]
    <3>1. i \in 1 .. l /\ i \in e .. l + 1  BY <2>2
    <3>2. next[i] \in e .. l + 1 /\ next[i] # e
      <4>1. next[i] \in i + 1 .. l + 1  BY <1>0, <3>1
      <4> QED  BY <2>2, <4>1
    <3>3. h[next[i]] = g[next[i]]  BY <2>6, <3>2
    <3>4. CASE i = e  BY <2>4, <2>6, <3>1, <3>3, <3>4
    <3>5. CASE i # e
      <4>1. i \in e + 1 .. l  BY <2>2, <3>5
      <4> QED  BY <2>3, <2>6, <3>1, <3>3, <3>5, <4>1
    <3> QED  BY <3>4, <3>5
  <2>10. Good(d)  BY <2>1, <2>7, <2>8, <2>9
  <2> QED  BY <1>1, <2>10
<1>4. l \in D
  <2>1. 0 .. l \subseteq D  BY <1>2, <1>3, UpTo
  <2> QED  BY <2>1
<1>5. Good(l) /\ l + 1 - l = 1  BY <1>1, <1>4
<1>6. PICK g \in [1 .. l + 1 -> S] :
        g[l + 1] = f0 /\ \A i \in 1 .. l : g[i] = step[i][g[next[i]]]
  BY <1>5
<1> QED  BY <1>6 DEF Unwinds

(* Every position of a file is followed by the end of its line.            *)
LEMMA LineEnds ==
  ASSUME NEW C, NEW f \in Seq(C), NEW i \in 1 .. Len(f)
  PROVE  /\ LineEnd(f, i) \in i .. Len(f) + 1
         /\ LineAt(f, i) \in Seq(C)
         /\ NextLine(f, i) \in i + 1 .. Len(f) + 1
<1>1. PICK l : l = Len(f)  OBVIOUS
<1>2. l \in Nat /\ \A j \in 1 .. l : f[j] \in C  BY <1>1, LenProperties, ElementOfSeq
<1>3. PICK R : R = {j \in i .. l + 1 : j > l \/ f[j] = NewLine}  OBVIOUS
<1>4. R \in SUBSET Nat /\ l + 1 \in R  BY <1>1, <1>2, <1>3
<1>5. PICK j \in R : \A y \in R : j <= y
  <2>1. R # {}  BY <1>4
  <2> QED  BY ONLY <1>4, <2>1, LeastNumber
<1>6. /\ j \in i .. l + 1 /\ (j > l \/ f[j] = NewLine)
      /\ \A k \in i .. j - 1 : f[k] # NewLine
  <2>1. ASSUME NEW k \in i .. j - 1 PROVE f[k] # NewLine
    <3>1. k \in i .. l + 1 /\ ~ (j <= k)  BY <1>1, <1>2, <1>3, <1>5
    <3> QED  BY <1>3, <1>5, <3>1
  <2> QED  BY <1>3, <1>5, <2>1
<1>7. PICK e : e = LineEnd(f, i)  OBVIOUS
<1>8. e \in i .. l + 1
  <2>1. e = CHOOSE k \in i .. l + 1 : (k > l \/ f[k] = NewLine) /\ \A o \in i .. k - 1 : f[o] # NewLine
    BY <1>1, <1>7 DEF LineEnd
  <2> QED  BY <1>6, <2>1
<1>9. LineAt(f, i) \in Seq(C)
  <2>1. PICK b : b = e - 1  OBVIOUS
  <2>2. i \in Int /\ b \in Int /\ \A k \in i .. b : f[k] \in C  BY <1>1, <1>2, <1>8, <2>1
  <2>3. SubSeq(f, i, b) \in Seq(C)  BY ONLY <2>2, SubSeqProperties
  <2> QED  BY <1>7, <2>1, <2>3 DEF LineAt
<1>10. NextLine(f, i) = IF e > l THEN l + 1 ELSE e + 1  BY <1>1, <1>7 DEF NextLine
<1> QED  BY <1>1, <1>2, <1>7, <1>8, <1>9, <1>10

(* A text followed by the end of a line is a line.                         *)
LEMMA LineIs ==
  ASSUME NEW C, NEW f \in Seq(C), NEW p \in 1 .. Len(f), NEW t \in Seq(C), NEW e \in 1 .. Len(f),
         e = p + Len(t), f[e] = NewLine,
         \A j \in 1 .. Len(t) : f[p + j - 1] = t[j] /\ t[j] # NewLine
  PROVE  LineAt(f, p) = t /\ NextLine(f, p) = e + 1
<1>1. PICK l, n : l = Len(f) /\ n = Len(t)  OBVIOUS
<1>2. l \in Nat /\ n \in Nat  BY <1>1, LenProperties
<1>3. e \in p .. l + 1  BY <1>1, <1>2
<1>4. \A k \in p .. e - 1 : f[k] # NewLine
  <2> SUFFICES ASSUME NEW k \in p .. e - 1 PROVE f[k] # NewLine  OBVIOUS
  <2>1. PICK j : j = k - p + 1  OBVIOUS
  <2>2. j \in 1 .. n /\ p + j - 1 = k  BY <1>1, <1>2, <2>1
  <2>3. f[p + j - 1] = t[j] /\ t[j] # NewLine  BY <1>1, <2>2
  <2> QED  BY <2>2, <2>3
<1>5. ASSUME NEW j \in p .. l + 1, j > l \/ f[j] = NewLine, \A k \in p .. j - 1 : f[k] # NewLine
      PROVE  j = e
  <2>1. CASE j < e
    <3>1. j \in p .. e - 1 /\ ~ (j > l)  BY <1>1, <1>2, <2>1
    <3> QED  BY <1>4, <1>5, <3>1
  <2>2. CASE e < j
    <3>1. e \in p .. j - 1  BY <1>1, <1>2, <2>2
    <3> QED  BY <1>5, <3>1
  <2> QED  BY <1>1, <1>2, <2>1, <2>2
<1>6. LineEnd(f, p) = e
  <2>1. PICK x : x = LineEnd(f, p)  OBVIOUS
  <2>2. x = CHOOSE k \in p .. l + 1 : (k > l \/ f[k] = NewLine) /\ \A o \in p .. k - 1 : f[o] # NewLine
    BY <1>1, <2>1 DEF LineEnd
  <2>3. x \in p .. l + 1 /\ (x > l \/ f[x] = NewLine) /\ \A o \in p .. x - 1 : f[o] # NewLine
    BY <1>3, <1>4, <2>2
  <2> QED  BY <1>5, <2>1, <2>3
<1>7. LineAt(f, p) = t
  <2>1. PICK b, s : b = e - 1 /\ s = SubSeq(f, p, b)  OBVIOUS
  <2>2. \A j \in 1 .. l : f[j] \in C  BY <1>1, ElementOfSeq
  <2>3. p \in Int /\ b \in Int /\ \A k \in p .. b : f[k] \in C  BY <1>1, <1>2, <2>1, <2>2
  <2>4. /\ s \in Seq(C) /\ Len(s) = IF p <= b THEN b - p + 1 ELSE 0
        /\ \A j \in 1 .. b - p + 1 : s[j] = f[p + j - 1]
    BY ONLY <2>1, <2>3, SubSeqProperties
  <2>5. Len(s) = n /\ b - p + 1 = n  BY <1>1, <1>2, <2>1, <2>4
  <2>6. \A j \in 1 .. Len(s) : s[j] = t[j]  BY <1>1, <2>4, <2>5
  <2>7. s = t  BY ONLY <1>1, <2>4, <2>5, <2>6, SeqEqual
  <2> QED  BY <1>6, <2>1, <2>7 DEF LineAt
<1>8. NextLine(f, p) = e + 1  BY <1>1, <1>2, <1>6 DEF NextLine
<1> QED  BY <1>7, <1>8

(* A line before others.                                                   *)
Before(t, s) == <<t>> \o s

(* The lines from each position on.                                        *)
Split(f, g) ==
  /\ g[Len(f) + 1] = <<>>
  /\ \A i \in 1 .. Len(f) : g[i] = Before(LineAt(f, i), g[NextLine(f, i)])

LEMMA LinesSplit ==
  ASSUME NEW C, NEW f \in Seq(C)
  PROVE  \E g : Split(f, g) /\ Lines(f) = g[1]
<1> DEFINE l == Len(f)
           S == Seq(Seq(C))
           next == [i \in 1 .. l |-> NextLine(f, i)]
           step == [i \in 1 .. l |-> [s \in S |-> Before(LineAt(f, i), s)]]
           def(g) == [i \in 1 .. l + 1 |-> IF i > l THEN <<>>
                                           ELSE Before(LineAt(f, i), g[NextLine(f, i)])]
           lines == CHOOSE g : g = def(g)
<1>1. l \in Nat /\ <<>> \in S  BY LenProperties, EmptySeq
<1>2. \A i \in 1 .. l : LineAt(f, i) \in Seq(C) /\ NextLine(f, i) \in i + 1 .. l + 1
  BY LineEnds
<1>3. step \in Steps(l, S)
  <2>1. ASSUME NEW i \in 1 .. l, NEW s \in S
        PROVE  Before(LineAt(f, i), s) \in S
    <3>1. PICK t : t = LineAt(f, i)  OBVIOUS
    <3>2. t \in Seq(C)  BY <1>2, <3>1
    <3>3. <<t>> \in S  BY <3>2
    <3>4. <<t>> \o s \in S  BY <3>3, ConcatProperties
    <3> QED  BY <3>1, <3>4 DEF Before
  <2> QED  BY <2>1 DEF Steps
<1>4. Later(next, l)  BY <1>1, <1>2 DEF Later
<1>5. PICK g : Unwinds(g, l, S, <<>>, next, step)  BY <1>1, <1>3, <1>4, BackwardExists
<1>6. /\ g \in [1 .. l + 1 -> S] /\ g[l + 1] = <<>>
      /\ \A i \in 1 .. l : g[next[i]] \in S /\ g[i] = step[i][g[next[i]]]
  <2>1. \A i \in 1 .. l : next[i] \in 1 .. l + 1  BY <1>1, <1>2
  <2> HIDE DEF step, S, next
  <2>2. /\ g \in [1 .. l + 1 -> S] /\ g[l + 1] = <<>>
        /\ \A i \in 1 .. l : g[i] = step[i][g[next[i]]]
    BY <1>5 DEF Unwinds
  <2> QED  BY <2>1, <2>2
<1>7. \A i \in 1 .. l : g[i] = Before(LineAt(f, i), g[NextLine(f, i)])  BY <1>6
<1>8. g = def(g)
  <2>1. \A i \in 1 .. l + 1 : i > l \/ i \in 1 .. l  BY <1>1
  <2>2. \A i \in 1 .. l + 1 : i > l => i = l + 1  BY <1>1
  <2>3. \A i \in 1 .. l + 1 : g[i] = def(g)[i]  BY <1>1, <1>6, <1>7, <2>1, <2>2
  <2>4. g = [i \in 1 .. l + 1 |-> g[i]] /\ def(g) = [i \in 1 .. l + 1 |-> def(g)[i]]  BY <1>6
  <2> QED  BY <2>3, <2>4
<1>9. lines = def(lines)  BY <1>8
<1>10. Lines(f) = lines[1]  BY DEF Lines, Before
<1> HIDE DEF lines
<1>11. lines[l + 1] = <<>>  BY <1>1, <1>9
<1>12. \A i \in 1 .. l : lines[i] = Before(LineAt(f, i), lines[NextLine(f, i)])  BY <1>1, <1>9
<1>13. Split(f, lines)  BY <1>11, <1>12 DEF Split
<1> QED  BY <1>10, <1>13

(* The lines are those of a map's entries, and of all from the i-th name   *)
(* on.                                                                     *)
Spells(ls, m, i) ==
  /\ ls \in Seq(Seq(Chars))
  /\ \E c \in Nat :
       /\ Len(ls) = 2 * c
       /\ \A k \in 1 .. c : ls[2 * k - 1] \in DOMAIN m /\ ls[2 * k] = m[ls[2 * k - 1]]
       /\ \A j \in i .. Len(Names) :
            Names[j] \in DOMAIN m => \E k \in 1 .. c : ls[2 * k - 1] = Names[j]

(* A set of numbers up to a bound has a greatest one.                      *)
LEMMA GreatestNumber ==
  ASSUME NEW n \in Nat, NEW S \in SUBSET (1 .. n), S # {}
  PROVE  Max(S) \in S
<1>1. PICK R : R = {d \in 0 .. n : n - d \in S}  OBVIOUS
<1>2. R \in SUBSET Nat  BY <1>1
<1>3. R # {}
  <2>1. PICK x \in S : TRUE  OBVIOUS
  <2>2. n - x \in 0 .. n /\ n - (n - x) = x  OBVIOUS
  <2>3. n - x \in R  BY <1>1, <2>2
  <2> QED  BY <2>3
<1>4. PICK d \in R : \A y \in R : d <= y  BY ONLY <1>2, <1>3, LeastNumber
<1>5. n - d \in S  BY <1>1, <1>4
<1>6. ASSUME NEW y \in S PROVE n - d >= y
  <2>1. n - y \in 0 .. n /\ n - (n - y) = y  OBVIOUS
  <2>2. n - y \in R  BY <1>1, <2>1
  <2>3. d <= n - y /\ d \in 0 .. n  BY <1>1, <1>4, <2>2
  <2> QED  BY <2>3
<1> QED  BY <1>5, <1>6 DEF Max

(* From such lines the constructor makes the map.                          *)
LEMMA PairsIs ==
  ASSUME NEW m \in Books, NEW ls, Spells(ls, m, 1)
  PROVE  Pairs(ls) = m
<1>1. PICK c \in Nat :
        /\ Len(ls) = 2 * c
        /\ \A k \in 1 .. c : ls[2 * k - 1] \in DOMAIN m /\ ls[2 * k] = m[ls[2 * k - 1]]
        /\ \A j \in 1 .. Len(Names) :
             Names[j] \in DOMAIN m => \E k \in 1 .. c : ls[2 * k - 1] = Names[j]
  BY DEF Spells
<1>2. PICK at : at = {i \in 1 .. Len(ls) : i % 2 = 1 /\ \A j \in 1 .. i : j % 2 = 1 => ls[j] # <<>>}
  OBVIOUS
<1>3. \A i \in 1 .. 2 * c : i % 2 = 1 => \E k \in 1 .. c : i = 2 * k - 1
  <2> SUFFICES ASSUME NEW i \in 1 .. 2 * c, i % 2 = 1 PROVE \E k \in 1 .. c : i = 2 * k - 1
    OBVIOUS
  <2>1. PICK k : k = (i + 1) \div 2  OBVIOUS
  <2>2. k \in 1 .. c /\ i = 2 * k - 1  BY <2>1
  <2> QED  BY <2>2
<1>4. \A k \in 1 .. c : 2 * k - 1 \in 1 .. 2 * c /\ (2 * k - 1) % 2 = 1 /\ 2 * k - 1 < 2 * c
                        /\ 2 * k - 1 + 1 = 2 * k
  OBVIOUS
<1>5. \A i \in 1 .. 2 * c : i % 2 = 1 => ls[i] \in DOMAIN m /\ ls[i] # <<>>
  <2>1. \A n \in DOMAIN m : n # <<>>  BY BookIs, TextsAre
  <2> QED  BY <1>1, <1>3, <2>1
<1>6. at = {i \in 1 .. 2 * c : i % 2 = 1}
  <2>1. ASSUME NEW i \in 1 .. 2 * c, i % 2 = 1 PROVE i \in at
    <3>1. \A j \in 1 .. i : j \in 1 .. 2 * c  OBVIOUS
    <3> QED  BY <1>1, <1>2, <1>5, <2>1, <3>1
  <2> QED  BY <1>1, <1>2, <2>1
<1>7. {ls[i] : i \in at} = DOMAIN m
  <2>1. ASSUME NEW n \in DOMAIN m PROVE \E i \in at : ls[i] = n
    <3>1. PICK j \in 1 .. Len(Names) : Names[j] = n  BY BookIs, NamesList
    <3>2. PICK k \in 1 .. c : ls[2 * k - 1] = n  BY <1>1, <3>1
    <3> QED  BY <1>4, <1>6, <3>2
  <2>2. \A i \in at : ls[i] \in DOMAIN m  BY <1>5, <1>6
  <2>3. PICK V : V = {ls[i] : i \in at}  OBVIOUS
  <2>4. \A n : n \in V <=> \E i \in at : n = ls[i]  BY ONLY <2>3
  <2>5. V = DOMAIN m  BY ONLY <2>1, <2>2, <2>4
  <2> QED  BY <2>3, <2>5
<1>8. PICK u : u = [n \in {ls[i] : i \in at} |->
                      LET i == Max({j \in at : ls[j] = n})
                      IN  IF i < Len(ls) THEN ls[i + 1] ELSE <<>>]
  OBVIOUS
<1>9. Pairs(ls) = u  BY <1>2, <1>8 DEF Pairs
<1>10. ASSUME NEW n \in DOMAIN m
       PROVE  u[n] = m[n]
  <2>1. PICK R : R = {j \in at : ls[j] = n}  OBVIOUS
  <2>2. PICK i : i = Max(R)  OBVIOUS
  <2>3. i \in R
    <3>1. R # {}  BY <1>7, <2>1
    <3>2. R \in SUBSET (1 .. 2 * c) /\ 2 * c \in Nat  BY <1>6, <2>1
    <3>3. PICK b : b = 2 * c  OBVIOUS
    <3>4. Max(R) \in R  BY ONLY <3>1, <3>2, <3>3, GreatestNumber
    <3> QED  BY <2>2, <3>4
  <2>4. i \in 1 .. 2 * c /\ i % 2 = 1 /\ ls[i] = n  BY <1>6, <2>1, <2>3
  <2>5. PICK k \in 1 .. c : i = 2 * k - 1  BY <1>3, <2>4
  <2>6. i + 1 = 2 * k /\ i < 2 * c  BY <1>4, <2>5
  <2>7. ls[i + 1] = m[n]  BY <1>1, <2>4, <2>5, <2>6
  <2>8. u[n] = IF i < Len(ls) THEN ls[i + 1] ELSE <<>>  BY <1>7, <1>8, <2>1, <2>2
  <2> QED  BY <1>1, <2>6, <2>7, <2>8
<1>11. DOMAIN u = DOMAIN m /\ u = [n \in DOMAIN m |-> u[n]]  BY <1>7, <1>8
<1>12. m = [n \in DOMAIN m |-> m[n]]  BY DEF Books
<1>13. u = m  BY <1>10, <1>11, <1>12
<1> QED  BY <1>9, <1>13

(* One more entry before.                                                  *)
LEMMA SpellsMore ==
  ASSUME NEW m \in Books, NEW i \in 1 .. Len(Names), Names[i] \in DOMAIN m,
         NEW ls, Spells(ls, m, i + 1)
  PROVE  Spells(Before(Names[i], Before(m[Names[i]], ls)), m, i)
<1>1. PICK n, u : n = Names[i] /\ u = m[n]  OBVIOUS
<1>2. n \in DOMAIN m /\ n \in Seq(Chars) /\ u \in Seq(Chars)
  BY <1>1, BookIs, TextsAre
<1>3. PICK S : S = Seq(Chars)  OBVIOUS
<1>4. PICK c \in Nat :
        /\ Len(ls) = 2 * c
        /\ \A k \in 1 .. c : ls[2 * k - 1] \in DOMAIN m /\ ls[2 * k] = m[ls[2 * k - 1]]
        /\ \A j \in i + 1 .. Len(Names) :
             Names[j] \in DOMAIN m => \E k \in 1 .. c : ls[2 * k - 1] = Names[j]
  BY DEF Spells
<1>5. ls \in Seq(S)  BY <1>3 DEF Spells
<1>6. ASSUME NEW t \in S, NEW s \in Seq(S)
      PROVE  /\ Before(t, s) \in Seq(S) /\ Len(Before(t, s)) = Len(s) + 1
             /\ Before(t, s)[1] = t
             /\ \A j \in 1 .. Len(s) : Before(t, s)[j + 1] = s[j]
  <2>1. PICK y, b, l : y = <<t>> /\ b = y \o s /\ l = Len(s)  OBVIOUS
  <2>2. y \in Seq(S) /\ Len(y) = 1 /\ y[1] = t  BY <2>1
  <2>3. /\ b \in Seq(S) /\ Len(b) = Len(y) + Len(s)
        /\ \A j \in 1 .. Len(y) + Len(s) : b[j] = IF j <= Len(y) THEN y[j] ELSE s[j - Len(y)]
    BY <2>1, <2>2, ConcatProperties
  <2>4. l \in Nat  BY <2>1, LenProperties
  <2>5. Len(b) = l + 1 /\ \A j \in 1 .. 1 + l : b[j] = IF j <= 1 THEN y[j] ELSE s[j - 1]
    BY <2>1, <2>2, <2>3, <2>4
  <2>6. b[1] = t  BY <2>2, <2>4, <2>5
  <2>7. ASSUME NEW j \in 1 .. l PROVE b[j + 1] = s[j]
    <3>1. PICK o : o = j + 1  OBVIOUS
    <3>2. o \in 1 .. 1 + l /\ ~ (o <= 1) /\ o - 1 = j  BY <2>4, <3>1
    <3>3. b[o] = s[o - 1]  BY <2>5, <3>2
    <3> QED  BY <3>1, <3>2, <3>3
  <2>8. b = Before(t, s)  BY <2>1 DEF Before
  <2> QED  BY <2>1, <2>3, <2>5, <2>6, <2>7, <2>8
<1>7. PICK v, w : v = Before(u, ls) /\ w = Before(n, v)  OBVIOUS
<1>8. v \in Seq(S) /\ Len(v) = 2 * c + 1 /\ v[1] = u /\ \A j \in 1 .. 2 * c : v[j + 1] = ls[j]
  <2>1. u \in S  BY <1>2, <1>3
  <2>2. PICK l : l = Len(ls)  OBVIOUS
  <2>3. v \in Seq(S) /\ Len(v) = l + 1 /\ v[1] = u /\ \A j \in 1 .. l : v[j + 1] = ls[j]
    <3>1. /\ Before(u, ls) \in Seq(S) /\ Len(Before(u, ls)) = Len(ls) + 1
          /\ Before(u, ls)[1] = u
          /\ \A j \in 1 .. Len(ls) : Before(u, ls)[j + 1] = ls[j]
      BY ONLY <1>5, <1>6, <2>1, Zenon
    <3> QED  BY ONLY <1>7, <2>2, <3>1
  <2> QED  BY <1>4, <2>2, <2>3
<1>9. w \in Seq(S) /\ Len(w) = 2 * c + 1 + 1 /\ w[1] = n
      /\ \A j \in 1 .. 2 * c + 1 : w[j + 1] = v[j]
  <2>1. n \in S  BY <1>2, <1>3
  <2>2. PICK l : l = Len(v)  OBVIOUS
  <2>3. w \in Seq(S) /\ Len(w) = l + 1 /\ w[1] = n /\ \A j \in 1 .. l : w[j + 1] = v[j]
    <3>1. /\ Before(n, v) \in Seq(S) /\ Len(Before(n, v)) = Len(v) + 1
          /\ Before(n, v)[1] = n
          /\ \A j \in 1 .. Len(v) : Before(n, v)[j + 1] = v[j]
      BY ONLY <1>6, <1>8, <2>1, Zenon
    <3> QED  BY ONLY <1>7, <2>2, <3>1
  <2> QED  BY <1>8, <2>2, <2>3
<1>10. w[2] = u
  <2>1. 1 \in 1 .. 2 * c + 1 /\ 1 + 1 = 2  OBVIOUS
  <2> QED  BY <1>8, <1>9, <2>1
<1>11. ASSUME NEW j \in 1 .. 2 * c PROVE w[j + 2] = ls[j]
  <2>1. j + 1 \in 1 .. 2 * c + 1 /\ j + 1 + 1 = j + 2  OBVIOUS
  <2>2. w[j + 1 + 1] = v[j + 1] /\ v[j + 1] = ls[j]  BY <1>8, <1>9, <2>1
  <2> QED  BY <2>1, <2>2
<1>12. PICK d : d = c + 1  OBVIOUS
<1>13. ASSUME NEW k \in 2 .. d
       PROVE  k - 1 \in 1 .. c /\ w[2 * k - 1] = ls[2 * (k - 1) - 1] /\ w[2 * k] = ls[2 * (k - 1)]
  <2>1. PICK o : o = k - 1  OBVIOUS
  <2>2. /\ o \in 1 .. c /\ 2 * o - 1 \in 1 .. 2 * c /\ 2 * o \in 1 .. 2 * c
        /\ 2 * k - 1 = 2 * o - 1 + 2 /\ 2 * k = 2 * o + 2
    BY <1>12, <2>1
  <2>3. w[2 * o - 1 + 2] = ls[2 * o - 1] /\ w[2 * o + 2] = ls[2 * o]  BY <1>11, <2>2
  <2> QED  BY <2>1, <2>2, <2>3
<1>14. \A k \in 1 .. d : w[2 * k - 1] \in DOMAIN m /\ w[2 * k] = m[w[2 * k - 1]]
  <2> SUFFICES ASSUME NEW k \in 1 .. d
               PROVE  w[2 * k - 1] \in DOMAIN m /\ w[2 * k] = m[w[2 * k - 1]]
    OBVIOUS
  <2>1. CASE k = 1
    <3>1. 2 * k - 1 = 1 /\ 2 * k = 2  BY <2>1
    <3> QED  BY <1>1, <1>2, <1>9, <1>10, <3>1
  <2>2. CASE k # 1
    <3>1. k \in 2 .. d  BY <2>2
    <3> QED  BY <1>4, <1>13, <3>1
  <2> QED  BY <2>1, <2>2
<1>15. ASSUME NEW j \in i .. Len(Names), Names[j] \in DOMAIN m
       PROVE  \E k \in 1 .. d : w[2 * k - 1] = Names[j]
  <2>1. CASE j = i
    <3>1. 1 \in 1 .. d /\ 2 * 1 - 1 = 1  BY <1>12
    <3> QED  BY <1>1, <1>9, <2>1, <3>1
  <2>2. CASE j # i
    <3>1. j \in i + 1 .. Len(Names)  BY <2>2, NamesList
    <3>2. PICK o \in 1 .. c : ls[2 * o - 1] = Names[j]  BY <1>4, <1>15, <3>1
    <3>3. PICK k : k = o + 1  OBVIOUS
    <3>4. k \in 2 .. d /\ k \in 1 .. d /\ k - 1 = o  BY <1>12, <3>3
    <3>5. w[2 * k - 1] = ls[2 * (k - 1) - 1]  BY <1>13, <3>4
    <3> QED  BY <3>2, <3>4, <3>5
  <2> QED  BY <2>1, <2>2
<1>16. d \in Nat /\ Len(w) = 2 * d  BY <1>9, <1>12
<1>17. w \in Seq(Seq(Chars))  BY <1>3, <1>9
<1>18. Spells(w, m, i)  BY <1>14, <1>15, <1>16, <1>17 DEF Spells
<1> QED  BY <1>1, <1>7, <1>18

(* An entry in a file is split into two lines.                             *)
LEMMA EntryLines ==
  ASSUME NEW f \in Seq(Chars), NEW g, Split(f, g), NEW s \in Seq(Chars),
         NEW n \in Range(Names) \cup Urls, NEW u \in Range(Names) \cup Urls,
         NEW t \in Seq(Chars), t = Behind(s, Entry(n, u)), Begins(t, f)
  PROVE  g[Len(s) + 1] = Before(n, Before(u, g[Len(t) + 1]))
<1>1. /\ n \in Seq(Chars) /\ (\A j \in 1 .. Len(n) : n[j] # NewLine)
      /\ u \in Seq(Chars) /\ (\A j \in 1 .. Len(u) : u[j] # NewLine)
  BY TextsAre
<1>2. PICK e, a, b, c, l : e = Entry(n, u) /\ a = Len(n) /\ b = Len(u) /\ c = Len(s) /\ l = Len(f)
  OBVIOUS
<1>3. a \in Nat /\ b \in Nat /\ c \in Nat /\ l \in Nat  BY <1>1, <1>2, LenProperties
<1>4. /\ e \in Seq(Chars) /\ Len(e) = a + b + 2
      /\ \A j \in 1 .. a : e[j] = n[j]
      /\ e[a + 1] = NewLine
      /\ \A j \in 1 .. b : e[a + 1 + j] = u[j]
      /\ e[a + b + 2] = NewLine
  <2>1. /\ Entry(n, u) \in Seq(Chars) /\ Len(Entry(n, u)) = Len(n) + Len(u) + 2
        /\ \A j \in 1 .. Len(n) : Entry(n, u)[j] = n[j]
        /\ Entry(n, u)[Len(n) + 1] = NewLine
        /\ \A j \in 1 .. Len(u) : Entry(n, u)[Len(n) + 1 + j] = u[j]
        /\ Entry(n, u)[Len(n) + Len(u) + 2] = NewLine
    BY ONLY <1>1, EntryIs
  <2> QED  BY <1>2, <2>1
<1>5. PICK k : k = a + b + 2  OBVIOUS
<1>6. Len(t) = c + k /\ \A j \in 1 .. k : t[c + j] = e[j]
  <2>1. Len(t) = Len(s) + Len(e) /\ Ends(t, Len(s), e)  BY <1>2, <1>4, BehindIs
  <2> QED  BY <1>2, <1>4, <1>5, <2>1 DEF Ends
<1>7. c + k <= l /\ \A j \in 1 .. c + k : f[j] = t[j]
  BY <1>2, <1>6 DEF Begins
<1>8. ASSUME NEW j \in 1 .. k PROVE f[c + j] = e[j]
  <2>1. PICK i : i = c + j  OBVIOUS
  <2>2. i \in 1 .. c + k  BY <1>3, <1>5, <2>1
  <2> QED  BY <1>6, <1>7, <2>1, <2>2
<1>9. PICK p, q, r : p = c + 1 /\ q = c + a + 2 /\ r = c + k + 1  OBVIOUS
<1>10. LineAt(f, p) = n /\ NextLine(f, p) = q
  <2>1. PICK x : x = p + a  OBVIOUS
  <2>2. p \in 1 .. l /\ x \in 1 .. l /\ x = c + (a + 1) /\ a + 1 \in 1 .. k /\ x + 1 = q
    BY <1>3, <1>5, <1>7, <1>9, <2>1
  <2>3. f[x] = NewLine  BY <1>4, <1>8, <2>2
  <2>4. ASSUME NEW j \in 1 .. a PROVE f[p + j - 1] = n[j] /\ n[j] # NewLine
    <3>1. p + j - 1 = c + j /\ j \in 1 .. k  BY <1>3, <1>5, <1>9
    <3> QED  BY <1>1, <1>2, <1>4, <1>8, <3>1
  <2>5. LineAt(f, p) = n /\ NextLine(f, p) = x + 1
    BY ONLY <1>1, <1>2, <2>1, <2>2, <2>3, <2>4, LineIs
  <2> QED  BY <2>2, <2>5
<1>11. LineAt(f, q) = u /\ NextLine(f, q) = r
  <2>1. PICK x : x = q + b  OBVIOUS
  <2>2. q \in 1 .. l /\ x \in 1 .. l /\ x = c + (a + b + 2) /\ a + b + 2 \in 1 .. k /\ x + 1 = r
    <3>1. c + k <= l  BY <1>7
    <3>2. q \in Nat /\ x \in Nat /\ k \in Nat  BY ONLY <1>3, <1>5, <1>9, <2>1
    <3>3. x = c + (a + b + 2) /\ x + 1 = r /\ q <= x  BY ONLY <1>3, <1>5, <1>9, <2>1
    <3>4. x <= l /\ q >= 1 /\ a + b + 2 \in 1 .. k  BY ONLY <1>3, <1>5, <1>9, <2>1, <3>1
    <3> QED  BY ONLY <1>3, <3>2, <3>3, <3>4
  <2>3. f[x] = NewLine  BY <1>4, <1>8, <2>2
  <2>4. ASSUME NEW j \in 1 .. b PROVE f[q + j - 1] = u[j] /\ u[j] # NewLine
    <3>1. q + j - 1 = c + (a + 1 + j) /\ a + 1 + j \in 1 .. k  BY <1>3, <1>5, <1>9
    <3> QED  BY <1>1, <1>2, <1>4, <1>8, <3>1
  <2>5. LineAt(f, q) = u /\ NextLine(f, q) = x + 1
    BY ONLY <1>1, <1>2, <2>1, <2>2, <2>3, <2>4, LineIs
  <2> QED  BY <2>2, <2>5
<1>12. p \in 1 .. l /\ q \in 1 .. l  BY <1>3, <1>5, <1>7, <1>9
<1>13. g[p] = Before(n, g[q]) /\ g[q] = Before(u, g[r])
  <2>1. \A i \in 1 .. l : g[i] = Before(LineAt(f, i), g[NextLine(f, i)])  BY <1>2 DEF Split
  <2>2. g[p] = Before(LineAt(f, p), g[NextLine(f, p)])  BY <1>12, <2>1
  <2>3. g[q] = Before(LineAt(f, q), g[NextLine(f, q)])  BY <1>12, <2>1
  <2> QED  BY <1>10, <1>11, <2>2, <2>3
<1>14. r = Len(t) + 1  BY <1>6, <1>9
<1> QED  BY <1>2, <1>9, <1>13, <1>14

(* What Laid says of one step.                                             *)
LEMMA LaidGrows ==
  ASSUME NEW m \in Books, NEW h, Laid(h, m)
  PROVE  \A i \in 1 .. Len(Names) : \E t \in Seq(Chars) : h[i] = Behind(h[i - 1], t)
<1> SUFFICES ASSUME NEW i \in 1 .. Len(Names)
             PROVE  \E t \in Seq(Chars) : h[i] = Behind(h[i - 1], t)
  OBVIOUS
<1>1. PICK s, n : s = h[i - 1] /\ n = Names[i]  OBVIOUS
<1>2. s \in Seq(Chars)
  <2>1. i - 1 \in 0 .. Len(Names)  BY NamesList
  <2> QED  BY <1>1, <2>1 DEF Laid
<1>3. CASE n \in DOMAIN m
  <2>1. n \in Seq(Chars) /\ m[n] \in Seq(Chars)  BY <1>3, BookIs, TextsAre
  <2>2. Entry(n, m[n]) \in Seq(Chars)  BY <2>1, EntryIs
  <2>3. h[i] = Behind(s, Entry(n, m[n]))  BY <1>1, <1>3 DEF Laid
  <2> QED  BY <1>1, <2>2, <2>3
<1>4. CASE n \notin DOMAIN m
  <2>1. h[i] = s  BY <1>1, <1>4 DEF Laid
  <2>2. <<>> \in Seq(Chars) /\ s = Behind(s, <<>>)  BY <1>2, EmptySeq, ConcatEmptySeq DEF Behind
  <2> QED  BY <1>1, <2>1, <2>2
<1> QED  BY <1>3, <1>4

(* What DumpSubs writes into an empty file the constructor reads.          *)
LEMMA RoundTrip ==
  ASSUME NEW m \in Books
  PROVE  Entries(File(m)) = m
<1>1. PICK h : Laid(h, m) /\ File(m) = h[Len(Names)]  BY Layout
<1>2. PICK N, f : N = Len(Names) /\ f = h[N]  OBVIOUS
<1>3. N \in Nat /\ h \in [0 .. N -> Seq(Chars)] /\ h[0] = <<>>  BY <1>1, <1>2, NamesList DEF Laid
<1>4. f \in Seq(Chars) /\ f = File(m)  BY <1>1, <1>2, <1>3
<1>5. \A i \in 0 .. N : Begins(h[i], f)
  <2>1. \A i \in 1 .. N : \E t \in Seq(Chars) : h[i] = Behind(h[i - 1], t)
    BY <1>1, <1>2, LaidGrows
  <2>2. \A i \in 0 .. N : Begins(h[i], h[N])  BY ONLY <1>3, <2>1, Grows
  <2> QED  BY <1>2, <2>2
<1>6. PICK g : Split(f, g) /\ Lines(f) = g[1]  BY <1>4, LinesSplit
<1> DEFINE good(i) == Spells(g[Len(h[i]) + 1], m, i + 1)
<1>7. PICK D : D = {d \in 0 .. N : good(N - d)}  OBVIOUS
<1>8. 0 \in D
  <2>1. N - 0 = N /\ 0 \in 0 .. N  BY <1>3
  <2>2. g[Len(h[N]) + 1] = <<>>  BY <1>2, <1>6 DEF Split
  <2>3. Spells(<<>>, m, N + 1)
    <3>1. <<>> \in Seq(Seq(Chars)) /\ Len(<<>>) = 2 * 0 /\ 0 \in Nat  BY EmptySeq
    <3>2. \A j \in N + 1 .. N : FALSE  BY <1>3
    <3>3. \A k \in 1 .. 0 : FALSE  OBVIOUS
    <3> QED  BY <1>2, <3>1, <3>2, <3>3 DEF Spells
  <2>4. good(N)  BY <2>2, <2>3
  <2> HIDE DEF good
  <2> QED  BY <1>7, <2>1, <2>4
<1>9. ASSUME NEW d \in 1 .. N, d - 1 \in D PROVE d \in D
  <2>1. PICK i : i = N - (d - 1)  OBVIOUS
  <2>2. i \in 1 .. N /\ i - 1 = N - d /\ i - 1 \in 0 .. N /\ d \in 0 .. N /\ i \in 0 .. N
        /\ i - 1 + 1 = i
    BY <1>3, <2>1
  <2>3. PICK ls, n, s, t : ls = g[Len(h[i]) + 1] /\ n = Names[i] /\ s = h[i - 1] /\ t = h[i]
    OBVIOUS
  <2>4. Spells(ls, m, i + 1)  BY <1>7, <1>9, <2>1, <2>3
  <2>5. Spells(g[Len(s) + 1], m, i)
    <3>1. CASE n \in DOMAIN m
      <4>1. n \in Range(Names) \cup Urls /\ m[n] \in Range(Names) \cup Urls  BY <3>1, BookIs
      <4>2. s \in Seq(Chars) /\ t \in Seq(Chars) /\ Begins(t, f)  BY <1>3, <1>5, <2>2, <2>3
      <4>3. t = Behind(s, Entry(n, m[n]))  BY <1>1, <1>2, <2>2, <2>3, <3>1 DEF Laid
      <4>4. g[Len(s) + 1] = Before(n, Before(m[n], g[Len(t) + 1]))
        BY ONLY <1>4, <1>6, <4>1, <4>2, <4>3, EntryLines
      <4>5. Spells(Before(n, Before(m[n], ls)), m, i)
        BY <1>2, <2>2, <2>3, <2>4, <3>1, SpellsMore
      <4> QED  BY <2>3, <4>4, <4>5
    <3>2. CASE n \notin DOMAIN m
      <4>1. t = s  BY <1>1, <1>2, <2>2, <2>3, <3>2 DEF Laid
      <4>2. PICK c \in Nat :
              /\ Len(ls) = 2 * c
              /\ \A k \in 1 .. c : ls[2 * k - 1] \in DOMAIN m /\ ls[2 * k] = m[ls[2 * k - 1]]
              /\ \A j \in i + 1 .. Len(Names) :
                   Names[j] \in DOMAIN m => \E k \in 1 .. c : ls[2 * k - 1] = Names[j]
        BY <2>4 DEF Spells
      <4>3. \A j \in i .. N : j = i \/ j \in i + 1 .. N  BY <1>3, <2>2
      <4>4. \A j \in i .. Len(Names) :
              Names[j] \in DOMAIN m => \E k \in 1 .. c : ls[2 * k - 1] = Names[j]
        BY <1>2, <2>3, <3>2, <4>2, <4>3
      <4>5. ls \in Seq(Seq(Chars))  BY <2>4 DEF Spells
      <4>6. Spells(ls, m, i)  BY <4>2, <4>4, <4>5 DEF Spells
      <4> QED  BY <2>3, <4>1, <4>6
    <3> QED  BY <3>1, <3>2
  <2>6. good(i - 1)  BY <2>2, <2>3, <2>5
  <2> HIDE DEF good
  <2> QED  BY <1>7, <2>2, <2>6
<1>10. Spells(g[1], m, 1)
  <2>1. 0 .. N \subseteq D  BY <1>3, <1>8, <1>9, UpTo
  <2>2. N \in 0 .. N /\ N - N = 0  BY <1>3
  <2>3. good(0)  BY <1>7, <2>1, <2>2
  <2>4. Len(h[0]) + 1 = 1  BY <1>3, EmptySeq
  <2> QED  BY <2>3, <2>4
<1>11. Pairs(Lines(f)) = m  BY <1>6, <1>10, PairsIs
<1>12. \A x : Entries(x) = Pairs(Lines(x))  BY DEF Entries
<1> QED  BY <1>4, <1>11, <1>12

(* More subscriptions make a longer file.                                  *)
LEMMA Longer ==
  ASSUME NEW m0 \in Books, NEW m \in Books,
         \A n \in DOMAIN m0 : n \in DOMAIN m /\ m0[n] = m[n]
  PROVE  Len(File(m0)) <= Len(File(m))
<1>1. PICK h0 : Laid(h0, m0) /\ File(m0) = h0[Len(Names)]  BY Layout
<1>2. PICK h : Laid(h, m) /\ File(m) = h[Len(Names)]  BY Layout
<1>3. PICK N : N = Len(Names)  OBVIOUS
<1>4. /\ N \in Nat /\ h0 \in [0 .. N -> Seq(Chars)] /\ h0[0] = <<>>
      /\ h \in [0 .. N -> Seq(Chars)] /\ h[0] = <<>>
  BY <1>1, <1>2, <1>3, NamesList DEF Laid
<1>5. PICK D : D = {i \in 0 .. N : Len(h0[i]) <= Len(h[i])}  OBVIOUS
<1>6. 0 \in D  BY <1>4, <1>5, EmptySeq
<1>7. ASSUME NEW i \in 1 .. N, i - 1 \in D PROVE i \in D
  <2>1. PICK s0, s, t0, t, n : s0 = h0[i - 1] /\ s = h[i - 1] /\ t0 = h0[i] /\ t = h[i] /\ n = Names[i]
    OBVIOUS
  <2>2. i \in 0 .. N /\ i - 1 \in 0 .. N  BY <1>4
  <2>3. s0 \in Seq(Chars) /\ s \in Seq(Chars) /\ t0 \in Seq(Chars) /\ t \in Seq(Chars)
    BY <1>4, <2>1, <2>2
  <2>4. Len(s0) \in Nat /\ Len(s) \in Nat /\ Len(s0) <= Len(s)
    BY <1>5, <1>7, <2>1, <2>3, LenProperties
  <2>5. /\ n \in DOMAIN m0 => t0 = Behind(s0, Entry(n, m0[n]))
        /\ n \notin DOMAIN m0 => t0 = s0
    BY <1>1, <1>3, <2>1 DEF Laid
  <2>6. /\ n \in DOMAIN m => t = Behind(s, Entry(n, m[n]))
        /\ n \notin DOMAIN m => t = s
    BY <1>2, <1>3, <2>1 DEF Laid
  <2>7. n \in DOMAIN m => Entry(n, m[n]) \in Seq(Chars)
    <3>1. n \in DOMAIN m => n \in Seq(Chars) /\ m[n] \in Seq(Chars)  BY BookIs, TextsAre
    <3> QED  BY <3>1, EntryIs
  <2>8. Len(t0) <= Len(t)
    <3>1. CASE n \in DOMAIN m
      <4>1. PICK e : e = Entry(n, m[n])  OBVIOUS
      <4>2. e \in Seq(Chars) /\ Len(e) \in Nat  BY <2>7, <3>1, <4>1, LenProperties
      <4>3. Len(t) = Len(s) + Len(e)  BY <2>3, <2>6, <3>1, <4>1, <4>2, BehindIs
      <4>4. CASE n \in DOMAIN m0
        <5>1. t0 = Behind(s0, e)  BY <2>5, <4>1, <4>4
        <5>2. Len(t0) = Len(s0) + Len(e)  BY <2>3, <4>2, <5>1, BehindIs
        <5> QED  BY <2>4, <4>2, <4>3, <5>2
      <4>5. CASE n \notin DOMAIN m0  BY <2>4, <2>5, <4>2, <4>3, <4>5
      <4> QED  BY <4>4, <4>5
    <3>2. CASE n \notin DOMAIN m  BY <2>4, <2>5, <2>6, <3>2
    <3> QED  BY <3>1, <3>2
  <2> QED  BY <1>5, <2>1, <2>2, <2>8
<1>8. N \in D
  <2>1. 0 .. N \subseteq D  BY <1>4, <1>6, <1>7, UpTo
  <2> QED  BY <1>4, <2>1
<1> QED  BY <1>1, <1>2, <1>3, <1>5, <1>8

(* A map without names is an empty file.                                   *)
LEMMA NoneIs == None \in Books /\ File(None) = <<>>
<1>1. PICK m : m = None  OBVIOUS
<1>2. DOMAIN m = {} /\ m \in [{} -> Urls]  BY <1>1 DEF None
<1>3. m \in Books  BY <1>2 DEF Books
<1>4. Len(InOrder(m)) = 0  BY <1>2, <1>3, InOrderLists, FS_EmptySet
<1>5. Texts(m) \in Seq(Seq(Chars)) /\ Len(Texts(m)) = 0  BY <1>3, <1>4, TextsIs
<1>6. Written(Texts(m))[0] = <<>>  BY <1>5, WrittenIs
<1> QED  BY <1>1, <1>3, <1>5, <1>6 DEF File

(* What a write leaves of a file.                                          *)
LEMMA OverwrittenIs ==
  ASSUME NEW C, NEW f \in Seq(C), NEW at \in 0 .. Len(f), NEW t \in Seq(C)
  PROVE  /\ Overwritten(f, at, t) \in Seq(C)
         /\ Len(Overwritten(f, at, t)) = IF at + Len(t) <= Len(f) THEN Len(f) ELSE at + Len(t)
         /\ \A j \in 1 .. at : Overwritten(f, at, t)[j] = f[j]
         /\ Ends(Overwritten(f, at, t), at, t)
<1>1. PICK l, n, k : l = Len(f) /\ n = Len(t) /\ k = at + Len(t) + 1  OBVIOUS
<1>2. l \in Nat /\ n \in Nat /\ at \in 0 .. l /\ \A j \in 1 .. l : f[j] \in C
  BY <1>1, LenProperties, ElementOfSeq
<1>3. PICK a, b : a = SubSeq(f, 1, at) /\ b = SubSeq(f, k, l)  OBVIOUS
<1>4. a \in Seq(C) /\ Len(a) = at /\ \A j \in 1 .. at : a[j] = f[j]
  <2>1. 1 \in Int /\ at \in Int /\ \A j \in 1 .. at : f[j] \in C  BY <1>1, <1>2
  <2>2. /\ a \in Seq(C) /\ Len(a) = IF 1 <= at THEN at - 1 + 1 ELSE 0
        /\ \A j \in 1 .. at - 1 + 1 : a[j] = f[1 + j - 1]
    BY ONLY <1>3, <2>1, SubSeqProperties
  <2>3. \A j \in 1 .. at : j \in 1 .. at - 1 + 1 /\ 1 + j - 1 = j  BY <1>2
  <2>4. Len(a) = at  BY <1>2, <2>2
  <2> QED  BY <2>2, <2>3, <2>4
<1>5. b \in Seq(C) /\ Len(b) = IF k <= l THEN l - k + 1 ELSE 0
  <2>1. k \in Int /\ l \in Int /\ \A j \in k .. l : f[j] \in C  BY <1>1, <1>2
  <2> QED  BY ONLY <1>3, <2>1, SubSeqProperties
<1>6. PICK c : c = Behind(a, t)  OBVIOUS
<1>7. c \in Seq(C) /\ Len(c) = at + n /\ Begins(a, c) /\ Ends(c, at, t)
  <2>1. c \in Seq(C) /\ Len(c) = Len(a) + Len(t) /\ Begins(a, c) /\ Ends(c, Len(a), t)
    BY <1>4, <1>6, BehindIs
  <2> QED  BY <1>1, <1>4, <2>1
<1>8. PICK o : o = Behind(c, b)  OBVIOUS
<1>9. o \in Seq(C) /\ Len(o) = at + n + Len(b) /\ Begins(c, o)
  <2>1. o \in Seq(C) /\ Len(o) = Len(c) + Len(b) /\ Begins(c, o)
    BY <1>5, <1>7, <1>8, BehindIs
  <2> QED  BY <1>7, <2>1
<1>10. o = Overwritten(f, at, t)  BY <1>1, <1>3, <1>6, <1>8 DEF Overwritten, Behind
<1>11. Len(o) = IF at + n <= l THEN l ELSE at + n
  <2>1. k = at + n + 1  BY <1>1
  <2>2. CASE k <= l
    <3>1. Len(b) = l - k + 1  BY <1>5, <2>2
    <3> QED  BY <1>2, <1>9, <2>1, <2>2, <3>1
  <2>3. CASE ~ (k <= l)
    <3>1. Len(b) = 0  BY <1>5, <2>3
    <3> QED  BY <1>2, <1>9, <2>1, <2>3, <3>1
  <2> QED  BY <2>2, <2>3
<1>12. \A j \in 1 .. at + n : o[j] = c[j]  BY <1>7, <1>9 DEF Begins
<1>13. \A j \in 1 .. at : o[j] = f[j]
  <2>1. \A j \in 1 .. at : c[j] = a[j]  BY <1>4, <1>7 DEF Begins
  <2>2. \A j \in 1 .. at : j \in 1 .. at + n  BY <1>2
  <2> QED  BY <1>4, <1>12, <2>1, <2>2
<1>14. Ends(o, at, t)
  <2>1. \A j \in 1 .. n : c[at + j] = t[j]  BY <1>1, <1>7 DEF Ends
  <2>2. ASSUME NEW j \in 1 .. n PROVE o[at + j] = t[j]
    <3>1. PICK i : i = at + j  OBVIOUS
    <3>2. i \in 1 .. at + n  BY <1>2, <3>1
    <3> QED  BY <1>12, <2>1, <3>1, <3>2
  <2> QED  BY <1>1, <2>2 DEF Ends
<1> QED  BY <1>1, <1>10, <1>9, <1>11, <1>13, <1>14

(* A write at the position behind what has been written.                   *)
LEMMA WriteGoesOn ==
  ASSUME NEW C, NEW f \in Seq(C), NEW w \in Seq(C), Begins(w, f), NEW t \in Seq(C),
         NEW o, o = Overwritten(f, Len(w), t)
  PROVE  /\ o \in Seq(C) /\ Begins(Behind(w, t), o)
         /\ Len(o) = Len(f) \/ Len(o) = Len(Behind(w, t))
<1>1. PICK at, n, l : at = Len(w) /\ n = Len(t) /\ l = Len(f)  OBVIOUS
<1>2. at \in Nat /\ n \in Nat /\ l \in Nat /\ at <= l /\ at \in 0 .. Len(f)
  BY <1>1, LenProperties DEF Begins
<1>3. \A j \in 1 .. at : f[j] = w[j]  BY <1>1 DEF Begins
<1>4. o = Overwritten(f, at, t)  BY <1>1
<1>5. o \in Seq(C)  BY <1>2, <1>4, OverwrittenIs
<1>6. Len(o) = IF at + Len(t) <= Len(f) THEN Len(f) ELSE at + Len(t)
  BY <1>2, <1>4, OverwrittenIs
<1>7. \A j \in 1 .. at : o[j] = f[j]  BY <1>2, <1>4, OverwrittenIs
<1>8. \A j \in 1 .. n : o[at + j] = t[j]
  <2>1. Ends(o, at, t)  BY <1>2, <1>4, OverwrittenIs
  <2> QED  BY <1>1, <2>1 DEF Ends
<1>9. PICK b : b = Behind(w, t)  OBVIOUS
<1>10. Len(b) = at + n /\ (\A j \in 1 .. at : b[j] = w[j]) /\ \A j \in 1 .. n : b[at + j] = t[j]
  <2>1. Len(b) = Len(w) + Len(t) /\ Begins(w, b) /\ Ends(b, Len(w), t)  BY <1>9, BehindIs
  <2> QED  BY <1>1, <2>1 DEF Begins, Ends
<1>11. ASSUME NEW j \in 1 .. at + n PROVE o[j] = b[j]
  <2>1. CASE j \in 1 .. at  BY <1>3, <1>7, <1>10, <2>1
  <2>2. CASE j \notin 1 .. at
    <3>1. PICK i : i = j - at  OBVIOUS
    <3>2. i \in 1 .. n /\ at + i = j  BY <1>2, <2>2, <3>1
    <3>3. o[at + i] = t[i] /\ b[at + i] = t[i]  BY <1>8, <1>10, <3>2
    <3> QED  BY <3>2, <3>3
  <2> QED  BY <2>1, <2>2
<1>12. at + n <= Len(o)  BY <1>1, <1>2, <1>6
<1>13. Begins(b, o)  BY <1>10, <1>11, <1>12 DEF Begins
<1>14. Len(o) = Len(f) \/ Len(o) = Len(b)  BY <1>1, <1>6, <1>10
<1> QED  BY <1>5, <1>9, <1>13, <1>14

(* No text DumpSubs has written makes the file longer than all of them.    *)
LEMMA WrittenGrows ==
  ASSUME NEW C, NEW T \in Seq(Seq(C))
  PROVE  \A k \in 0 .. Len(T) : Begins(Written(T)[k], Written(T)[Len(T)])
<1>1. PICK n, W : n = Len(T) /\ W = Written(T)  OBVIOUS
<1>2. n \in Nat /\ \A k \in 1 .. n : T[k] \in Seq(C)  BY <1>1, LenProperties, ElementOfSeq
<1>3. W \in [0 .. n -> Seq(C)]  BY <1>1, WrittenIs
<1>4. \A k \in 1 .. n : \E t \in Seq(C) : W[k] = Behind(W[k - 1], t)  BY <1>1, <1>2, WrittenIs
<1>5. \A k \in 0 .. n : Begins(W[k], W[n])  BY ONLY <1>2, <1>3, <1>4, Grows
<1> QED  BY <1>1, <1>5

(* The same text.                                                          *)
LEMMA BeginsWhole ==
  ASSUME NEW C, NEW s \in Seq(C), NEW t \in Seq(C), Begins(s, t), Len(t) <= Len(s)
  PROVE  s = t
<1>1. Len(s) \in Nat /\ Len(t) \in Nat  BY LenProperties
<1>2. Len(s) = Len(t)  BY <1>1 DEF Begins
<1>3. \A j \in 1 .. Len(s) : s[j] = t[j]  BY DEF Begins
<1> QED  BY ONLY <1>2, <1>3, SeqEqual

(* The subscriptions of m0 are among those of m.                           *)
Kept(m0, m) == \A n \in DOMAIN m0 : n \in DOMAIN m /\ m0[n] = m[n]

(* k texts of the map have been written, over a file that is no longer.    *)
Dumped(m, f, k) ==
  /\ f \in Seq(Chars)
  /\ Begins(Written(Texts(m))[k], f)
  /\ Len(f) <= Len(File(m))

(* The subscription file is that of a map, which the running reader has    *)
(* not lost anything of; while it is rewritten its beginning is that of    *)
(* the new file.                                                           *)
BookInv ==
  /\ mSubUrls \in Books
  /\ mode # "dump" =>
       /\ writes = <<>> /\ position = 0
       /\ \E m \in Books : /\ subFile = File(m)
                           /\ mode # "off" /\ Reader \in plugins => Kept(m, mSubUrls)
  /\ mode = "dump" =>
       \E k \in 0 .. Len(Texts(mSubUrls)) :
         /\ writes = SubSeq(Texts(mSubUrls), k + 1, Len(Texts(mSubUrls)))
         /\ position = Len(Written(Texts(mSubUrls))[k])
         /\ Dumped(mSubUrls, subFile, k)

(* Files of maps are files.                                                *)
LEMMA FileType == ASSUME NEW m \in Books PROVE File(m) \in Seq(Chars)
<1>1. Texts(m) \in Seq(Seq(Chars))  BY TextsIs
<1>2. Len(Texts(m)) \in 0 .. Len(Texts(m))  BY <1>1, LenProperties
<1>3. Written(Texts(m)) \in [0 .. Len(Texts(m)) -> Seq(Chars)]  BY <1>1, WrittenIs
<1> QED  BY <1>2, <1>3 DEF File

-----------------------------------------------------------------------------
(* DumpSubs starts.                                                        *)
LEMMA DumpStarts ==
  ASSUME NEW m \in Books, NEW m0 \in Books, Kept(m0, m)
  PROVE  /\ 0 \in 0 .. Len(Texts(m))
         /\ Texts(m) = SubSeq(Texts(m), 0 + 1, Len(Texts(m)))
         /\ 0 = Len(Written(Texts(m))[0])
         /\ Dumped(m, File(m0), 0)
<1>1. PICK T, f : T = Texts(m) /\ f = File(m0)  OBVIOUS
<1>2. T \in Seq(Seq(Chars)) /\ Len(T) \in Nat  BY <1>1, TextsIs, LenProperties
<1>3. SubSeq(T, 1, Len(T)) = T  BY <1>2, SubSeqFull
<1>4. Written(T)[0] = <<>>  BY <1>2, WrittenIs
<1>5. f \in Seq(Chars) /\ Len(f) \in Nat  BY <1>1, FileType, LenProperties
<1>6. Begins(<<>>, f)  BY <1>5 DEF Begins
<1>7. Len(f) <= Len(File(m))  BY <1>1, Longer DEF Kept
<1>8. Dumped(m, f, 0)  BY <1>1, <1>4, <1>5, <1>6, <1>7 DEF Dumped
<1>9. 0 + 1 = 1 /\ Len(<<>>) = 0  OBVIOUS
<1> QED  BY <1>1, <1>2, <1>3, <1>4, <1>8, <1>9

(* The position after a write.                                             *)
After(p, t) == p + Len(t)

(* One write of DumpSubs.                                                  *)
LEMMA DumpGoesOn ==
  ASSUME NEW m \in Books, NEW k \in 0 .. Len(Texts(m)), NEW ws, ws # <<>>,
         ws = SubSeq(Texts(m), k + 1, Len(Texts(m))),
         NEW f, Dumped(m, f, k), NEW p, p = Len(Written(Texts(m))[k])
  PROVE  /\ k + 1 \in 0 .. Len(Texts(m))
         /\ Tail(ws) = SubSeq(Texts(m), k + 1 + 1, Len(Texts(m)))
         /\ After(p, Head(ws)) = Len(Written(Texts(m))[k + 1])
         /\ Dumped(m, Overwritten(f, p, Head(ws)), k + 1)
<1>1. PICK T, n, W, i : T = Texts(m) /\ n = Len(T) /\ W = Written(T) /\ i = k + 1  OBVIOUS
<1>2. T \in Seq(Seq(Chars)) /\ n \in Nat  BY <1>1, TextsIs, LenProperties
<1>3. /\ W \in [0 .. n -> Seq(Chars)]
      /\ \A j \in 1 .. n : W[j] = Behind(W[j - 1], T[j])
  BY <1>1, <1>2, WrittenIs
<1>4. i \in 1 .. n
  <2>1. CASE k = n
    <3>1. i \in Int /\ n \in Int /\ n < i  BY <1>1, <1>2, <2>1
    <3>2. SubSeq(T, i, n) = <<>>  BY ONLY <3>1, SubSeqEmpty
    <3> QED  BY <1>1, <3>2
  <2>2. CASE k # n  BY <1>1, <1>2, <2>2
  <2> QED  BY <2>1, <2>2
<1>5. Head(ws) = T[i] /\ Tail(ws) = SubSeq(T, i + 1, n)
  <2>1. i \in 1 .. Len(T) /\ n \in i .. Len(T)  BY <1>1, <1>2, <1>4
  <2>2. Head(SubSeq(T, i, n)) = T[i] /\ Tail(SubSeq(T, i, n)) = SubSeq(T, i + 1, n)
    BY ONLY <1>2, <2>1, HeadTailOfSubSeq
  <2> QED  BY <1>1, <2>2
<1>6. PICK w, t, o : w = W[k] /\ t = T[i] /\ o = Overwritten(f, p, t)  OBVIOUS
<1>7. /\ i \in 0 .. n /\ k \in 0 .. n /\ w \in Seq(Chars) /\ t \in Seq(Chars)
      /\ W[i] \in Seq(Chars) /\ W[i] = Behind(w, t)
  <2>1. i - 1 = k /\ i \in 0 .. n /\ k \in 0 .. n  BY <1>1, <1>4
  <2>2. t \in Seq(Chars)  BY <1>1, <1>2, <1>4, <1>6, ElementOfSeq
  <2> QED  BY <1>3, <1>4, <1>6, <2>1, <2>2
<1>8. p + Len(t) = Len(W[i])
  <2>1. Len(W[i]) = Len(w) + Len(t)  BY <1>7, BehindIs
  <2> QED  BY <1>1, <1>6, <2>1
<1>9. f \in Seq(Chars) /\ Begins(w, f) /\ Len(f) <= Len(File(m))  BY <1>1, <1>6 DEF Dumped
<1>10. o \in Seq(Chars) /\ Begins(W[i], o) /\ (Len(o) = Len(f) \/ Len(o) = Len(W[i]))
  <2>1. o = Overwritten(f, Len(w), t)  BY <1>1, <1>6
  <2>2. /\ o \in Seq(Chars) /\ Begins(Behind(w, t), o)
        /\ Len(o) = Len(f) \/ Len(o) = Len(Behind(w, t))
    BY ONLY <1>7, <1>9, <2>1, WriteGoesOn
  <2> QED  BY <1>7, <2>2
<1>11. Len(W[i]) <= Len(File(m))
  <2>1. Begins(W[i], W[n])
    <3>1. \A j \in 0 .. Len(T) : Begins(Written(T)[j], Written(T)[Len(T)])
      BY ONLY <1>2, WrittenGrows
    <3> QED  BY <1>1, <1>7, <3>1
  <2> QED  BY <1>1, <2>1 DEF Begins, File
<1>12. Dumped(m, o, i)  BY <1>1, <1>9, <1>10, <1>11 DEF Dumped
<1> QED  BY <1>1, <1>5, <1>6, <1>7, <1>8, <1>12 DEF After

(* DumpSubs ends.                                                          *)
LEMMA DumpIsWhole ==
  ASSUME NEW m \in Books, NEW k \in 0 .. Len(Texts(m)),
         <<>> = SubSeq(Texts(m), k + 1, Len(Texts(m))), NEW f, Dumped(m, f, k)
  PROVE  f = File(m)
<1>1. PICK T, n, i : T = Texts(m) /\ n = Len(T) /\ i = k + 1  OBVIOUS
<1>2. T \in Seq(Seq(Chars)) /\ n \in Nat  BY <1>1, TextsIs, LenProperties
<1>3. k = n
  <2>1. \A j \in i .. n : T[j] \in Seq(Chars)
    <3>1. \A j \in i .. n : j \in 1 .. n  BY <1>1, <1>2
    <3> QED  BY <1>1, <1>2, <3>1, ElementOfSeq
  <2>2. i \in Int /\ n \in Int  BY <1>1, <1>2
  <2>3. Len(SubSeq(T, i, n)) = IF i <= n THEN n - i + 1 ELSE 0
    BY ONLY <2>1, <2>2, SubSeqProperties
  <2>4. SubSeq(T, i, n) = <<>>  BY <1>1
  <2>5. ~ (i <= n)  BY <2>2, <2>3, <2>4
  <2> QED  BY <1>1, <1>2, <2>5
<1>4. Begins(File(m), f)  BY <1>1, <1>3 DEF Dumped, File
<1>5. f \in Seq(Chars) /\ Len(f) <= Len(File(m))  BY DEF Dumped
<1>6. File(m) \in Seq(Chars)  BY FileType
<1> QED  BY ONLY <1>4, <1>5, <1>6, BeginsWhole

-----------------------------------------------------------------------------
(* The steps of the reader that touch neither the map nor the file.        *)
Looks == \/ Exec \/ GetIn \/ LeaveList \/ ChooseItem \/ ShowItem
         \/ \E id \in 1 .. Len(Names), n \in UNION {0 .. Size[f] : f \in Feeds} : View(id, n)

LEMMA LooksKeep ==
  ASSUME Looks
  PROVE  UNCHANGED book /\ mode \notin {"off", "dump"} /\ mode' \notin {"off", "dump"}
<1>1. CASE Exec  BY <1>1 DEF Exec
<1>2. CASE GetIn  BY <1>2 DEF GetIn
<1>3. CASE LeaveList  BY <1>3 DEF LeaveList
<1>4. CASE ChooseItem  BY <1>4 DEF ChooseItem, GoOn, LeaveView
<1>5. CASE ShowItem  BY <1>5 DEF ShowItem, GoOn, LeaveView
<1>6. ASSUME NEW id, NEW n, View(id, n)
      PROVE  UNCHANGED book /\ mode \notin {"off", "dump"} /\ mode' \notin {"off", "dump"}
  <2>1. UNCHANGED book /\ mode = "list" /\ (mode' = mode \/ mode' = "dir")  BY <1>6 DEF View
  <2> QED  BY <2>1
<1> QED  BY <1>1, <1>2, <1>3, <1>4, <1>5, <1>6 DEF Looks

(* So do those of the configuration menu.                                  *)
LEMMA MenuKeepsBook ==
  ASSUME ConfStep
  PROVE  /\ UNCHANGED <<book, plugins>>
         /\ mode \notin {"off", "dump"} /\ mode' \notin {"off", "dump"}
<1>1. CASE Configure  BY <1>1 DEF Configure
<1>2. CASE ExitConf
  <2>1. mode' = "save" \/ mode' = "main"  BY <1>2 DEF ExitConf
  <2> QED  BY <1>2, <2>1 DEF ExitConf
<1>3. CASE SaveConf  BY <1>3 DEF SaveConf
<1>4. ASSUME NEW p, AddPlugin(p) \/ RemovePlugin(p)
      PROVE  /\ UNCHANGED <<book, plugins>>
             /\ mode \notin {"off", "dump"} /\ mode' \notin {"off", "dump"}
  <2>1. mode = "conf" /\ UNCHANGED <<mode, book, plugins>>  BY <1>4 DEF AddPlugin, RemovePlugin
  <2> QED  BY <2>1
<1> QED  BY <1>1, <1>2, <1>3, <1>4 DEF ConfStep

(* What remains of Next.                                                   *)
LEMMA NextIs ==
  ASSUME Next
  PROVE  \/ StartStep \/ Leave \/ Crash \/ ConfStep
         \/ /\ Reader \in plugins /\ UNCHANGED settings
            /\ Looks \/ ImportFromGoogleReader \/ Quit \/ DumpWrite \/ DumpEnds
<1>1. CASE ReaderStep
  <2>1. ReaderNext => Looks \/ ImportFromGoogleReader \/ Quit \/ DumpWrite \/ DumpEnds
    BY DEF ReaderNext, Looks
  <2> QED  BY <1>1, <2>1 DEF ReaderStep
<1> QED  BY <1>1 DEF Next

LEMMA InitBook == ASSUME Init PROVE BookInv
<1>1. /\ mode = "off" /\ mSubUrls = None /\ subFile = <<>> /\ writes = <<>> /\ position = 0
  BY DEF Init, ReaderInit
<1>2. None \in Books /\ File(None) = <<>>  BY NoneIs
<1>3. \E m \in Books : subFile = File(m) /\ (mode # "off" /\ Reader \in plugins => Kept(m, mSubUrls))
  BY <1>1, <1>2
<1>4. mode # "dump"  BY <1>1
<1> QED  BY <1>1, <1>2, <1>3, <1>4 DEF BookInv

(* An import adds to the map.                                              *)
LEMMA ImportAdds ==
  ASSUME mSubUrls \in Books, ImportFromGoogleReader
  PROVE  mSubUrls' \in Books /\ Kept(mSubUrls, mSubUrls')
<1>0. PICK S \in SUBSET ToSet(Names) : \E m \in [S -> Urls] :
        mSubUrls' = [n \in DOMAIN mSubUrls \cup S |->
                       IF n \in DOMAIN mSubUrls THEN mSubUrls[n] ELSE m[n]]
  BY DEF ImportFromGoogleReader
<1>1. PICK m \in [S -> Urls] :
        mSubUrls' = [n \in DOMAIN mSubUrls \cup S |->
                       IF n \in DOMAIN mSubUrls THEN mSubUrls[n] ELSE m[n]]
  BY <1>0
<1>2. PICK A : A = DOMAIN mSubUrls \cup S  OBVIOUS
<1>3. ToSet(Names) = Range(Names)  BY DEF ToSet, Range
<1>4. DOMAIN mSubUrls \subseteq Range(Names) /\ \A n \in DOMAIN mSubUrls : mSubUrls[n] \in Urls
  BY BookIs
<1>5. A \in SUBSET Range(Names)  BY <1>2, <1>3, <1>4
<1>6. mSubUrls' \in [A -> Urls]  BY <1>1, <1>2, <1>4
<1>7. mSubUrls' \in Books  BY <1>5, <1>6 DEF Books
<1>8. Kept(mSubUrls, mSubUrls')  BY <1>1 DEF Kept
<1> QED  BY <1>7, <1>8

LEMMA KeptKept ==
  ASSUME NEW m0, NEW m1, NEW m, Kept(m0, m1), Kept(m1, m)
  PROVE  Kept(m0, m)
BY DEF Kept

LEMMA GoneKeepsBook ==
  ASSUME BookInv, Gone, mode # "dump"
  PROVE  BookInv'
<1>1. mode' = "off" /\ mSubUrls' = None /\ writes' = <<>> /\ position' = 0 /\ subFile' = subFile
  BY DEF Gone
<1>2. PICK m \in Books : subFile = File(m)  BY DEF BookInv
<1>3. None \in Books  BY NoneIs
<1>4. mode' # "dump" /\ ~ (mode' # "off")  BY <1>1
<1> QED  BY <1>1, <1>2, <1>3, <1>4 DEF BookInv

LEMMA LoadKeepsBook == ASSUME ConfInv, BookInv, StartStep PROVE BookInv'
<1>1. CASE Start
  <2>1. mode = "off" /\ mode' = "load" /\ UNCHANGED <<mSubUrls, subFile, writes, position, plugins>>
    BY <1>1 DEF Start, book
  <2>2. Reader \notin plugins'  BY <2>1 DEF ConfInv
  <2> QED  BY <2>1, <2>2 DEF BookInv
<1>2. CASE EnterLoop
  <2>1. mode = "load" /\ mode' = "main" /\ UNCHANGED <<mSubUrls, subFile, writes, position, plugins>>
    BY <1>2 DEF EnterLoop, book, settings
  <2> QED  BY <2>1 DEF BookInv
<1>3. ASSUME NEW p \in Plugins, LoadPlugin(p) PROVE BookInv'
  <2>1. /\ mode = "load" /\ mode' = "load" /\ plugins' = plugins \cup {p}
        /\ UNCHANGED <<subFile, writes, position>>
        /\ p = Reader => mSubUrls' = Entries(subFile)
        /\ p # Reader => mSubUrls' = mSubUrls
    BY <1>3 DEF LoadPlugin, ToLoad, Make, book
  <2>2. CASE p = Reader
    <3>1. PICK m \in Books : subFile = File(m)  BY <2>1 DEF BookInv
    <3>2. writes' = <<>> /\ position' = 0 /\ subFile' = File(m)  BY <2>1, <3>1 DEF BookInv
    <3>3. mSubUrls' = m  BY <2>1, <2>2, <3>1, RoundTrip
    <3>4. Kept(m, mSubUrls')  BY <3>3 DEF Kept
    <3> QED  BY <2>1, <3>2, <3>3, <3>4 DEF BookInv
  <2>3. CASE p # Reader
    <3>1. mSubUrls' = mSubUrls /\ (Reader \in plugins' => Reader \in plugins)  BY <2>1, <2>3
    <3> QED  BY <2>1, <3>1 DEF BookInv
  <2> QED  BY <2>2, <2>3
<1>4. ASSUME NEW p \in Plugins, LoadFails(p) PROVE BookInv'
  <2>1. Gone /\ mode # "dump"  BY <1>4 DEF LoadFails, ToLoad
  <2> QED  BY <2>1, GoneKeepsBook
<1> QED  BY <1>1, <1>2, <1>3, <1>4 DEF StartStep

LEMMA NextKeepsBook == ASSUME ConfInv, BookInv, [Next]_vars PROVE BookInv'
<1>1. CASE StartStep  BY <1>1, LoadKeepsBook
<1>2. CASE Leave
  <2>1. Gone /\ mode # "dump"  BY <1>2 DEF Leave
  <2> QED  BY <2>1, GoneKeepsBook
<1>3. CASE Crash
  <2>1. Gone /\ mode # "dump"  BY <1>3 DEF Crash
  <2> QED  BY <2>1, GoneKeepsBook
<1>4. CASE ConfStep
  <2>1. /\ UNCHANGED <<mSubUrls, subFile, writes, position, plugins>>
        /\ mode # "off" /\ mode # "dump" /\ mode' # "off" /\ mode' # "dump"
    BY <1>4, MenuKeepsBook DEF book
  <2> QED  BY <2>1 DEF BookInv
<1>5. CASE UNCHANGED vars
  <2>1. UNCHANGED <<mSubUrls, subFile, writes, position, plugins, mode>>
    BY <1>5 DEF vars, settings, readerVars, book
  <2> QED  BY <2>1 DEF BookInv
<1>6. ASSUME Reader \in plugins, UNCHANGED settings,
             Looks \/ ImportFromGoogleReader \/ Quit \/ DumpWrite \/ DumpEnds
      PROVE  BookInv'
  <2>0. plugins' = plugins  BY <1>6 DEF settings
  <2>1. CASE Looks
    <3>1. /\ UNCHANGED <<mSubUrls, subFile, writes, position>>
          /\ mode # "off" /\ mode # "dump" /\ mode' # "off" /\ mode' # "dump"
      BY <2>1, LooksKeep DEF book
    <3> QED  BY <2>0, <3>1 DEF BookInv
  <2>2. CASE ImportFromGoogleReader
    <3>1. mode = "menu" /\ UNCHANGED <<mode, subFile, writes, position>>
      BY <2>2 DEF ImportFromGoogleReader
    <3>2. PICK m \in Books : subFile = File(m) /\ Kept(m, mSubUrls)  BY <1>6, <3>1 DEF BookInv
    <3>3. mSubUrls' \in Books /\ Kept(mSubUrls, mSubUrls')  BY <2>2, ImportAdds DEF BookInv
    <3>4. Kept(m, mSubUrls')  BY <3>2, <3>3, KeptKept
    <3>5. writes' = <<>> /\ position' = 0 /\ subFile' = File(m) /\ mode' # "dump"
      BY <3>1, <3>2 DEF BookInv
    <3> QED  BY <3>3, <3>4, <3>5 DEF BookInv
  <2>3. CASE Quit
    <3>1. /\ mode = "menu" /\ mode' = "dump" /\ writes' = Texts(mSubUrls) /\ position' = 0
          /\ UNCHANGED <<mSubUrls, subFile>>
      BY <2>3 DEF Quit
    <3>2. PICK m \in Books : subFile = File(m) /\ Kept(m, mSubUrls)  BY <1>6, <3>1 DEF BookInv
    <3>3. mSubUrls \in Books  BY DEF BookInv
    <3>4. PICK k, b, T : k = 0 /\ b = mSubUrls /\ T = Texts(b)  OBVIOUS
    <3>5. k \in 0 .. Len(T) /\ T = SubSeq(T, k + 1, Len(T)) /\ 0 = Len(Written(T)[k])
          /\ Dumped(b, File(m), k)
      BY ONLY <3>2, <3>3, <3>4, DumpStarts
    <3>6. /\ writes' = SubSeq(Texts(mSubUrls'), k + 1, Len(Texts(mSubUrls')))
          /\ position' = Len(Written(Texts(mSubUrls'))[k])
          /\ Dumped(mSubUrls', subFile', k) /\ k \in 0 .. Len(Texts(mSubUrls'))
      BY <3>1, <3>2, <3>4, <3>5
    <3> QED  BY <3>1, <3>3, <3>6 DEF BookInv
  <2>4. CASE DumpWrite
    <3>1. /\ mode = "dump" /\ mode' = "dump" /\ writes # <<>>
          /\ subFile' = Overwritten(subFile, position, Head(writes))
          /\ position' = position + Len(Head(writes))
          /\ writes' = Tail(writes) /\ mSubUrls' = mSubUrls
      BY <2>4 DEF DumpWrite
    <3>2. mSubUrls \in Books  BY DEF BookInv
    <3>3. PICK b, T : b = mSubUrls /\ T = Texts(b)  OBVIOUS
    <3>4. PICK k \in 0 .. Len(T) :
            /\ writes = SubSeq(T, k + 1, Len(T)) /\ position = Len(Written(T)[k])
            /\ Dumped(b, subFile, k)
      BY <3>1, <3>3 DEF BookInv
    <3>5. PICK j : j = k + 1  OBVIOUS
    <3>6. /\ k + 1 \in 0 .. Len(T)
          /\ Tail(writes) = SubSeq(T, k + 1 + 1, Len(T))
          /\ position + Len(Head(writes)) = Len(Written(T)[k + 1])
          /\ Dumped(b, Overwritten(subFile, position, Head(writes)), k + 1)
      <4>1. PICK ws, f, p : ws = writes /\ f = subFile /\ p = position  OBVIOUS
      <4>2. /\ b \in Books /\ k \in 0 .. Len(Texts(b)) /\ ws # <<>>
            /\ ws = SubSeq(Texts(b), k + 1, Len(Texts(b)))
            /\ Dumped(b, f, k) /\ p = Len(Written(Texts(b))[k])
        BY <3>1, <3>2, <3>3, <3>4, <4>1
      <4>3. /\ k + 1 \in 0 .. Len(Texts(b))
            /\ Tail(ws) = SubSeq(Texts(b), k + 1 + 1, Len(Texts(b)))
        BY ONLY <4>2, DumpGoesOn
      <4>4. Dumped(b, Overwritten(f, p, Head(ws)), k + 1)
        BY ONLY <4>2, DumpGoesOn
      <4>5. After(p, Head(ws)) = Len(Written(Texts(b))[k + 1])
        BY ONLY <4>2, DumpGoesOn
      <4> QED  BY <3>3, <4>1, <4>3, <4>4, <4>5 DEF After
    <3>7. /\ j \in 0 .. Len(Texts(mSubUrls'))
          /\ writes' = SubSeq(Texts(mSubUrls'), j + 1, Len(Texts(mSubUrls')))
          /\ position' = Len(Written(Texts(mSubUrls'))[j])
          /\ Dumped(mSubUrls', subFile', j)
      BY <3>1, <3>3, <3>5, <3>6
    <3> QED  BY <3>1, <3>2, <3>7 DEF BookInv
  <2>5. CASE DumpEnds
    <3>1. /\ mode = "dump" /\ mode' = "main" /\ writes = <<>> /\ writes' = <<>> /\ position' = 0
          /\ UNCHANGED <<mSubUrls, subFile>>
      BY <2>5 DEF DumpEnds
    <3>2. mSubUrls \in Books  BY DEF BookInv
    <3>3. subFile = File(mSubUrls)
      <4>1. PICK k \in 0 .. Len(Texts(mSubUrls)) :
              /\ writes = SubSeq(Texts(mSubUrls), k + 1, Len(Texts(mSubUrls)))
              /\ Dumped(mSubUrls, subFile, k)
        BY <3>1 DEF BookInv
      <4> QED  BY <3>1, <3>2, <4>1, DumpIsWhole
    <3>4. Kept(mSubUrls, mSubUrls')  BY <3>1 DEF Kept
    <3>5. mSubUrls' \in Books /\ mode' # "dump"  BY <3>1, <3>2
    <3> QED  BY <3>1, <3>2, <3>3, <3>4, <3>5 DEF BookInv
  <2> QED  BY <1>6, <2>1, <2>2, <2>3, <2>4, <2>5
<1> QED  BY <1>1, <1>2, <1>3, <1>4, <1>5, <1>6, NextIs

-----------------------------------------------------------------------------
(* In the file of a map the reader finds the map.                          *)
LEMMA SavedIs ==
  ASSUME NEW m \in Books, NEW f, f = File(m)
  PROVE  Entries(f) = m
BY RoundTrip

(* What is kept for the next start.                                        *)
Saved == IF mode = "dump" THEN mSubUrls ELSE Entries(subFile)

Running == mode # "off" /\ Reader \in plugins

(* The steps of SubscriptionBook, in its terms.                            *)
BookStep ==
  \/ ~Running /\ Running' /\ mSubUrls' = Saved /\ Saved' = Saved
  \/ /\ Running /\ Running' /\ Saved' = Saved
     /\ \E S \in SUBSET ToSet(Names) : \E m \in [S -> Urls] :
          /\ DOMAIN mSubUrls \subseteq S
          /\ \A n \in DOMAIN mSubUrls : m[n] = mSubUrls[n]
          /\ mSubUrls' = m
  \/ Running /\ Running' /\ Saved' = mSubUrls /\ mSubUrls' = mSubUrls
  \/ ~Running' /\ mSubUrls' = None /\ Saved' = Saved
  \/ Saved' = Saved /\ mSubUrls' = mSubUrls /\ Running' = Running

LEMMA LoadIsBookStep == ASSUME ConfInv, BookInv, StartStep PROVE BookStep
<1>1. CASE Start
  <2>1. mode = "off" /\ mode' = "load" /\ UNCHANGED <<mSubUrls, subFile, plugins>>
    BY <1>1 DEF Start, book
  <2>2. Reader \notin plugins'  BY <2>1 DEF ConfInv
  <2>3. ~Running /\ ~Running'  BY <2>1, <2>2 DEF Running
  <2>4. Running' <=> Running  BY <2>3
  <2>5. Saved' = Saved  BY <2>1 DEF Saved
  <2> QED  BY <2>1, <2>4, <2>5 DEF BookStep, Running
<1>2. CASE EnterLoop
  <2>1. mode = "load" /\ mode' = "main" /\ UNCHANGED <<mSubUrls, subFile, plugins>>
    BY <1>2 DEF EnterLoop, book, settings
  <2>2. Saved' = Saved  BY <2>1 DEF Saved
  <2>3. Running' = Running  BY <2>1 DEF Running
  <2> QED  BY <2>1, <2>2, <2>3 DEF BookStep
<1>3. ASSUME NEW p \in Plugins, LoadPlugin(p) PROVE BookStep
  <2>1. /\ mode = "load" /\ mode' = "load" /\ p \notin plugins /\ plugins' = plugins \cup {p}
        /\ subFile' = subFile
        /\ p = Reader => mSubUrls' = Entries(subFile)
        /\ p # Reader => mSubUrls' = mSubUrls
    BY <1>3 DEF LoadPlugin, ToLoad, Make, book
  <2>2. Saved' = Saved /\ Saved = Entries(subFile)  BY <2>1 DEF Saved
  <2>3. CASE p = Reader
    <3>1. ~Running /\ Running'  BY <2>1, <2>3 DEF Running
    <3> QED  BY <2>1, <2>2, <2>3, <3>1 DEF BookStep
  <2>4. CASE p # Reader
    <3>1. Reader \in plugins' <=> Reader \in plugins  BY <2>1, <2>4
    <3>2. Running' = Running  BY <2>1, <3>1 DEF Running
    <3> QED  BY <2>1, <2>2, <2>4, <3>2 DEF BookStep
  <2> QED  BY <2>3, <2>4
<1>4. ASSUME NEW p \in Plugins, LoadFails(p) PROVE BookStep
  <2>1. Gone /\ mode # "dump"  BY <1>4 DEF LoadFails, ToLoad
  <2>2. mode' = "off" /\ mSubUrls' = None /\ subFile' = subFile  BY <2>1 DEF Gone
  <2>3. Saved' = Saved  BY <2>1, <2>2 DEF Saved
  <2>4. ~Running'  BY <2>2 DEF Running
  <2> QED  BY <2>2, <2>3, <2>4 DEF BookStep
<1> QED  BY <1>1, <1>2, <1>3, <1>4 DEF StartStep

LEMMA NextIsBookStep == ASSUME ConfInv, BookInv, [Next]_vars PROVE BookStep
<1>1. CASE StartStep  BY <1>1, LoadIsBookStep
<1>2. CASE Leave \/ Crash
  <2>1. Gone /\ mode # "dump"  BY <1>2 DEF Leave, Crash
  <2>2. mode' = "off" /\ mSubUrls' = None /\ subFile' = subFile  BY <2>1 DEF Gone
  <2>3. Saved' = Saved  BY <2>1, <2>2 DEF Saved
  <2>4. ~Running'  BY <2>2 DEF Running
  <2> QED  BY <2>2, <2>3, <2>4 DEF BookStep
<1>3. CASE ConfStep
  <2>1. /\ UNCHANGED <<mSubUrls, subFile, plugins>>
        /\ mode # "off" /\ mode # "dump" /\ mode' # "off" /\ mode' # "dump"
    BY <1>3, MenuKeepsBook DEF book
  <2>2. Saved' = Saved  BY <2>1 DEF Saved
  <2>3. Running' = Running  BY <2>1 DEF Running
  <2> QED  BY <2>1, <2>2, <2>3 DEF BookStep
<1>4. CASE UNCHANGED vars
  <2>1. UNCHANGED <<mSubUrls, subFile, plugins, mode>>
    BY <1>4 DEF vars, settings, readerVars, book
  <2>2. Saved' = Saved  BY <2>1 DEF Saved
  <2>3. Running' = Running  BY <2>1 DEF Running
  <2> QED  BY <2>1, <2>2, <2>3 DEF BookStep
<1>5. ASSUME Reader \in plugins, UNCHANGED settings,
             Looks \/ ImportFromGoogleReader \/ Quit \/ DumpWrite \/ DumpEnds
      PROVE  BookStep
  <2>0. plugins' = plugins  BY <1>5 DEF settings
  <2>1. CASE Looks
    <3>1. /\ UNCHANGED <<mSubUrls, subFile>>
          /\ mode # "off" /\ mode # "dump" /\ mode' # "off" /\ mode' # "dump"
      BY <2>1, LooksKeep DEF book
    <3>2. Saved' = Saved  BY <3>1 DEF Saved
    <3>3. Running' = Running  BY <2>0, <3>1 DEF Running
    <3> QED  BY <3>1, <3>2, <3>3 DEF BookStep
  <2>2. CASE ImportFromGoogleReader
    <3>1. mode = "menu" /\ mode' = "menu" /\ subFile' = subFile
      BY <2>2 DEF ImportFromGoogleReader
    <3>2. mSubUrls' \in Books /\ Kept(mSubUrls, mSubUrls')  BY <2>2, ImportAdds DEF BookInv
    <3>3. PICK S \in SUBSET Range(Names) : mSubUrls' \in [S -> Urls]  BY <3>2 DEF Books
    <3>4. PICK m \in [S -> Urls] : m = mSubUrls'  BY <3>3
    <3>5. DOMAIN mSubUrls \subseteq S /\ \A n \in DOMAIN mSubUrls : m[n] = mSubUrls[n]
      BY <3>2, <3>3, <3>4 DEF Kept
    <3>6. ToSet(Names) = Range(Names)  BY DEF ToSet, Range
    <3>7. Saved' = Saved  BY <3>1 DEF Saved
    <3>8. Running /\ Running'  BY <1>5, <2>0, <3>1 DEF Running
    <3> QED  BY <3>4, <3>5, <3>6, <3>7, <3>8 DEF BookStep
  <2>3. CASE Quit
    <3>1. mode = "menu" /\ mode' = "dump" /\ mSubUrls' = mSubUrls  BY <2>3 DEF Quit
    <3>2. Saved' = mSubUrls  BY <3>1 DEF Saved
    <3>3. Running /\ Running'  BY <1>5, <2>0, <3>1 DEF Running
    <3> QED  BY <3>1, <3>2, <3>3 DEF BookStep
  <2>4. CASE DumpWrite
    <3>1. mode = "dump" /\ mode' = "dump" /\ mSubUrls' = mSubUrls  BY <2>4 DEF DumpWrite
    <3>2. Saved' = Saved  BY <3>1 DEF Saved
    <3>3. Running' = Running  BY <2>0, <3>1 DEF Running
    <3> QED  BY <3>1, <3>2, <3>3 DEF BookStep
  <2>5. CASE DumpEnds
    <3>1. /\ mode = "dump" /\ mode' = "main" /\ writes = <<>>
          /\ UNCHANGED <<mSubUrls, subFile>>
      BY <2>5 DEF DumpEnds
    <3>2. mSubUrls \in Books  BY DEF BookInv
    <3>3. subFile = File(mSubUrls)
      <4>1. PICK k \in 0 .. Len(Texts(mSubUrls)) :
              /\ writes = SubSeq(Texts(mSubUrls), k + 1, Len(Texts(mSubUrls)))
              /\ Dumped(mSubUrls, subFile, k)
        BY <3>1 DEF BookInv
      <4> QED  BY <3>1, <3>2, <4>1, DumpIsWhole
    <3>4. Entries(subFile') = mSubUrls  BY <3>1, <3>2, <3>3, SavedIs
    <3>5. Saved' = Saved  BY <3>1, <3>4 DEF Saved
    <3>6. Running' = Running  BY <2>0, <3>1 DEF Running
    <3> QED  BY <3>1, <3>5, <3>6 DEF BookStep
  <2> QED  BY <1>5, <2>1, <2>2, <2>3, <2>4, <2>5
<1> QED  BY <1>1, <1>2, <1>3, <1>4, <1>5, NextIs

(* At the first start nothing is kept.                                     *)
LEMMA InitIsBookInit == ASSUME Init PROVE Saved = None /\ mSubUrls = None /\ ~Running
<1>1. mode = "off" /\ mSubUrls = None /\ subFile = <<>>  BY DEF Init, ReaderInit
<1>2. Entries(<<>>) = None  BY NoneIs, SavedIs
<1> QED  BY <1>1, <1>2 DEF Saved, Running

(* Over restarts no subscription is lost, replaced or invented: what the   *)
(* reader had when it was quit is what it has after the next start, for    *)
(* all names and urls, with the file rewritten in place and read by lines. *)
THEOREM SubscriptionsKept == Spec => ImplementsBook
<1>1. Init => ConfInv /\ BookInv  BY StartKeeps, InitBook
<1>2. ConfInv /\ BookInv /\ [Next]_vars => ConfInv' /\ BookInv'  BY StepKeeps, NextKeepsBook
<1>3. Init => Book!Init
  <2> SUFFICES ASSUME Init PROVE Book!Init  OBVIOUS
  <2>1. Saved = None /\ mSubUrls = None /\ ~Running  BY InitIsBookInit
  <2> QED  BY <2>1 DEF Book!Init, Book!None, None, Saved, Running
<1>4. ConfInv /\ BookInv /\ [Next]_vars => [Book!Next]_Book!vars
  <2> SUFFICES ASSUME ConfInv, BookInv, [Next]_vars PROVE [Book!Next]_Book!vars  OBVIOUS
  <2>1. BookStep  BY NextIsBookStep
  <2>2. CASE ~Running /\ Running' /\ mSubUrls' = Saved /\ Saved' = Saved
    <3>1. Book!Start  BY <2>2 DEF Book!Start, Saved, Running
    <3> QED  BY <3>1 DEF Book!Next
  <2>3. CASE /\ Running /\ Running' /\ Saved' = Saved
             /\ \E S \in SUBSET ToSet(Names) : \E m \in [S -> Urls] :
                  /\ DOMAIN mSubUrls \subseteq S
                  /\ \A n \in DOMAIN mSubUrls : m[n] = mSubUrls[n]
                  /\ mSubUrls' = m
    <3>1. Book!Import  BY <2>3 DEF Book!Import, Saved, Running
    <3> QED  BY <3>1 DEF Book!Next
  <2>4. CASE Running /\ Running' /\ Saved' = mSubUrls /\ mSubUrls' = mSubUrls
    <3>1. Book!Save  BY <2>4 DEF Book!Save, Saved, Running
    <3> QED  BY <3>1 DEF Book!Next
  <2>5. CASE ~Running' /\ mSubUrls' = None /\ Saved' = Saved
    <3>1. Book!Stop  BY <2>5 DEF Book!Stop, Book!None, None, Saved, Running
    <3> QED  BY <3>1 DEF Book!Next
  <2>6. CASE Saved' = Saved /\ mSubUrls' = mSubUrls /\ Running' = Running
    <3>1. UNCHANGED Book!vars  BY <2>6 DEF Book!vars, Saved, Running
    <3> QED  BY <3>1
  <2> QED  BY <2>1, <2>2, <2>3, <2>4, <2>5, <2>6 DEF BookStep
<1> QED  BY <1>1, <1>2, <1>3, <1>4, PTL DEF Spec, ImplementsBook, Book!Spec

Modes == {"off", "load", "main", "menu", "list", "dir", "article", "dump", "conf", "save"}

Pieces == Feeds \X Nat

(* What is shown, and where the process stands.                            *)
ViewInv ==
  /\ mode \in Modes
  /\ tmpFile \in Seq(Pieces)
  /\ mXMLDoc \in Feeds \cup {NoFeed} /\ mFeedInfo \in Feeds \cup {NoFeed}
  /\ chosen \in Urls \cup {NoUrl}
  /\ chosen = NoUrl <=> mode \notin {"dir", "article"}
  /\ plugins \subseteq Plugins

LEMMA InitView == ASSUME Init PROVE ViewInv
<1>1. /\ mode = "off" /\ tmpFile = <<>> /\ mXMLDoc = NoFeed /\ mFeedInfo = NoFeed
      /\ chosen = NoUrl /\ plugins = {}
  BY DEF Init, ReaderInit
<1>2. tmpFile \in Seq(Pieces)  BY <1>1, EmptySeq
<1> QED  BY <1>1, <1>2 DEF ViewInv, Modes

(* The number that View accepts is that of a subscription.                 *)
LEMMA SelectedIs ==
  ASSUME mSubUrls \in Books, NEW id \in Nat, id + 1 <= Cardinality(DOMAIN mSubUrls)
  PROVE  Selected(id) \in DOMAIN mSubUrls
<1>1. PICK q, i, D : q = InOrder(mSubUrls) /\ i = id + 1 /\ D = DOMAIN mSubUrls  OBVIOUS
<1>2. q \in Seq(D) /\ Len(q) = Cardinality(D)  BY <1>1, InOrderLists
<1>3. i \in 1 .. Len(q)
  <2>1. Len(q) \in Nat  BY <1>2, LenProperties
  <2> QED  BY <1>1, <1>2, <2>1
<1>4. q[i] \in D  BY <1>2, <1>3, ElementOfSeq
<1> QED  BY <1>1, <1>4 DEF Selected

(* The beginning of a text, and its first piece.                           *)
LEMMA TextIs ==
  ASSUME NEW f \in Feeds, NEW n \in 0 .. Size[f]
  PROVE  /\ SubSeq(Text(f), 1, n) \in Seq(Pieces)
         /\ n # 0 => /\ Len(SubSeq(Text(f), 1, n)) = n
                     /\ SubSeq(Text(f), 1, n)[1] = <<f, 1>>
<1>1. PICK s, t : t = Text(f) /\ s = SubSeq(t, 1, n)  OBVIOUS
<1>2. Size[f] \in Nat  BY FeedsAssumption
<1>3. t = [i \in 1 .. Size[f] |-> <<f, i>>]  BY <1>1 DEF Text
<1>4. \A i \in 1 .. n : t[i] \in Pieces
  <2>1. \A i \in 1 .. n : i \in 1 .. Size[f] /\ i \in Nat  BY <1>2
  <2> QED  BY <1>3, <2>1 DEF Pieces
<1>5. 1 \in Int /\ n \in Int  BY <1>2
<1>6. s \in Seq(Pieces) /\ Len(s) = IF 1 <= n THEN n - 1 + 1 ELSE 0
  BY ONLY <1>1, <1>4, <1>5, SubSeqProperties
<1>7. \A i \in 1 .. n - 1 + 1 : s[i] = t[1 + i - 1]
  BY ONLY <1>1, <1>4, <1>5, SubSeqProperties
<1>8. ASSUME n # 0 PROVE Len(s) = n /\ s[1] = <<f, 1>>
  <2>1. 1 <= n /\ n - 1 + 1 = n /\ 1 \in 1 .. n - 1 + 1 /\ 1 + 1 - 1 = 1 /\ 1 \in 1 .. Size[f]
    BY <1>2, <1>8
  <2>2. s[1] = t[1]  BY <1>7, <2>1
  <2> QED  BY <1>3, <1>6, <2>1, <2>2
<1> QED  BY <1>1, <1>6, <1>8

(* What is in the temporary file after n pieces have arrived.              *)
LEMMA FetchedIs ==
  ASSUME tmpFile \in Seq(Pieces), NEW f \in Feeds, NEW n \in 0 .. Size[f]
  PROVE  /\ Fetched(f, n) \in Seq(Pieces)
         /\ n # 0 => Fetched(f, n) # <<>> /\ Fetched(f, n)[1] = <<f, 1>>
<1>1. PICK s, o, old : s = SubSeq(Text(f), 1, n) /\ o = Fetched(f, n) /\ old = tmpFile  OBVIOUS
<1>2. s \in Seq(Pieces) /\ (n # 0 => Len(s) = n /\ s[1] = <<f, 1>>)  BY <1>1, TextIs
<1>3. o = Overwritten(old, 0, s)  BY <1>1 DEF Fetched
<1>4. old \in Seq(Pieces) /\ 0 \in 0 .. Len(old)
  <2>1. old \in Seq(Pieces)  BY <1>1
  <2>2. Len(old) \in Nat  BY <2>1, LenProperties
  <2> QED  BY <2>1, <2>2
<1>5. o \in Seq(Pieces) /\ Ends(o, 0, s)  BY <1>2, <1>3, <1>4, OverwrittenIs
<1>6. Len(o) = IF 0 + Len(s) <= Len(old) THEN Len(old) ELSE 0 + Len(s)
  BY <1>2, <1>3, <1>4, OverwrittenIs
<1>7. ASSUME n # 0 PROVE o # <<>> /\ o[1] = <<f, 1>>
  <2>1. n \in Nat /\ Len(s) = n /\ 1 \in 1 .. n  BY <1>2, <1>7, FeedsAssumption
  <2>2. PICK i : i = 0 + 1  OBVIOUS
  <2>3. o[0 + 1] = s[1]  BY <1>5, <2>1 DEF Ends
  <2>4. o[1] = s[1]  BY <2>3
  <2>5. Len(o) # 0
    <3>1. Len(old) \in Nat  BY <1>4, LenProperties
    <3> QED  BY <1>6, <2>1, <3>1
  <2>6. o # <<>>  BY <2>5, EmptySeq
  <2> QED  BY <1>2, <1>7, <2>4, <2>6
<1> QED  BY <1>1, <1>5, <1>7

(* A document made of the file is that of the feed that arrived.           *)
LEMMA DocumentIs ==
  ASSUME tmpFile \in Seq(Pieces), NEW f \in Feeds, NEW n \in 0 .. Size[f], n # 0
  PROVE  ResetDoc(Fetched(f, n)) = mXMLDoc \/ ResetDoc(Fetched(f, n)) = f
<1>1. PICK o : o = Fetched(f, n)  OBVIOUS
<1>2. o # <<>> /\ o[1] = <<f, 1>>  BY <1>1, FetchedIs
<1>3. ASSUME NEW d \in Documents(o) PROVE d = f
  <2>1. d \in Feeds /\ o = Text(d) /\ Size[d] \in Nat  BY FeedsAssumption DEF Documents
  <2>2. PICK k : k = Size[d]  OBVIOUS
  <2>3. o = [i \in 1 .. k |-> <<d, i>>]  BY <2>1, <2>2 DEF Text
  <2>4. k # 0
    <3>1. SUFFICES ASSUME k = 0 PROVE FALSE  OBVIOUS
    <3>2. 1 .. k = {}  BY <3>1
    <3>3. o = <<>>  BY <2>3, <3>2
    <3> QED  BY <1>2, <3>3
  <2>5. 1 \in 1 .. k  BY <2>1, <2>2, <2>4
  <2>6. o[1] = <<d, 1>>  BY <2>3, <2>5
  <2> QED  BY <1>2, <2>6
<1>4. ResetDoc(o) = IF Documents(o) = {} THEN mXMLDoc ELSE CHOOSE d \in Documents(o) : TRUE
  BY DEF ResetDoc
<1>5. CASE Documents(o) = {}  BY <1>1, <1>4, <1>5
<1>6. CASE Documents(o) # {}
  <2>1. ResetDoc(o) \in Documents(o)  BY <1>4, <1>6
  <2> QED  BY <1>1, <1>3, <2>1
<1> QED  BY <1>5, <1>6

(* What a view of a subscription does.                                     *)
LEMMA ViewDoes ==
  ASSUME BookInv, ViewInv, NEW id \in 1 .. Len(Names),
         NEW n \in UNION {0 .. Size[f] : f \in Feeds}, View(id, n)
  PROVE  \E url \in Range(mSubUrls) :
           /\ url \in Urls /\ Site[url] \in Feeds
           /\ mode = "list" /\ chosen = NoUrl /\ tmpFile' \in Seq(Pieces)
           /\ mXMLDoc' = mXMLDoc \/ mXMLDoc' = Site[url]
           /\ \/ UNCHANGED <<mode, chosen, mFeedInfo>>
              \/ /\ mode' = "dir" /\ chosen' = url /\ mXMLDoc' # NoFeed
                 /\ mFeedInfo' \in {mXMLDoc', NoFeed}
           /\ UNCHANGED book
<1>1. PICK url : url = mSubUrls[Selected(id)]  OBVIOUS
<1>2. PICK f : f = Site[url]  OBVIOUS
<1>3. PICK doc : doc = IF n = 0 THEN mXMLDoc ELSE ResetDoc(Fetched(f, n))  OBVIOUS
<1>4. /\ mode = "list" /\ id + 1 <= Cardinality(DOMAIN mSubUrls) /\ n <= Size[f]
      /\ tmpFile' = Fetched(f, n) /\ mXMLDoc' = doc /\ UNCHANGED book
  BY <1>1, <1>2, <1>3 DEF View
<1>5. IF doc = NoFeed \/ Kind[doc] = "other"
      THEN UNCHANGED <<mode, chosen, mFeedInfo>>
      ELSE /\ mode' = "dir"
           /\ chosen' = url
           /\ mFeedInfo' = IF Kind[doc] = "rss" THEN doc ELSE NoFeed
  BY <1>1, <1>2, <1>3 DEF View
<1>6. Selected(id) \in DOMAIN mSubUrls
  <2>1. id \in Nat  BY NamesList
  <2> QED  BY <1>4, <2>1, SelectedIs DEF BookInv
<1>7. url \in Range(mSubUrls) /\ url \in Urls  BY <1>1, <1>6, BookIs DEF Range, BookInv
<1>8. f \in Feeds /\ Size[f] \in Nat  BY <1>2, <1>7, FeedsAssumption
<1>9. n \in 0 .. Size[f]
  <2>1. PICK g \in Feeds : n \in 0 .. Size[g]  OBVIOUS
  <2>2. n \in Nat  BY <2>1, FeedsAssumption
  <2> QED  BY <1>4, <1>8, <2>2
<1>10. tmpFile \in Seq(Pieces) /\ chosen = NoUrl  BY <1>4 DEF ViewInv
<1>11. tmpFile' \in Seq(Pieces)  BY <1>4, <1>8, <1>9, <1>10, FetchedIs
<1>12. doc = mXMLDoc \/ doc = f
  <2>1. CASE n = 0  BY <1>3, <2>1
  <2>2. CASE n # 0  BY <1>3, <1>8, <1>9, <1>10, <2>2, DocumentIs
  <2> QED  BY <2>1, <2>2
<1>13. \/ UNCHANGED <<mode, chosen, mFeedInfo>>
       \/ /\ mode' = "dir" /\ chosen' = url /\ mXMLDoc' # NoFeed
          /\ mFeedInfo' \in {mXMLDoc', NoFeed}
  BY <1>4, <1>5
<1> QED  BY <1>2, <1>4, <1>7, <1>8, <1>10, <1>11, <1>12, <1>13

(* No url is the empty text.                                               *)
LEMMA NoUrlIsNone == NoUrl \notin Urls
BY TextsAre DEF NoUrl

LEMMA GoneKeepsView ==
  ASSUME ViewInv, Gone, Forgotten
  PROVE  ViewInv'
<1>1. /\ mode' = "off" /\ tmpFile' = tmpFile /\ mXMLDoc' = NoFeed /\ mFeedInfo' = NoFeed
      /\ chosen' = NoUrl /\ plugins' = {}
  BY DEF Gone, Forgotten
<1> QED  BY <1>1 DEF ViewInv, Modes

LEMMA LoadKeepsView == ASSUME ViewInv, StartStep PROVE ViewInv'
<1>1. CASE Start \/ EnterLoop
  <2>1. /\ mode \in {"off", "load"} /\ mode' \in {"load", "main"}
        /\ UNCHANGED <<tmpFile, mXMLDoc, chosen, mFeedInfo, plugins>>
    <3>1. CASE Start  BY <3>1 DEF Start, view
    <3>2. CASE EnterLoop  BY <3>2 DEF EnterLoop, view, settings
    <3> QED  BY <1>1, <3>1, <3>2
  <2> QED  BY <2>1 DEF ViewInv, Modes
<1>2. ASSUME NEW p \in Plugins, LoadPlugin(p) PROVE ViewInv'
  <2>1. /\ mode = "load" /\ mode' = "load" /\ plugins' = plugins \cup {p}
        /\ UNCHANGED <<tmpFile, chosen, mFeedInfo>>
        /\ mXMLDoc' = NoFeed \/ mXMLDoc' = mXMLDoc
    BY <1>2 DEF LoadPlugin, ToLoad, Make, view
  <2> QED  BY <2>1 DEF ViewInv, Modes
<1>3. ASSUME NEW p \in Plugins, LoadFails(p) PROVE ViewInv'  BY <1>3, GoneKeepsView DEF LoadFails
<1> QED  BY <1>1, <1>2, <1>3 DEF StartStep

LEMMA NextKeepsView ==
  ASSUME BookInv, ViewInv, [Next]_vars
  PROVE  ViewInv'
<1>1. CASE StartStep  BY <1>1, LoadKeepsView
<1>2. CASE Leave  BY <1>2, GoneKeepsView DEF Leave
<1>3. CASE Crash  BY <1>3, GoneKeepsView DEF Crash
<1>4. CASE ConfStep
  <2>1. /\ UNCHANGED <<view, plugins>>
        /\ mode \in {"main", "conf", "save"} /\ mode' \in {"main", "conf", "save"}
    <3>1. CASE Configure  BY <3>1 DEF Configure
    <3>2. CASE ExitConf
      <4>1. mode' = "save" \/ mode' = "main"  BY <3>2 DEF ExitConf
      <4> QED  BY <3>2, <4>1 DEF ExitConf
    <3>3. CASE SaveConf  BY <3>3 DEF SaveConf
    <3>4. ASSUME NEW p, AddPlugin(p) \/ RemovePlugin(p)
          PROVE  /\ UNCHANGED <<view, plugins>>
                 /\ mode \in {"main", "conf", "save"} /\ mode' \in {"main", "conf", "save"}
      <4>1. mode = "conf" /\ UNCHANGED <<mode, view, plugins>>
        BY <3>4 DEF AddPlugin, RemovePlugin
      <4> QED  BY <4>1
    <3> QED  BY <1>4, <3>1, <3>2, <3>3, <3>4 DEF ConfStep
  <2> QED  BY <2>1 DEF ViewInv, view, Modes
<1>5. CASE UNCHANGED vars
  <2>1. UNCHANGED <<mode, tmpFile, mXMLDoc, chosen, mFeedInfo, plugins>>
    BY <1>5 DEF vars, settings, readerVars, view
  <2> QED  BY <2>1 DEF ViewInv
<1>6. ASSUME Reader \in plugins, UNCHANGED settings,
             Looks \/ ImportFromGoogleReader \/ Quit \/ DumpWrite \/ DumpEnds
      PROVE  ViewInv'
  <2>0. plugins' = plugins  BY <1>6 DEF settings
  <2>1. CASE ImportFromGoogleReader \/ Quit \/ DumpWrite \/ DumpEnds \/ Exec \/ GetIn \/ LeaveList
    <3>1. UNCHANGED view /\ mode \notin {"dir", "article"}
          /\ mode' \in {"main", "menu", "list", "dump"}
      <4>1. CASE ImportFromGoogleReader \/ Quit  BY <4>1 DEF ImportFromGoogleReader, Quit
      <4>2. CASE DumpWrite \/ DumpEnds  BY <4>2 DEF DumpWrite, DumpEnds
      <4>3. CASE Exec \/ GetIn \/ LeaveList  BY <4>3 DEF Exec, GetIn, LeaveList
      <4> QED  BY <2>1, <4>1, <4>2, <4>3
    <3> QED  BY <2>0, <3>1 DEF ViewInv, view, Modes
  <2>2. CASE ChooseItem \/ ShowItem
    <3>1. mode \in {"dir", "article"}  BY <2>2 DEF ChooseItem, ShowItem
    <3>2. CASE GoOn("dir") \/ GoOn("article")
      <4>1. UNCHANGED view /\ mode' \in {"dir", "article"}  BY <3>2 DEF GoOn
      <4> QED  BY <2>0, <3>1, <4>1 DEF ViewInv, view, Modes
    <3>3. CASE LeaveView
      <4>1. mode' = "list" /\ chosen' = NoUrl /\ mFeedInfo' = NoFeed /\ UNCHANGED <<tmpFile, mXMLDoc>>
        BY <3>3 DEF LeaveView
      <4> QED  BY <2>0, <4>1 DEF ViewInv, Modes
    <3> QED  BY <2>2, <3>2, <3>3 DEF ChooseItem, ShowItem
  <2>3. ASSUME NEW id \in 1 .. Len(Names), NEW n \in UNION {0 .. Size[f] : f \in Feeds}, View(id, n)
        PROVE  ViewInv'
    <3>1. PICK url \in Range(mSubUrls) :
             /\ url \in Urls /\ Site[url] \in Feeds
             /\ mode = "list" /\ chosen = NoUrl /\ tmpFile' \in Seq(Pieces)
             /\ mXMLDoc' = mXMLDoc \/ mXMLDoc' = Site[url]
             /\ \/ UNCHANGED <<mode, chosen, mFeedInfo>>
                \/ /\ mode' = "dir" /\ chosen' = url /\ mXMLDoc' # NoFeed
                   /\ mFeedInfo' \in {mXMLDoc', NoFeed}
             /\ UNCHANGED book
      BY <2>3, ViewDoes
    <3>2. mXMLDoc' \in Feeds \cup {NoFeed} /\ mFeedInfo' \in Feeds \cup {NoFeed}
      BY <3>1 DEF ViewInv
    <3>3. (mode' = "list" /\ chosen' = NoUrl) \/ (mode' = "dir" /\ chosen' \in Urls)
      BY <3>1
    <3> QED  BY <2>0, <3>1, <3>2, <3>3, NoUrlIsNone DEF ViewInv, Modes
  <2> QED  BY <1>6, <2>1, <2>2, <2>3 DEF Looks
<1> QED  BY <1>1, <1>2, <1>3, <1>4, <1>5, <1>6, NextIs

-----------------------------------------------------------------------------
(* All three together.                                                     *)
ProgramInv == ConfInv /\ BookInv /\ ViewInv

LEMMA ProgramInvariant == Spec => []ProgramInv
<1>1. Init => ProgramInv  BY StartKeeps, InitBook, InitView DEF ProgramInv
<1>2. ProgramInv /\ [Next]_vars => ProgramInv'
  <2> SUFFICES ASSUME ProgramInv, [Next]_vars PROVE ProgramInv'  OBVIOUS
  <2>1. ConfInv'  BY StepKeeps DEF ProgramInv
  <2>2. BookInv'  BY NextKeepsBook DEF ProgramInv
  <2>3. ViewInv'  BY NextKeepsView DEF ProgramInv
  <2> QED  BY <2>1, <2>2, <2>3 DEF ProgramInv
<1> QED  BY <1>1, <1>2, PTL DEF Spec

LEMMA ProgramTyped == ASSUME ProgramInv PROVE TypeOK
<1>1. ConfInv /\ BookInv /\ ViewInv  BY DEF ProgramInv
<1>2. ToSet(Names) = Range(Names)  BY DEF ToSet, Range
<1>3. DOMAIN mSubUrls \subseteq ToSet(Names) /\ Range(mSubUrls) \subseteq Urls
  BY <1>1, <1>2, BookIs DEF BookInv, Range
<1>4. subFile \in Seq(Chars) /\ position \in Nat /\ position <= Len(subFile)
  <2>1. mSubUrls \in Books  BY <1>1 DEF BookInv
  <2>2. CASE mode = "dump"
    <3>1. PICK T, k : /\ T = Texts(mSubUrls) /\ k \in 0 .. Len(T)
                      /\ position = Len(Written(T)[k]) /\ Dumped(mSubUrls, subFile, k)
      BY <1>1, <2>2 DEF BookInv
    <3>2. T \in Seq(Seq(Chars))  BY <2>1, <3>1, TextsIs
    <3>3. Written(T)[k] \in Seq(Chars)  BY <3>1, <3>2, WrittenIs
    <3>4. position \in Nat  BY <3>1, <3>3, LenProperties
    <3> QED  BY <3>1, <3>4 DEF Dumped, Begins
  <2>3. CASE mode # "dump"
    <3>1. position = 0 /\ \E m \in Books : subFile = File(m)  BY <1>1, <2>3 DEF BookInv
    <3>2. subFile \in Seq(Chars)  BY <3>1, FileType
    <3>3. Len(subFile) \in Nat  BY <3>2, LenProperties
    <3> QED  BY <3>1, <3>2, <3>3
  <2> QED  BY <2>2, <2>3
<1>5. Range(subFile) \subseteq Chars /\ position \in 0 .. Len(subFile)
  <2>1. DOMAIN subFile = 1 .. Len(subFile) /\ Len(subFile) \in Nat  BY <1>4, LenProperties
  <2>2. \A i \in DOMAIN subFile : subFile[i] \in Chars  BY <1>4, <2>1, ElementOfSeq
  <2> QED  BY <1>4, <2>1, <2>2 DEF Range
<1>6. (chosen = NoUrl) = (mode \notin {"dir", "article"})  BY <1>1 DEF ViewInv
<1>7. ToSet(content) \cup ToSet(conf) \cup plugins \subseteq Plugins
  <2>1. ASSUME NEW s \in Seq(Plugins) PROVE ToSet(s) \subseteq Plugins
    <3>1. \A i \in DOMAIN s : s[i] \in Plugins  BY LenProperties, ElementOfSeq
    <3> QED  BY <3>1 DEF ToSet
  <2>2. ToSet(content) \subseteq Plugins /\ ToSet(conf) \subseteq Plugins /\ plugins \subseteq Plugins
    BY <1>1, <2>1 DEF ConfInv, ViewInv
  <2> QED  BY <2>2
<1> QED  BY <1>1, <1>3, <1>5, <1>6, <1>7 DEF TypeOK, ViewInv, Modes

(* Every state of the program has its type: the file position never passes *)
(* the end of the subscription file, and nothing but names, urls and line  *)
(* ends gets into it.                                                      *)
THEOREM TypeCorrect == Spec => []TypeOK
<1>1. ProgramInv => TypeOK  BY ProgramTyped
<1> QED  BY <1>1, ProgramInvariant, PTL

(* Only a view makes a document the current one.                           *)
LEMMA OnlyViews ==
  ASSUME ProgramInv, Next, mXMLDoc' \notin {mXMLDoc, NoFeed}
  PROVE  \E id \in 1 .. Len(Names), n \in UNION {0 .. Size[f] : f \in Feeds} : View(id, n)
<1>1. CASE StartStep
  <2>1. CASE Start \/ EnterLoop
    <3>1. mXMLDoc' = mXMLDoc  BY <2>1 DEF Start, EnterLoop, view
    <3> QED  BY <3>1
  <2>2. ASSUME NEW p \in Plugins, LoadPlugin(p) \/ LoadFails(p) PROVE FALSE
    <3>1. mXMLDoc' = NoFeed \/ mXMLDoc' = mXMLDoc  BY <2>2 DEF LoadPlugin, LoadFails, Gone, Make, view
    <3> QED  BY <3>1
  <2> QED  BY <1>1, <2>1, <2>2 DEF StartStep
<1>2. CASE Leave \/ Crash
  <2>1. mXMLDoc' = NoFeed  BY <1>2 DEF Leave, Crash, Gone
  <2> QED  BY <2>1
<1>3. CASE ConfStep
  <2>1. mXMLDoc' = mXMLDoc
    BY <1>3 DEF ConfStep, Configure, ExitConf, SaveConf, AddPlugin, RemovePlugin, view
  <2> QED  BY <2>1
<1>4. CASE Looks \/ ImportFromGoogleReader \/ Quit \/ DumpWrite \/ DumpEnds
  <2>1. CASE ImportFromGoogleReader \/ Quit \/ DumpWrite \/ DumpEnds \/ Exec \/ GetIn \/ LeaveList
    <3>1. mXMLDoc' = mXMLDoc
      BY <2>1 DEF ImportFromGoogleReader, Quit, DumpWrite, DumpEnds, Exec, GetIn, LeaveList, view
    <3> QED  BY <3>1
  <2>2. CASE ChooseItem \/ ShowItem
    <3>1. mXMLDoc' = mXMLDoc  BY <2>2 DEF ChooseItem, ShowItem, GoOn, LeaveView, view
    <3> QED  BY <3>1
  <2> QED  BY <1>4, <2>1, <2>2 DEF Looks
<1> QED  BY <1>1, <1>2, <1>3, <1>4, NextIs

(* A document that becomes the current one is that of a subscription, and  *)
(* shown for the subscription it belongs to, whatever the temporary file   *)
(* held before and wherever the transfer broke off.                        *)
THEOREM DocumentsShown == Spec => DocumentIsOfChosen
<1>1. ASSUME ProgramInv, [Next]_vars
      PROVE  [mXMLDoc' \notin {mXMLDoc, NoFeed} =>
                /\ \E u \in Range(mSubUrls) : Site[u] = mXMLDoc'
                /\ chosen' # NoUrl => Site[chosen'] = mXMLDoc']_vars
  <2> SUFFICES ASSUME Next, mXMLDoc' \notin {mXMLDoc, NoFeed}
               PROVE  /\ \E u \in Range(mSubUrls) : Site[u] = mXMLDoc'
                      /\ chosen' # NoUrl => Site[chosen'] = mXMLDoc'
    BY <1>1
  <2>1. PICK id \in 1 .. Len(Names), n \in UNION {0 .. Size[f] : f \in Feeds} : View(id, n)
    BY <1>1, OnlyViews
  <2>2. BookInv /\ ViewInv  BY <1>1 DEF ProgramInv
  <2>3. PICK url \in Range(mSubUrls) :
           /\ url \in Urls /\ Site[url] \in Feeds
           /\ mode = "list" /\ chosen = NoUrl /\ tmpFile' \in Seq(Pieces)
           /\ mXMLDoc' = mXMLDoc \/ mXMLDoc' = Site[url]
           /\ \/ UNCHANGED <<mode, chosen, mFeedInfo>>
              \/ /\ mode' = "dir" /\ chosen' = url /\ mXMLDoc' # NoFeed
                 /\ mFeedInfo' \in {mXMLDoc', NoFeed}
           /\ UNCHANGED book
    BY <2>1, <2>2, ViewDoes
  <2> QED  BY <2>3
<1> QED  BY <1>1, ProgramInvariant, PTL DEF DocumentIsOfChosen, Spec
=============================================================================
