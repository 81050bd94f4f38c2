------------------------------ MODULE RSSReader ------------------------------
(***************************************************************************)
(* The RSS reader plugin (plugins/RSSReader): SubscriptionManager with its *)
(* file, the menu of RSSReader::Exec, SubscriptionViewer, ContentViewer,   *)
(* and FeedParser with the temporary file and the one XercescWrapper all   *)
(* views share.                                                            *)
(*                                                                         *)
(* Files are written in place and never truncated.  The subscription file  *)
(* is a sequence of characters; a feed is a text of Size[f] pieces, and    *)
(* the temporary file a sequence of pieces of feeds.                       *)
(***************************************************************************)
EXTENDS Integers, SequencesExt

CONSTANTS Names,     (* the names, as texts without a line end, in the     *)
                     (* order of the map                                   *)
          Urls,      (* texts without a line end                           *)
          Feeds,     (* what the servers have to offer                     *)
          Site,      (* the feed behind each url                           *)
          Size,      (* its length                                         *)
          Kind       (* "rss", "atom", "rdf" or "other"                    *)

NewLine == "\n"

(* A map holds a name once; the importer drops the entries without a title *)
(* or without a url.                                                       *)
ASSUME NamesAssumption ==
  /\ Names \in Seq(Range(Names))
  /\ \A i, j \in DOMAIN Names : Names[i] = Names[j] => i = j

ASSUME TextsAssumption ==
  \A t \in Range(Names) \cup Urls : t \in Seq(Range(t)) \ {<<>>} /\ NewLine \notin Range(t)

ASSUME FeedsAssumption == Site \in [Urls -> Feeds] /\ Size \in [Feeds -> Nat]

VARIABLES
  mode,         (* where the process stands: "off", "main" (the loop of    *)
                (* main), "menu", "list" (SubscriptionViewer), "dir" and   *)
                (* "article" (ContentViewer), "dump"; the configuration    *)
                (* menu has modes of its own                               *)
  mSubUrls,     (* name to url                                             *)
  subFile,      (* the subscription file                                   *)
  writes,       (* DumpSubs: the texts still to be written                 *)
  position,     (* DumpSubs: the file position                             *)
  tmpFile,      (* /tmp/tmp                                                *)
  mXMLDoc,      (* the feed whose document the wrapper holds, or NoFeed    *)
  chosen,       (* the url of the subscription being viewed                *)
  mFeedInfo     (* the feed whose items are shown, NoFeed for no items     *)

book == <<mSubUrls, subFile, writes, position>>
view == <<tmpFile, mXMLDoc, chosen, mFeedInfo>>
readerVars == <<mode, book, view>>

NoFeed == "no feed"
NoUrl == <<>>
None == [n \in {} |-> {}]

-----------------------------------------------------------------------------
(* write(2) at a position of a file.                                       *)
Overwritten(f, at, text) ==
  SubSeq(f, 1, at) \o text \o SubSeq(f, at + Len(text) + 1, Len(f))

(* ReadLine at a position of a file: the line, the last one ended by the   *)
(* end of the file, and the position after it.                             *)
LineEnd(f, i) == CHOOSE j \in i .. Len(f) + 1 :
                   /\ j > Len(f) \/ f[j] = NewLine
                   /\ \A k \in i .. j - 1 : f[k] # NewLine
LineAt(f, i) == SubSeq(f, i, LineEnd(f, i) - 1)
NextLine(f, i) == IF LineEnd(f, i) > Len(f) THEN Len(f) + 1 ELSE LineEnd(f, i) + 1

Lines(f) ==
  LET lines[i \in 1 .. Len(f) + 1] ==
        IF i > Len(f) THEN <<>> ELSE <<LineAt(f, i)>> \o lines[NextLine(f, i)]
  IN  lines[1]

(* The loop of the constructor: pairs of lines up to an empty name, a name *)
(* that comes twice keeping the later url.                                 *)
Pairs(ls) ==
  LET at == {i \in 1 .. Len(ls) : i % 2 = 1 /\ \A j \in 1 .. i : j % 2 = 1 => ls[j] # <<>>}
  IN  [n \in {ls[i] : i \in at} |->
         LET i == Max({j \in at : ls[j] = n}) IN IF i < Len(ls) THEN ls[i + 1] ELSE <<>>]

(* Its result; the lines are bound by a set, so that TLC splits the file   *)
(* once.                                                                   *)
Entries(f) == CHOOSE m \in {Pairs(ls) : ls \in {Lines(f)}} : TRUE

(* The names of a map in its order.                                        *)
InOrder(m) ==
  LET listed[i \in 0 .. Len(Names)] ==
        IF i = 0 THEN <<>>
        ELSE IF Names[i] \in DOMAIN m THEN Append(listed[i - 1], Names[i])
        ELSE listed[i - 1]
  IN  listed[Len(Names)]

(* What DumpSubs writes of it, four texts for each name.                   *)
Texts(m) ==
  [j \in 1 .. 4 * Len(InOrder(m)) |->
     LET n == InOrder(m)[(j + 3) \div 4]
     IN  IF j % 4 = 1 THEN n ELSE IF j % 4 = 3 THEN m[n] ELSE <<NewLine>>]

-----------------------------------------------------------------------------
ReaderInit ==
  /\ mode = "off"
  /\ mSubUrls = None
  /\ subFile = <<>>
  /\ writes = <<>>
  /\ position = 0
  /\ tmpFile = <<>>
  /\ mXMLDoc = NoFeed
  /\ chosen = NoUrl
  /\ mFeedInfo = NoFeed

(* Maker: a new RSSReader reads the subscription file.                     *)
Make == /\ mSubUrls' = Entries(subFile)
        /\ mXMLDoc' = NoFeed
        /\ UNCHANGED <<subFile, writes, position, tmpFile, chosen, mFeedInfo>>

(* The process ends, by itself or not: what is in memory is gone.          *)
Gone == /\ mode' = "off"
        /\ mSubUrls' = None
        /\ writes' = <<>>
        /\ position' = 0
        /\ mXMLDoc' = NoFeed
        /\ chosen' = NoUrl
        /\ mFeedInfo' = NoFeed
        /\ UNCHANGED <<subFile, tmpFile>>

Exec == /\ mode = "main"
        /\ mode' = "menu"
        /\ UNCHANGED <<book, view>>

(* Seeded fault: an import replaces the url of a known name.               *)
ImportFromGoogleReader_Replace ==
  /\ mode = "menu"
  /\ \E S \in SUBSET ToSet(Names) \ {{}} : \E m \in [S -> Urls] :
       mSubUrls' = [n \in DOMAIN mSubUrls \cup S |-> IF n \in S THEN m[n] ELSE mSubUrls[n]]
  /\ UNCHANGED <<mode, subFile, writes, position, view>>

(* The entries of an exported file are inserted; map::insert keeps the url *)
(* of a name that is there.                                                *)
ImportFromGoogleReader ==
  /\ mode = "menu"
  /\ \E S \in SUBSET ToSet(Names) \ {{}} : \E m \in [S -> Urls] :
       mSubUrls' = [n \in DOMAIN mSubUrls \cup S |->
                      IF n \in DOMAIN mSubUrls THEN mSubUrls[n] ELSE m[n]]
  /\ UNCHANGED <<mode, subFile, writes, position, view>>

(* Command 3: DumpSubs opens the file anew and starts to write.            *)
Quit == /\ mode = "menu"
        /\ mode' = "dump"
        /\ writes' = Texts(mSubUrls)
        /\ position' = 0
        /\ UNCHANGED <<mSubUrls, subFile, view>>

(* Seeded fault: the end of the C string is counted.                       *)
DumpWrite_CountEnd ==
  /\ mode = "dump" /\ writes # <<>>
  /\ subFile' = Overwritten(subFile, position, Head(writes))
  /\ position' = position + Len(Head(writes)) + 1
  /\ writes' = Tail(writes)
  /\ UNCHANGED <<mode, mSubUrls, view>>

(* One Write of DumpSubs.                                                  *)
DumpWrite ==
  /\ mode = "dump" /\ writes # <<>>
  /\ subFile' = Overwritten(subFile, position, Head(writes))
  /\ position' = position + Len(Head(writes))
  /\ writes' = Tail(writes)
  /\ UNCHANGED <<mode, mSubUrls, view>>

DumpEnds ==
  /\ mode = "dump" /\ writes = <<>>
  /\ mode' = "main"
  /\ position' = 0
  /\ UNCHANGED <<mSubUrls, subFile, writes, view>>

-----------------------------------------------------------------------------
(* Command 2.                                                              *)
GetIn == /\ mode = "menu"
         /\ mode' = "list"
         /\ UNCHANGED <<book, view>>

(* The subscriptions are listed from 1; the number entered is used as an   *)
(* index from 0, and the number of the last one is refused.                *)
Selected(id) == InOrder(mSubUrls)[id + 1]

Text(f) == [i \in 1..Size[f] |-> <<f, i>>]

(* SetSource writes the n pieces that arrived over the temporary file, or  *)
(* nothing if no document begins in them.                                  *)
Fetched(f, n) == Overwritten(tmpFile, 0, SubSeq(Text(f), 1, n))

(* The document parse() makes of a file: none if the file is not one feed  *)
(* from its beginning to its end.                                          *)
Documents(file) == {f \in Feeds : file = Text(f)}

(* ResetDoc: after a parse that fails the document is the one before.      *)
ResetDoc(file) ==
  IF Documents(file) = {} THEN mXMLDoc ELSE CHOOSE f \in Documents(file) : TRUE

(* Seeded fault: SetSource goes on to parse when no document has arrived.  *)
View_NoReturn(id, n) ==
  /\ mode = "list"
  /\ id + 1 <= Cardinality(DOMAIN mSubUrls)
  /\ LET url == mSubUrls[Selected(id)]
         f   == Site[url]
         doc == ResetDoc(Fetched(f, n))
     IN  /\ n <= Size[f]
         /\ tmpFile' = Fetched(f, n)
         /\ mXMLDoc' = doc
         /\ IF doc = NoFeed \/ Kind[doc] = "other"
            THEN UNCHANGED <<mode, chosen, mFeedInfo>>
            ELSE /\ mode' = "dir"
                 /\ chosen' = url
                 /\ mFeedInfo' = IF Kind[doc] = "rss" THEN doc ELSE NoFeed
  /\ UNCHANGED book

(* SetSource, whose result View ignores, and Parse.  n pieces of the feed  *)
(* arrive: the request may fail and the answer be cut off.  RSS feeds give *)
(* their items, Atom and RDF feeds give none, anything else is an error.   *)
View(id, n) ==
  /\ mode = "list"
  /\ id + 1 <= Cardinality(DOMAIN mSubUrls)
  /\ LET url == mSubUrls[Selected(id)]
         f   == Site[url]
         doc == IF n = 0 THEN mXMLDoc ELSE ResetDoc(Fetched(f, n))
     IN  /\ n <= Size[f]
         /\ tmpFile' = Fetched(f, n)
         /\ mXMLDoc' = doc
         /\ IF doc = NoFeed \/ Kind[doc] = "other"
            THEN UNCHANGED <<mode, chosen, mFeedInfo>>
            ELSE /\ mode' = "dir"
                 /\ chosen' = url
                 /\ mFeedInfo' = IF Kind[doc] = "rss" THEN doc ELSE NoFeed
  /\ UNCHANGED book

(* After each of its two screens the view goes on with the other, or is    *)
(* left when 0 is entered.                                                 *)
GoOn(other) == /\ mode' = other
               /\ UNCHANGED <<book, view>>

LeaveView == /\ mode' = "list"
             /\ chosen' = NoUrl
             /\ mFeedInfo' = NoFeed
             /\ UNCHANGED <<book, tmpFile, mXMLDoc>>

(* The items are listed, and the number of one is entered.                 *)
ChooseItem == mode = "dir" /\ (GoOn("article") \/ LeaveView)

ShowItem == mode = "article" /\ (GoOn("dir") \/ LeaveView)

(* 0 is entered.                                                           *)
LeaveList == /\ mode = "list"
             /\ mode' = "menu"
             /\ UNCHANGED <<book, view>>

ReaderNext ==
  \/ Exec \/ ImportFromGoogleReader \/ Quit \/ DumpWrite \/ DumpEnds
  \/ GetIn \/ LeaveList \/ ChooseItem \/ ShowItem
  \/ \E id \in 1..Len(Names), n \in UNION {0..Size[f] : f \in Feeds} : View(id, n)
==============================================================================
