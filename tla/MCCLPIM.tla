------------------------------- MODULE MCCLPIM -------------------------------
(* Bounded instances of CLPIM.                                             *)
EXTENDS CLPIM

MCConf  == <<"#todo", "rssreader">>
MCNames == <<<<"a">>, <<"b", "b">>, <<"c">>>>
MCUrls  == {<<"u">>, <<"v", "v">>}
Chars == UNION {Range(t) : t \in ToSet(Names) \cup Urls \cup {<<NewLine>>}}
MCSite  == [u \in MCUrls |-> IF u = <<"u">> THEN "long" ELSE "short"]
MCFeeds == {"long", "short"}
MCSize  == [f \in MCFeeds |-> IF f = "long" THEN 2 ELSE 1]
MCKind  == [f \in MCFeeds |-> IF f = "long" THEN "rss" ELSE "atom"]
-----------------------------------------------------------------------------
(* The state has its type.                                                 *)
TypeOK ==
  /\ mode \in {"off", "load", "main", "menu", "list", "dir", "article", "dump", "conf", "save"}
  /\ DOMAIN mSubUrls \subseteq ToSet(Names) /\ Range(mSubUrls) \subseteq Urls
  /\ Range(subFile) \subseteq Chars
  /\ position \in 0..Len(subFile)
  /\ mXMLDoc \in Feeds \cup {NoFeed} /\ mFeedInfo \in Feeds \cup {NoFeed}
  /\ chosen \in Urls \cup {NoUrl}
  /\ (chosen = NoUrl) = (mode \notin {"dir", "article"})
  /\ ToSet(content) \cup ToSet(conf) \cup plugins \subseteq Plugins

(* The subscription file, rewritten in place, keeps what the reader had    *)
(* when it was quit: over restarts nothing is lost, replaced or invented.  *)
Book == INSTANCE SubscriptionBook WITH
  Names <- ToSet(Names),
  saved <- IF mode = "dump" THEN mSubUrls ELSE Entries(subFile),
  subs <- mSubUrls,
  running <- mode # "off" /\ Reader \in plugins
ImplementsBook == Book!Spec

(* Whatever earlier views and processes left in the temporary file, a      *)
(* document that becomes the current one is that of a subscription, and    *)
(* what is shown then is shown for the subscription it belongs to.         *)
DocumentIsOfChosen ==
  [][mXMLDoc' \notin {mXMLDoc, NoFeed} =>
       /\ \E u \in Range(mSubUrls) : Site[u] = mXMLDoc'
       /\ chosen' # NoUrl => Site[chosen'] = mXMLDoc']_vars

(* Whatever is added and removed in a visit of the menu takes effect as a  *)
(* whole, with the next start and not before, except for words that are    *)
(* not read back; a process killed in the menu leaves the file as it was,  *)
(* and one killed while it is written leaves no plugin.  A program that    *)
(* runs has every plugin of the file it was started with.                  *)
List == INSTANCE PluginList WITH
  Words <- Plugins,
  kept <- ReadBack(conf),
  listed <- IF mode \in {"off", "load"} THEN <<>> ELSE content,
  offered <- IF mode \in {"off", "load"} THEN {} ELSE plugins,
  place <- CASE mode \in {"off", "load"} -> "off"
             [] mode = "conf" -> "visit"
             [] mode = "save" -> "keep"
             [] OTHER -> "on"
ImplementsList == List!Spec

(* ContentViewer shows the feed of the subscription once the whole of it   *)
(* has arrived.                                                            *)
ShowsWhatItFetched ==
  mode = "dir" /\ IsPrefix(Text(Site[chosen]), tmpFile) =>
    mXMLDoc = Site[chosen]
==============================================================================
