-------------------------------- MODULE CLPIM --------------------------------
(***************************************************************************)
(* The program: main (bin/CLPIM.cpp) loads the plugins its configuration   *)
(* names and runs the command loop, ConfManager (common/ConfManager.cpp)   *)
(* keeps the configuration, the RSS reader (module RSSReader) is one of    *)
(* the plugins.  The process may be killed at any time and started again.  *)
(* The configuration file is a sequence of words, which a user may have    *)
(* written by hand.                                                        *)
(***************************************************************************)
EXTENDS RSSReader

CONSTANTS Plugins,     (* the words of the file and of the user            *)
          Ignored,     (* those of one character, or that begin with a #   *)
          Installed,   (* the names with a file lib<name>.so among the     *)
                       (* plugins                                          *)
          Loadable,    (* those whose file is a library with a Maker and a *)
                       (* Cleaner that dlsym finds                         *)
          Reader,      (* the name of the RSS reader                       *)
          FirstConf    (* the configuration file to begin with             *)

ASSUME ReaderAssumption == Reader \in Loadable \ Ignored
ASSUME PluginsAssumption == Loadable \subseteq Installed /\ Installed \subseteq Plugins
ASSUME FirstConfAssumption == FirstConf \in Seq(Plugins)

VARIABLES content,     (* the plugins ConfManager knows                    *)
          conf,        (* the configuration file                           *)
          changed,     (* Run: content differs from the file               *)
          plugins      (* the plugins main has loaded                      *)

settings == <<content, conf, changed, plugins>>
vars == <<readerVars, settings>>

Init ==
  /\ ReaderInit
  /\ content = <<>>
  /\ conf = FirstConf
  /\ changed = FALSE
  /\ plugins = {}

(* The words the constructor of ConfManager keeps of a file.               *)
ReadBack(words) ==
  LET read[n \in 0 .. Len(words)] ==
        IF n = 0 THEN <<>>
        ELSE IF words[n] \in Ignored THEN read[n - 1] ELSE Append(read[n - 1], words[n])
  IN  read[Len(words)]

(* The constructor of ConfManager reads the file, and main goes on to load *)
(* what it names.                                                          *)
Start ==
  /\ mode = "off"
  /\ mode' = "load"
  /\ content' = ReadBack(conf)
  /\ UNCHANGED <<book, view, conf, changed, plugins>>

(* The plugin that comes next; loading one again that is named twice       *)
(* changes nothing.                                                        *)
ToLoad(p) ==
  /\ mode = "load"
  /\ \E i \in DOMAIN content :
       content[i] = p /\ p \notin plugins /\ \A j \in 1 .. i - 1 : content[j] \in plugins

LoadPlugin(p) ==
  /\ ToLoad(p)
  /\ p \in Loadable
  /\ plugins' = plugins \cup {p}
  /\ IF p = Reader THEN Make ELSE UNCHANGED <<book, view>>
  /\ UNCHANGED <<mode, content, conf, changed>>

Forgotten == /\ content' = <<>>
             /\ changed' = FALSE
             /\ plugins' = {}

(* dlopen or dlsym fails: exit(1), whatever else is configured.            *)
LoadFails(p) ==
  /\ ToLoad(p)
  /\ p \notin Loadable
  /\ Gone
  /\ Forgotten
  /\ UNCHANGED conf

(* Everything is loaded, and main enters its loop.                         *)
EnterLoop ==
  /\ mode = "load"
  /\ ToSet(content) \subseteq plugins
  /\ mode' = "main"
  /\ UNCHANGED <<book, view, settings>>

(* main returns.                                                           *)
Leave == /\ mode = "main"
         /\ Gone
         /\ Forgotten
         /\ UNCHANGED conf

(* The process is killed, except while DumpSubs writes.  The configuration *)
(* file is empty if that happens while ConfManager::Run writes it.         *)
Crash == /\ mode \notin {"off", "dump"}
         /\ Gone
         /\ Forgotten
         /\ UNCHANGED conf

(* It is killed while DumpSubs writes.                                     *)
CrashInDump == /\ mode = "dump"
               /\ Gone
               /\ Forgotten
               /\ UNCHANGED conf

Configure == /\ mode = "main"
             /\ mode' = "conf"
             /\ changed' = FALSE
             /\ UNCHANGED <<book, view, content, conf, plugins>>

(* The file of the plugin is opened to see that it is there, no more.      *)
AddPlugin(p) ==
  /\ mode = "conf"
  /\ p \notin ToSet(content)
  /\ p \in Installed
  /\ content' = Append(content, p)
  /\ changed' = TRUE
  /\ UNCHANGED <<mode, book, view, conf, plugins>>

(* std::find: the first of the names that is p.                            *)
Found(p, i) == content[i] = p /\ \A j \in 1 .. i - 1 : content[j] # p

(* Seeded fault: removing a plugin is not noted as a change.               *)
RemovePlugin_Unnoted(p) ==
  /\ mode = "conf"
  /\ \E i \in DOMAIN content : Found(p, i) /\ content' = RemoveAt(content, i)
  /\ UNCHANGED <<mode, book, view, conf, changed, plugins>>

RemovePlugin(p) ==
  /\ mode = "conf"
  /\ \E i \in DOMAIN content : Found(p, i) /\ content' = RemoveAt(content, i)
  /\ changed' = TRUE
  /\ UNCHANGED <<mode, book, view, conf, plugins>>

(* fopen with "w" empties the file; it is written before fclose returns.   *)
ExitConf ==
  /\ mode = "conf"
  /\ IF changed THEN mode' = "save" /\ conf' = <<>>
                ELSE mode' = "main" /\ UNCHANGED conf
  /\ UNCHANGED <<book, view, content, changed, plugins>>

SaveConf ==
  /\ mode = "save"
  /\ mode' = "main"
  /\ conf' = content
  /\ UNCHANGED <<book, view, content, changed, plugins>>

ReaderStep ==
  /\ Reader \in plugins
  /\ ReaderNext
  /\ UNCHANGED settings

ConfStep ==
  \/ Configure \/ ExitConf \/ SaveConf
  \/ \E p \in Plugins : AddPlugin(p) \/ RemovePlugin(p)

StartStep ==
  \/ Start \/ EnterLoop
  \/ \E p \in Plugins : LoadPlugin(p) \/ LoadFails(p)

Next == StartStep \/ Leave \/ Crash \/ ReaderStep \/ ConfStep

Spec == Init /\ [][Next]_vars

(* The same program, killed also while the subscription file is rewritten. *)
CrashSpec == Init /\ [][Next \/ CrashInDump]_vars
==============================================================================
