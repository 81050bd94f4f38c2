\* Plugins that load, that do not load and that are not read back, three subscriptions, a longer and a shorter feed.
SPECIFICATION Spec
CONSTANTS
  Names <- MCNames
  Urls <- MCUrls
  Feeds <- MCFeeds
  Site <- MCSite
  Size <- MCSize
  Kind <- MCKind
  Plugins = {"rssreader", "todo", "x", "#todo"}
  Ignored = {"x", "#todo"}
  Installed = {"rssreader", "todo", "x"}
  Loadable = {"rssreader"}
  Reader = "rssreader"
  FirstConf <- MCConf
INVARIANT TypeOK
PROPERTIES
  ImplementsList
  ImplementsBook
  DocumentIsOfChosen
