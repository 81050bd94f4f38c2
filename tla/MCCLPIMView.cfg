\* A shorter feed is viewed after a longer one.
SPECIFICATION Spec
CONSTANTS
  Names <- MCNames
  Urls <- MCUrls
  Feeds <- MCFeeds
  Site <- MCSite
  Size <- MCSize
  Kind <- MCKind
  Plugins = {"rssreader", "todo", "x", "#todo"}
  Ignored = {"x", "#todo"}
  Installed = {"rssreader", "todo", "x"}
  Loadable = {"rssreader"}
  Reader = "rssreader"
  FirstConf <- MCConf
INVARIANT ShowsWhatItFetched
