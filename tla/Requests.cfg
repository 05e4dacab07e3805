SPECIFICATION MCSpec
CONSTANTS
  Cli = {c1, c2}
  Daemon = {d1, d2}
  Nobody = Nobody
  MaxConfig = 0
  Slow = TRUE
  Interrupts = TRUE
  Crashes = TRUE
  LoadMayFail = FALSE
  Text <- Texts
  NoText = Nobody
  Prefix <- PrefixOf
  Lower <- LowerCase
  Length <- Lengths
  Rank <- Ranks
  Within <- Containing
  IdLike = {"zhang88", "cand77", "wxid_a", "gh_x", "g@chatroom"}
  Users = {"wxid_a", "zhang88", "gh_x", "g@chatroom"}
  Shown = {"Ann", "ann", "anna"}
  Cards = {"boss"}
  Noise = {"xx", "cand77"}
  MaxContacts = 2
  MaxChunks = 2
  LocalIds = {1}
  MaxMonth = 2
  Delays = {1}
  Picture = {"jpg", "png"}
  Jpg = {"jpg"}
  Sizes <- SizesOf
  Bytes = 3
  Block = 2
  Layout <- LayoutOf
  MinSamples = 2
  MaxResources = 2
  MaxDats = 2
  NoPicture = Nobody
  Times = {1, 2}
  Milli = 10
  MilliFrom = 5
  Types = {"private", "group"}
  Shards = {"s1", "s2"}
  Bases = {3, 49}
  Image = 3
  AppMsg = 49
  AnyBase = 0
  Senders = {"u"}
  Chat = "chat"
  NoOne = "nobody"
  Accounts = {"gh_a", "b"}
  Gh = {"gh_a"}
  Limits = {1, 2}
  Offsets = {0, 1}
  MaxScan = 2
  MaxRows = 3
SYMMETRY Symmetry
INVARIANTS ShownResolves NicknamesBelong  
INVARIANTS NewestFirst EveryUnreadAccount StatsAddUp
 
CHECK_DEADLOCK FALSE
