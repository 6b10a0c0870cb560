CONSTANTS
  None = None
  Space = Space
  Ampersand = Ampersand
  AmpReference = AmpReference
  Cut = Cut
  Suppress = Suppress
  Feed = Feed
  Garbled = Garbled
  NotObject = NotObject
  DoiA = DoiA
  DoiB = DoiB
  Word = Word
  ErrorUrl = ErrorUrl
  Article = Article
  Book = Book
  Note = Note
  ArxivIds <- MCArxivIds
  MaxVersion = 2
  Statuses = {200, 404, 503}
  Configs <- MCConfigs
  OverrideBodies <- MCOverrideBodies
  DoiBodies <- MCDoiBodies
  BibBodies <- MCBibBodies
SPECIFICATION Spec
INVARIANTS OneAnswerPerKey MissingIsHeard DataIsHeard FeedReadFaithfully RightEntryAnswers RecordKept
