SPECIFICATION AppSpec
CONSTANTS
  Slots = {s1, s2}
  Mobiles = {m1, m2}
  MaxRows = 2
  MaxImports = 2
  MaxFaults = 2
  MaxLost = 1
  MaxCrashes = 1
  None = None
  Sends = {r1, r2}
  MaxSendFaults = 1
  MaxSendCrashes = 1
  TemplateIds = {t1, t2}
  Texts = {x, y}
  DeskSlots = {d1, d2}
  MaxDeskCalls = 2
  MaxDeskFaults = 1
  Blank = Blank
  Absent = Absent
  Lines = {l1, l2}
  MaxLogins = 2
  MaxSessionCalls = 4
  MaxSessionFaults = 1
  Free = Free
  MaxPresses = 1
  Placeholders = {v1, v2}
  Profiles <- TheProfiles
  MaxDrafts = 2
  NoText = NoText
  People = {p1, p2}
  ListedPeople = {p1}
  Campaigns = {k1, k2}
  Flights = {f1, f2}
  MaxOpenings = 2
  MaxPageFaults = 2
  Nothing = Nothing
  Filters = {all, failed}
  SheetFiles = {a, b}
  MaxFound = 2
  ListSlots = {c1, c2}
  MaxActs = 2
  MaxDialogActs = 4
  MaxRowChanges = 1
  Missing = Missing
  HistoryPage = 2
  MaxLedger = 3
  MaxTurns = 3
  MaxListFailures = 1
  Unread = Unread
  Keys = {g1, g2}
  Values = {w1, w2}
  NameKey = g1
  BlankName = BlankName
  Puts = {u1, u2}
  MaxSettingFaults = 1
  Null = Null
  Unset = Unset
  Viewed = {o1, o2}
  Recipients = {n1, n2}
  RenderSlots = {b1, b2}
  RosterSlots = {j1, j2}
  MaxRenders = 5
  MaxRenderFaults = 2
  Nobody = Nobody
  Monitorable = {h1, h2}
  ProgressSlots = {q1, q2}
  MaxDrawers = 2
  MaxProgressCalls = 5
  NoCampaign = NoCampaign
  MaxTests = 2
  MaxStatusRefreshes = 2
  MaxLostAnswers = 2
  Unheard = Unheard
INVARIANTS
  AppTypeOK
  StoredOncePerImport
  ReportsWhatItAdded
  NobodyLeftOut
  RetryableWasRefused
  AnswerAgreesWithHistory
  CustomerShowsHistory
  ListCatchesUp
  SignedInHoldsSession
  UnheardIsMarked
  PlaceholdersSurvive
  WizardSendsOnce
  ListFollowsQuery
  StripAgreesWithDashboard
  SavedSettingsAreStored
  PreviewIsOfItsTemplate
  NumbersAreItsOwnOrOld
  LabelTellsWhatSendsDo
PROPERTIES
  SavedWhereShown
  OnlyDenialSignsOut
  ImportedWasPreviewed
CHECK_DEADLOCK FALSE
