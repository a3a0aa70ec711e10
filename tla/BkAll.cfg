CONSTANTS
  r1 = r1  r2 = r2  x1 = x1  x2 = x2
  b1 = b1  u1 = u1  c1 = c1  s1 = s1  n1 = n1  v1 = v1
  AuthUser = {u1}
  Browser = {b1}
  UserOf <- OneUser
  Session = {x1, x2}
  AuthRequest = {r1, r2}
  NoSession = NoSession
  NoBrowser = NoBrowser
  AuthFaults <- AuthFaultKind
  Tenant = {x1, x2}
  Code = {c1}
  Schema = {s1}
  SchemaName <- OneSchema
  Email = {e1, e2}
  Otp = {o1}
  TenantRequest = {r1, r2}
  NoTenant = NoTenant
  NoOtp = NoOtp
  MaxOtpAttempts = 1
  Reminder = {m1}
  Title = {t1, t2}
  Payment = {x1, x2}
  PaidValue = {v1, v2}
  PayRequest = {r1, r2}
  NoPayment = NoPayment
  MaxEdits = 1
  Category = {x1, x2, x3}
  Name = {n1}
  Budget = {g1}
  MasterRequest = {r1, r2}
  NoCategory = NoCategory
  Defaults <- OneDefault
  MaxBudgetIds = 1
  Term <- SomeTerms
  NoEnd = NoEnd
  Date = {1, 2}
  Today = 2
  Account = {x1, x2}
  PhoneNumber = {p1}
  LinkCode = {k1}
  LinkRequest = {r1, r2}
  NoAccount = NoAccount
  NoPhone = NoPhone
  Chat = {h1}
  ChatProcess = {q1, q2}
  ChatHandler = {r1, r2}
  Scan = {x1, x2}
  NoScan = NoScan
  ChatTx = {x1, x2}
  RowType = {"expense", "transfer"}
  FieldValue = {v1, v2}
  ChatCategory = {r1, r2}
  ChatName = {n0, n1}
  Nameless = n0
  ChatMessage <- OneFieldEach
  CommandHandler = {h1}
  NoChatCategory = NoChatCategory
  Unsaid = Unsaid
  PageCode = {"gemini", "openai", "claude"}
  OwnCode = {"openai"}
  NoCode = NoCode
  Membership = {m1}
  Role = {x1, x2}
  MemberRequest = {r1, r2}
  NoMember = NoMember
  Document = {x1, x2}
  DocRequest = {r1, r2}
  NoDocument = NoDocument
  Workspace = {w1}
  Item = {i1}
  BackupFile = {f1}
  BackupJob = {r1, r2}
  NoBackup = NoBackup
  Updater = {r1, r2}
  MaxVersion = 2
  Viewer = {q1}
  MaxRow = 3
  MaxCounted = 2
  PageSize = 1
  MaxWrites = 2
  Group = {"food", "moved"}
  KindOf <- Kinds
  TopLimit = 1
  RecentLimit = 1
  NoFigures = NoFigures
  LoginRequest = {r1, r2}
  MaxFailed = 2
  SignIn = {r1, r2}
  LoginLimit = 2
  ApiLimit = 3
  Holder = {x1, x2}
  NoHolder = NoHolder
  Caller = {r1, r2, x1, x2}
  MaxOpen = 2
SPECIFICATION BackendSpec
INVARIANTS
  BackendTypeOK
  RevokedSessionHasNoToken ReuseIsExplained OldTokenIsDead
  SharedSchemaIsExplained UnusableIsExplained
  EntriesAccounted
  TwinsAreExplained FoundAsCounted
  LinkedTwiceIsExplained
  ScanAccounted
  ProvidersAgree
  ViewsAreExplained
  RolesAsAsked
  DocumentsAccounted
  RowsKeepTheirObjects
  UpdatesAreSound
  LimitsAreExplained
  IntakeIsRight
  PoolIsSound
PROPERTY
  UnaskedChangeIsExplained
SYMMETRY Alike
CHECK_DEADLOCK FALSE
