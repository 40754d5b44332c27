\* Two requests at a time, files that change keys, pools and provider types.
CONSTANTS
  main = main
  backup = backup
  a = a
  b = b
  c = c
  k1 = k1
  k2 = k2
  chat = chat
  dossier = dossier
  openai = openai
  llama = llama
  Requests = {r1, r2}
  Features = {chat, dossier}
  ChatFeature = chat
  Pools = {main, backup}
  Names = {a, b, c}
  Creds = {k1, k2}
  Kinds = {openai, llama}
  SupportedKinds = {openai}
  Files <- AllFiles
  NoModel = NoModel
  NoPool = NoPool
  NoKind = NoKind
  NoClient = NoClient
SYMMETRY Symmetry
SPECIFICATION Spec
INVARIANTS TypeOK CallsUseTheEndpoint OnlyOverridesMisroute
PROPERTIES ImplementsModelPool
