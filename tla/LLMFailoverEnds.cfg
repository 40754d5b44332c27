\* A request that awaits a model ends, while another one and new files interfere.
CONSTANTS
  main = main
  backup = backup
  a = a
  b = b
  c = c
  k1 = k1
  k2 = k2
  chat = chat
  dossier = dossier
  openai = openai
  llama = llama
  Requests = {r1, r2}
  Features = {chat, dossier}
  ChatFeature = chat
  Pools = {main, backup}
  Names = {a, b, c}
  Creds = {k1, k2}
  Kinds = {openai, llama}
  SupportedKinds = {openai}
  Files <- FewFiles
  NoModel = NoModel
  NoPool = NoPool
  NoKind = NoKind
  NoClient = NoClient
SPECIFICATION FairSpec
PROPERTIES EveryGenerationEnds
