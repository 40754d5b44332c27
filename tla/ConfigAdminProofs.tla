------------------------- MODULE ConfigAdminProofs -------------------------
(***************************************************************************)
(* ConfigAdmin's invariants hold for every set of providers, styles,       *)
(* features, tabs and requests and without any bound.                      *)
(***************************************************************************)
EXTENDS ConfigAdmin, FiniteSetTheorems, TLAPS

\* References of a configuration that may not exist are in orphaned.
Covered(raw) ==
  \A f \in DOMAIN raw.settings :
    ValidReference(raw.settings[f].style, styles) \/ raw.settings[f].style \in orphaned

Routed(raw) ==
  \A f \in DOMAIN raw.settings : raw.settings[f].provider \in DOMAIN raw.rows

\* What is between the replacement of the file and its publication.
PublishingInv ==
  \A raw \in publishing :
    /\ publishing = {raw}
    /\ Loadable(raw) /\ Covered(raw)
    /\ ~edited => file = raw

FilesInv ==
  /\ PublishingInv
  /\ ServedIsSaved
  /\ ~edited => Loadable(file)
  /\ Routed(snapshot)
  /\ Covered(file)
  /\ up /\ publishing = {} => Covered(snapshot)
  /\ ~up => publishing = {}

config == <<file, snapshot, publishing, styles, up, edited, orphaned>>
-----------------------------------------------------------------------------
\* The snapshot of a configuration that can be loaded sends no feature to a provider
\* that it does not have.
LEMMA SnapshotIsRouted ==
  ASSUME NEW raw, Loadable(raw)
  PROVE  Routed(BuildSnapshot(raw))
<1>1. (CHOOSE n \in DOMAIN raw.rows : TRUE) \in DOMAIN raw.rows
  BY DEF Loadable
<1> QED
  BY <1>1 DEF Routed, BuildSnapshot, Loadable, NamedStyle

\* Nor does it refer to a style that its configuration does not refer to, default aside.
LEMMA SnapshotIsCovered ==
  ASSUME NEW raw, Covered(raw)
  PROVE  Covered(BuildSnapshot(raw))
<1>1. ValidReference("default", styles)
  BY DEF ValidReference, SelectorOptions, LoadConfiguredStyles
<1> QED
  BY <1>1 DEF Covered, BuildSnapshot, NamedStyle

\* What a valid form is turned into can be loaded, and its styles exist.
LEMMA ValidFormIsLoadable ==
  ASSUME NEW f, ValidForm(f)
  PROVE  /\ Loadable(RawOf(f))
         /\ \A x \in DOMAIN RawOf(f).settings : ValidReference(RawOf(f).settings[x].style, styles)
<1>1. ProviderNames(f.rows) # {}
  BY DEF ValidForm, ProviderNames
<1>2. \A n \in DOMAIN RawOf(f).rows : RawOf(f).rows[n].usable
  <2> SUFFICES ASSUME NEW n \in ProviderNames(f.rows)
               PROVE  RawOf(f).rows[n].usable
    BY DEF RawOf
  <2> DEFINE i == CHOOSE i \in DOMAIN f.rows : f.rows[i].name = n
  <2>1. i \in DOMAIN f.rows
    BY DEF ProviderNames
  <2>2. f.rows[i].usable
    BY <2>1 DEF ValidForm
  <2>3. RawOf(f).rows[n] = [kind |-> f.rows[i].kind, usable |-> f.rows[i].usable]
    BY DEF RawOf
  <2> QED
    BY <2>2, <2>3
<1>3. \A x \in DOMAIN RawOf(f).settings :
        /\ RawOf(f).settings[x].provider \in DOMAIN RawOf(f).rows
        /\ RawOf(f).settings[x].numbers # "no numbers"
        /\ ValidReference(RawOf(f).settings[x].style, styles)
  <2>1. DOMAIN RawOf(f).settings = Features /\ DOMAIN RawOf(f).rows = ProviderNames(f.rows)
    BY DEF RawOf
  <2>2. ASSUME NEW x \in Features
        PROVE  /\ RawOf(f).settings[x].provider \in ProviderNames(f.rows)
               /\ RawOf(f).settings[x].numbers # "no numbers"
               /\ ValidReference(RawOf(f).settings[x].style, styles)
    <3> DEFINE s == [provider |-> f.settings[x].provider, style |-> f.settings[x].style,
                     numbers |-> f.settings[x].numbers]
    <3>1. RawOf(f).settings[x] = s
      BY DEF RawOf
    <3>2. /\ s.provider \in ProviderNames(f.rows) /\ s.numbers # "no numbers"
          /\ ValidReference(s.style, styles)
      BY DEF ValidForm
    <3> QED
      BY <3>1, <3>2
  <2> QED
    BY <2>1, <2>2
<1>4. DOMAIN RawOf(f).rows # {}
  BY <1>1 DEF RawOf
<1> QED
  BY <1>2, <1>3, <1>4 DEF Loadable

\* A style that is taken out of the file is remembered as removed.
LEMMA RemovalIsRemembered ==
  ASSUME NEW new, NEW raw,
         styles' = new, orphaned' = orphaned \cup Removed(new), Covered(raw)
  PROVE  \A f \in DOMAIN raw.settings :
           \/ ValidReference(raw.settings[f].style, styles')
           \/ raw.settings[f].style \in orphaned'
BY DEF Covered, Removed, ValidReference, SelectorOptions, LoadConfiguredStyles
-----------------------------------------------------------------------------
\* The first configuration is loaded, and its styles exist.
LEMMA FilesInit == Init => FilesInv
<1> SUFFICES ASSUME Init PROVE FilesInv
  OBVIOUS
<1>1. Covered(file) /\ Loadable(file)
  BY ConfigAssumption DEF Init, Covered
<1>2. Routed(snapshot) /\ Covered(snapshot)
  BY <1>1, SnapshotIsRouted, SnapshotIsCovered DEF Init
<1> QED
  BY <1>1, <1>2 DEF Init, FilesInv, PublishingInv, ServedIsSaved

\* Steps that touch neither file nor the snapshot.
LEMMA FilesUnchanged == FilesInv /\ UNCHANGED config => FilesInv'
<1> SUFFICES ASSUME FilesInv, UNCHANGED config PROVE FilesInv'
  OBVIOUS
<1>1. BuildSnapshot(file)' = BuildSnapshot(file)
  BY DEF config, BuildSnapshot, NamedStyle
<1> QED
  BY <1>1 DEF FilesInv, PublishingInv, ServedIsSaved, Covered, Routed, Loadable, config,
     ValidReference

\* The files, what is being published and the snapshot agree after every step.
LEMMA FilesNext == FilesInv /\ [Next]_vars => FilesInv'
<1> SUFFICES ASSUME FilesInv, [Next]_vars PROVE FilesInv'
  OBVIOUS
<1>1. CASE UNCHANGED vars
  BY <1>1, FilesUnchanged DEF vars, disk, config
<1>2. ASSUME NEW t \in Tabs, PageStep(t) PROVE FilesInv'
  <2>1. UNCHANGED config
    BY <1>2 DEF PageStep, OpenConfig, OpenStyles, AddProvider, RemoveProvider, RenameProvider,
       EditModels, SelectProvider, SelectStyle, SetNumbers, Edit, AddStyle, RemoveStyle,
       RenameStyle, EditTitle, EditStyles, config, disk
  <2> QED
    BY <2>1, FilesUnchanged
<1>3. ASSUME NEW t \in Tabs, ReplaceFile(t) PROVE FilesInv'
  <2>1. Loadable(RawOf(form[t]))
    BY <1>3, ValidFormIsLoadable DEF ReplaceFile
  <2>2. Covered(RawOf(form[t]))'
    BY <1>3, ValidFormIsLoadable DEF ReplaceFile, Covered, RawOf, ProviderNames, tabs
  <2> DEFINE raw == RawOf(form[t])
  <2>3. /\ file' = raw /\ publishing' = {raw} /\ snapshot' = snapshot /\ edited' = FALSE
        /\ raw' = raw /\ up /\ up' = up
    BY <1>3 DEF ReplaceFile, tabs, RawOf, ProviderNames
  <2> HIDE DEF raw
  <2>4. Loadable(raw) /\ Covered(raw)'
    BY <2>1, <2>2 DEF raw
  <2> QED
    BY <2>3, <2>4 DEF FilesInv, PublishingInv, ServedIsSaved, Covered, Routed, Loadable,
       ValidReference
<1>4. ASSUME Publish PROVE FilesInv'
  <2>1. PICK raw \in publishing : snapshot' = BuildSnapshot(raw)
    BY <1>4 DEF Publish
  <2>2. Loadable(raw) /\ Covered(raw) /\ (~edited => file = raw)
    BY <2>1 DEF FilesInv, PublishingInv
  <2>3. Routed(snapshot') /\ Covered(BuildSnapshot(raw))
    BY <2>1, <2>2, SnapshotIsRouted, SnapshotIsCovered
  <2>4. publishing' = {} /\ UNCHANGED <<file, styles, up, edited, orphaned>>
    BY <1>4 DEF Publish, disk
  <2>5. (~edited => snapshot' = BuildSnapshot(file))
    BY <2>1, <2>2
  <2>6. Covered(snapshot)'
    BY <2>1, <2>3, <2>4 DEF Covered, ValidReference
  <2>7. BuildSnapshot(file)' = BuildSnapshot(file)
    BY <2>4 DEF BuildSnapshot, NamedStyle
  <2> QED
    BY <2>3, <2>4, <2>5, <2>6, <2>7 DEF FilesInv, PublishingInv, ServedIsSaved, Covered, Routed,
       Loadable, ValidReference
<1>5. ASSUME NEW new,
             styles' = new, orphaned' = orphaned \cup Removed(new),
             UNCHANGED <<file, edited, snapshot, publishing, up>>
      PROVE  FilesInv'
  <2>1. ASSUME NEW raw, Covered(raw)
        PROVE  \A f \in DOMAIN raw.settings :
                 \/ ValidReference(raw.settings[f].style, styles')
                 \/ raw.settings[f].style \in orphaned'
    BY <1>5, <2>1, RemovalIsRemembered
  <2>2. /\ Covered(file)' /\ (up /\ publishing = {} => Covered(snapshot)')
        /\ \A raw \in publishing : \A f \in DOMAIN raw.settings :
             \/ ValidReference(raw.settings[f].style, styles')
             \/ raw.settings[f].style \in orphaned'
    BY <1>5, <2>1 DEF FilesInv, PublishingInv, Covered, ValidReference
  <2> QED
    BY <1>5, <2>2 DEF FilesInv, PublishingInv, ServedIsSaved, Covered, Routed, Loadable,
       ValidReference, BuildSnapshot, NamedStyle
<1>6. ASSUME NEW t \in Tabs, ApplyStyles(t) PROVE FilesInv'
  BY <1>5, <1>6 DEF ApplyStyles
<1>7. ASSUME NEW k \in Key, EditStylesFile(k) PROVE FilesInv'
  BY <1>5, <1>7 DEF EditStylesFile
<1>8. ASSUME NEW raw, EditFile(raw) PROVE FilesInv'
  <2>1. /\ file' = raw /\ edited' = TRUE
        /\ orphaned' = orphaned \cup {raw.settings[f].style : f \in DOMAIN raw.settings}
        /\ UNCHANGED <<snapshot, publishing, styles, up>>
    BY <1>8 DEF EditFile
  <2>2. Covered(file)'
    BY <2>1 DEF Covered
  <2>3. \A r : Covered(r) => \A f \in DOMAIN r.settings :
           ValidReference(r.settings[f].style, styles') \/ r.settings[f].style \in orphaned'
    BY <2>1 DEF Covered, ValidReference
  <2> QED
    BY <2>1, <2>2, <2>3 DEF FilesInv, PublishingInv, ServedIsSaved, Covered, Routed, Loadable,
       ValidReference
<1>9. ASSUME EditConfigFile PROVE FilesInv'
  BY <1>8, <1>9 DEF EditConfigFile
<1>10. ASSUME Crash PROVE FilesInv'
  BY <1>10 DEF Crash, disk, FilesInv, PublishingInv, ServedIsSaved, Covered, Routed, Loadable,
     ValidReference
<1>11. ASSUME Restart PROVE FilesInv'
  <2>1. /\ ~up /\ Loadable(file) /\ snapshot' = BuildSnapshot(file) /\ edited' = FALSE /\ up' = TRUE
        /\ UNCHANGED <<file, styles, orphaned, publishing>>
    BY <1>11 DEF Restart
  <2>2. Routed(snapshot') /\ Covered(BuildSnapshot(file))
    BY <2>1, SnapshotIsRouted, SnapshotIsCovered DEF FilesInv
  <2>3. Covered(snapshot)' /\ Covered(file)'
    BY <2>1, <2>2 DEF Covered, ValidReference, FilesInv
  <2>4. BuildSnapshot(file)' = BuildSnapshot(file)
    BY <2>1 DEF BuildSnapshot, NamedStyle
  <2> QED
    BY <2>1, <2>2, <2>3, <2>4 DEF FilesInv, PublishingInv, ServedIsSaved, Covered, Routed, Loadable,
       ValidReference
<1>12. ASSUME NEW r \in Requests, RequestStep(r) PROVE FilesInv'
  <2>1. UNCHANGED config
    BY <1>12 DEF RequestStep, BeginReply, ApplyStyle, ExtractMemory, RunDynamicPrompt, Styled,
       Put, config, disk
  <2> QED
    BY <2>1, FilesUnchanged
<1> QED
  BY <1>1, <1>2, <1>3, <1>4, <1>6, <1>7, <1>9, <1>10, <1>11, <1>12 DEF Next
-----------------------------------------------------------------------------
(* What is recorded of a request.                                          *)

\* The truth about one recorded resolution: it names the style that was applied, and
\* whether that is the one that was asked for.
Told(e, asked, wrote) ==
  /\ e.applied = wrote /\ wrote # "" /\ wrote # "multiple"
  /\ Tone(e) = "failure" <=> ResultOf(e) = "fallback"
  /\ ResultOf(e) = "applied" => wrote = asked
  /\ asked \in Configurable => (wrote = asked <=> ResultOf(e) = "applied")

\* Before the reply there is at most the event of an extraction.
RequestInv(rec) ==
  /\ rec.at # "styled" => rec.events = {} \/ \E u : rec.events = {u}
  /\ rec.at = "styled" => \E e, u : rec.events = {e, u} /\ Told(e, rec.asked, rec.wrote)

RequestsInv == \A r \in Requests : RequestInv(request[r])

\* However a reference is resolved, what is recorded of it is true; only the styles file
\* can name a style, and it does not name one "multiple".
LEMMA ResolutionIsTold ==
  ASSUME NEW asked, NEW f \in SUBSET Key, NEW res \in Resolutions(asked, f)
  PROVE  Told(res, asked, res.applied)
<1>1. Key = Styles \cup {"default", "random"}
  BY DEF Key, Configurable
<1>0. Candidates(f) \subseteq Styles \ {"", "default", "random", "multiple"}
  BY <1>1, StyleAssumption DEF Candidates, LoadConfiguredStyles
<1> USE DEF Resolution, Told, Tone, ResultOf, Failed, SuccessReasons, FailureReasons, Configurable
<1>2. CASE asked = ""
  <2>1. res = Resolution("", "default", "success", "missing_style_defaulted")
    BY <1>0, <1>2 DEF Resolutions
  <2> QED
    BY <1>2, <2>1, StyleAssumption
<1>3. CASE asked = "default"
  <2>1. res = Resolution("default", "default", "success", "default_used")
    BY <1>0, <1>3 DEF Resolutions
  <2> QED
    BY <1>3, <2>1
<1>4. CASE asked = "random" /\ Candidates(f) # {}
  <2>1. PICK k \in Candidates(f) : res = Resolution("random", k, "success", "random_resolved")
    BY <1>0, <1>4 DEF Resolutions
  <2> QED
    BY <1>0, <1>4, <2>1, StyleAssumption
<1>5. CASE asked = "random" /\ Candidates(f) = {}
  <2>1. res = Resolution("random", "default", "fallback", "random_no_candidates_defaulted")
    BY <1>0, <1>5 DEF Resolutions
  <2> QED
    BY <1>5, <2>1, StyleAssumption
<1>6. CASE asked \in Candidates(f)
  <2>1. res = Resolution(asked, asked, "success", "requested_applied")
    BY <1>0, <1>6 DEF Resolutions
  <2> QED
    BY <1>0, <1>6, <2>1
<1>7. CASE asked \notin Candidates(f) /\ asked \notin {"", "default", "random"}
  <2>1. res = Resolution(asked, "default", "fallback", "style_not_found")
    BY <1>7 DEF Resolutions
  <2> QED
    BY <1>7, <2>1
<1> QED
  BY <1>2, <1>3, <1>4, <1>5, <1>6, <1>7

\* A run that has the reply's event and at most another one names the reply's style, or
\* says that there are several.
LEMMA OneOrMultiple ==
  ASSUME NEW e, NEW u, NEW wrote, e.applied = wrote, wrote # ""
  PROVE  DerivedStyle({e, u}) \in {wrote, "multiple"}
<1> DEFINE values == {x.applied : x \in {e, u}} \ {""}
<1>1. values = {wrote} \/ (values = {wrote, u.applied} /\ u.applied # wrote)
  OBVIOUS
<1>2. CASE values = {wrote}
  <2>1. Cardinality(values) = 1
    BY <1>2, FS_Singleton
  <2>2. (CHOOSE v \in values : TRUE) = wrote
    BY <1>2
  <2> QED
    BY <2>1, <2>2 DEF DerivedStyle, SingleOrMultiple
<1>3. CASE values = {wrote, u.applied} /\ u.applied # wrote
  <2>1. Cardinality(values) # 1
    <3>1. ASSUME Cardinality(values) = 1 PROVE FALSE
      <4>1. IsFiniteSet(values)
        <5>1. IsFiniteSet({wrote} \cup {u.applied})
          BY FS_Singleton, FS_AddElement
        <5>2. {wrote} \cup {u.applied} = values
          BY <1>3
        <5> QED
          BY <5>1, <5>2
      <4>2. \E x : values = {x}
        BY <3>1, <4>1, FS_Singleton
      <4> QED
        BY <1>3, <4>2
    <3> QED
      BY <3>1
  <2>2. values # {}
    BY <1>3
  <2> QED
    BY <2>1, <2>2 DEF DerivedStyle, SingleOrMultiple
<1> QED
  BY <1>1, <1>2, <1>3

\* A request whose record is true satisfies TraceTellsStyle.
LEMMA RequestsTell == RequestsInv => TraceTellsStyle
<1> SUFFICES ASSUME RequestsInv, NEW r \in Requests, request[r].at = "styled"
             PROVE  /\ \E e \in request[r].events : Told(e, request[r].asked, request[r].wrote)
                    /\ DerivedStyle(request[r].events) \in {request[r].wrote, "multiple"}
  BY DEF TraceTellsStyle, Told
<1>1. \E e, u : /\ request[r].events = {e, u}
                /\ Told(e, request[r].asked, request[r].wrote)
  BY DEF RequestsInv, RequestInv
<1>2. PICK e, u : /\ request[r].events = {e, u}
                  /\ Told(e, request[r].asked, request[r].wrote)
  BY <1>1
<1>3. DerivedStyle({e, u}) \in {request[r].wrote, "multiple"}
  BY <1>2, OneOrMultiple DEF Told
<1> QED
  BY <1>2, <1>3
-----------------------------------------------------------------------------
(* Types.                                                                  *)

RawRow == [kind : Kind, usable : BOOLEAN]

\* The types that the files and the snapshot need.
FileTypes ==
  /\ IsRawFile(file) /\ IsRawFile(snapshot)
  /\ \A raw \in publishing : IsRawFile(raw)
  /\ styles \subseteq Key

\* A configuration that can be loaded has a snapshot of its own type.
LEMMA SnapshotType ==
  ASSUME NEW raw, IsRawFile(raw), Loadable(raw)
  PROVE  IsRawFile(BuildSnapshot(raw))
<1> DEFINE snap == BuildSnapshot(raw)
           first == CHOOSE n \in DOMAIN raw.rows : TRUE
<1>1. first \in Name
  BY DEF Loadable, IsRawFile, Partial, Name
<1>2. "default" \in Reference /\ "in range" \in Numbers
  BY DEF Reference, Configurable, Numbers
<1>3. snap.rows = raw.rows /\ DOMAIN snap.settings = DOMAIN raw.settings \cup {"chat"}
      /\ snap = [rows |-> snap.rows, settings |-> snap.settings]
  BY DEF BuildSnapshot
<1>4. ASSUME NEW f \in DOMAIN raw.settings \cup {"chat"} PROVE snap.settings[f] \in Setting
  <2>1. CASE f \in DOMAIN raw.settings
    <3>1. raw.settings[f] \in Setting
      BY <2>1 DEF IsRawFile, Partial
    <3>2. NamedStyle(raw.settings[f]) \in Setting
      BY <1>2, <3>1 DEF NamedStyle, Setting
    <3> QED
      BY <2>1, <3>2 DEF BuildSnapshot
  <2>2. CASE f \notin DOMAIN raw.settings
    <3>1. snap.settings[f] = [provider |-> first, style |-> "default", numbers |-> "in range"]
      BY <2>2 DEF BuildSnapshot
    <3>2. [provider |-> first, style |-> "default", numbers |-> "in range"] \in Setting
      <4> HIDE DEF first
      <4> QED
        BY <1>1, <1>2 DEF Setting
    <3> QED
      BY <3>1, <3>2
  <2> QED
    BY <2>1, <2>2
<1>5. snap.settings \in [DOMAIN snap.settings -> Setting]
  <2>1. snap.settings = [f \in DOMAIN snap.settings |-> snap.settings[f]]
    BY DEF BuildSnapshot
  <2> QED
    BY <1>3, <1>4, <2>1
<1>6. DOMAIN snap.settings \subseteq Features
  BY <1>3, ConfigAssumption DEF IsRawFile, Partial
<1>7. Partial(raw.rows, Providers, [kind : Kind, usable : BOOLEAN])
  BY DEF IsRawFile
<1> HIDE DEF snap
<1> QED
  BY <1>3, <1>5, <1>6, <1>7 DEF snap, IsRawFile, Partial

\* What a form is turned into is a configuration.
LEMMA FormIsRaw ==
  ASSUME NEW f, IsForm(f)
  PROVE  IsRawFile(RawOf(f))
<1>1. ProviderNames(f.rows) \subseteq Providers
  BY DEF IsForm, Partial, ProviderNames, Row, Name
<1>2. ASSUME NEW n \in ProviderNames(f.rows)
      PROVE  RawOf(f).rows[n] \in [kind : Kind, usable : BOOLEAN]
  <2> DEFINE i == CHOOSE i \in DOMAIN f.rows : f.rows[i].name = n
  <2>1. i \in DOMAIN f.rows
    BY DEF ProviderNames
  <2>2. f.rows[i] \in Row
    BY <2>1 DEF IsForm, Partial
  <2>3. RawOf(f).rows[n] = [kind |-> f.rows[i].kind, usable |-> f.rows[i].usable]
    BY DEF RawOf
  <2> HIDE DEF i
  <2> QED
    BY <2>2, <2>3 DEF Row
<1>3. ASSUME NEW x \in Features PROVE RawOf(f).settings[x] \in Setting
  <2>1. f.settings[x] \in Choice
    BY DEF IsForm
  <2>2. RawOf(f).settings[x] = [provider |-> f.settings[x].provider, style |-> f.settings[x].style,
                                numbers |-> f.settings[x].numbers]
    BY DEF RawOf
  <2> QED
    BY <2>1, <2>2 DEF Choice, Setting
<1>4. /\ DOMAIN RawOf(f).rows = ProviderNames(f.rows) /\ DOMAIN RawOf(f).settings = Features
      /\ RawOf(f).rows = [n \in DOMAIN RawOf(f).rows |-> RawOf(f).rows[n]]
      /\ RawOf(f).settings = [n \in DOMAIN RawOf(f).settings |-> RawOf(f).settings[n]]
      /\ RawOf(f) = [rows |-> RawOf(f).rows, settings |-> RawOf(f).settings]
  BY DEF RawOf
<1> QED
  BY <1>1, <1>2, <1>3, <1>4 DEF IsRawFile, Partial

\* Every change of a file by hand leaves a configuration.
LEMMA EditedIsRaw ==
  ASSUME NEW rows, NEW settings,
         Partial(rows, Providers, [kind : Kind, usable : BOOLEAN]),
         Partial(settings, Features, Setting)
  PROVE  IsRawFile([rows |-> rows, settings |-> settings])
BY DEF IsRawFile

\* What the page of the configuration shows is a form.
LEMMA ViewIsForm ==
  ASSUME FileTypes
  PROVE  IsForm(ViewModel)
<1> DEFINE raw == IF file = EmptyFile THEN snapshot ELSE file
           setting(f) == IF f \in DOMAIN raw.settings THEN raw.settings[f] ELSE NoSetting
           offered(f) == IF setting(f).provider \in DOMAIN raw.rows THEN setting(f).provider ELSE ""
           shown == [n \in DOMAIN raw.rows |->
                       [name |-> n, kind |-> "supported", usable |-> raw.rows[n].usable]]
           new == CHOOSE r \in NewRows : TRUE
           rows == IF DOMAIN raw.rows # {} THEN shown ELSE [i \in {new} |-> BlankRow]
           settings == [f \in Features |-> [provider |-> offered(f), remembered |-> offered(f),
                                           style |-> setting(f).style,
                                           numbers |-> setting(f).numbers]]
           options == [f \in Features |-> SelectorOptions(styles) \cup {setting(f).style}]
<1>1. ViewModel = [rows |-> rows, settings |-> settings, options |-> options]
  BY DEF ViewModel
<1>2. IsRawFile(raw)
  BY DEF FileTypes
<1> HIDE DEF raw
<1>3. Partial(rows, RowId, Row)
  <2>1. CASE DOMAIN raw.rows # {}
    <3>1. ASSUME NEW n \in DOMAIN raw.rows
          PROVE  [name |-> n, kind |-> "supported", usable |-> raw.rows[n].usable] \in Row
      BY <1>2 DEF IsRawFile, Partial, Row, Name, Kind
    <3>2. shown \in [DOMAIN raw.rows -> Row] /\ DOMAIN shown = DOMAIN raw.rows
      BY <3>1
    <3> QED
      BY <1>2, <2>1, <3>2 DEF IsRawFile, Partial, RowId
  <2>2. CASE DOMAIN raw.rows = {}
    <3>1. new \in NewRows
      BY ConfigAssumption
    <3>2. BlankRow \in Row
      BY DEF BlankRow, Row, Name, Kind
    <3> QED
      BY <2>2, <3>1, <3>2 DEF Partial, RowId
  <2> QED
    BY <2>1, <2>2
<1>4. ASSUME NEW f \in Features PROVE setting(f) \in Setting
  <2>1. NoSetting \in Setting
    BY DEF NoSetting, Setting, Name, Reference, Numbers
  <2> QED
    BY <1>2, <2>1 DEF IsRawFile, Partial
<1>5. settings \in [Features -> Choice]
  <2>1. ASSUME NEW f \in Features
        PROVE  [provider |-> offered(f), remembered |-> offered(f), style |-> setting(f).style,
                numbers |-> setting(f).numbers] \in Choice
    <3>1. setting(f) \in Setting
      BY <1>4
    <3> HIDE DEF setting
    <3>2. offered(f) \in Name
      BY <3>1 DEF Setting, Name
    <3> QED
      BY <3>1, <3>2 DEF Setting, Choice
  <2> QED
    BY <2>1
<1>6. options \in [Features -> SUBSET Reference]
  <2>1. SelectorOptions(styles) \subseteq Reference
    BY DEF SelectorOptions, LoadConfiguredStyles, FileTypes, Key, Reference, Configurable
  <2>2. ASSUME NEW f \in Features PROVE setting(f).style \in Reference
    <3>1. setting(f) \in Setting
      BY <1>4
    <3> HIDE DEF setting
    <3> QED
      BY <3>1 DEF Setting
  <2> HIDE DEF setting
  <2> QED
    BY <2>1, <2>2
<1> HIDE DEF rows, settings, options
<1> QED
  BY <1>1, <1>3, <1>5, <1>6 DEF IsForm

\* A form whose rows or settings are changed is a form; the options stay.
LEMMA EditedIsForm ==
  ASSUME NEW f, IsForm(f), NEW rows, NEW settings \in [Features -> Choice],
         Partial(rows, RowId, Row)
  PROVE  IsForm([rows |-> rows, settings |-> settings, options |-> f.options])
BY DEF IsForm

\* Taking choices back leaves choices.
LEMMA SyncType ==
  ASSUME NEW settings \in [Features -> Choice], NEW rows, Partial(rows, RowId, Row)
  PROVE  Sync(rows, settings) \in [Features -> Choice]
<1>1. ProviderNames(rows) \subseteq Name
  BY DEF ProviderNames, Partial, Row
<1>2. ASSUME NEW x \in Features, NEW n \in Name
      PROVE  [settings[x] EXCEPT !.provider = n, !.remembered = n] \in Choice
  BY DEF Choice
<1>3. "" \in Name
  BY DEF Name
<1> QED
  BY <1>1, <1>2, <1>3 DEF Sync
-----------------------------------------------------------------------------
\* The types of the tabs.
TabTypes ==
  /\ screen \in [Tabs -> {"none", "config", "styles"}]
  /\ form = [t \in Tabs |-> form[t]] /\ styleForm = [t \in Tabs |-> styleForm[t]]
  /\ \A t \in Tabs : IsForm(form[t]) /\ Partial(styleForm[t], StyleRowId, StyleRow)

\* Initially the files and the snapshot have their types.
LEMMA FileTypesInit == Init => FileTypes
<1> SUFFICES ASSUME Init PROVE FileTypes
  OBVIOUS
<1>1. IsRawFile(FirstFile) /\ Loadable(FirstFile)
  BY ConfigAssumption
<1> QED
  BY <1>1, SnapshotType, ConfigAssumption DEF Init, FileTypes

\* So is the form of a tab that shows something else.
LEMMA NoFormIsForm == IsForm(NoForm)
<1>1. Partial(<<>>, RowId, Row)
  BY DEF Partial
<1>2. NoForm.settings \in [Features -> Choice]
  BY DEF NoForm, Choice, Name, Reference, Numbers
<1> QED
  BY <1>1, <1>2 DEF IsForm, NoForm

\* Initially the tabs show nothing.
LEMMA TabTypesInit == Init => TabTypes
<1> SUFFICES ASSUME Init PROVE TabTypes
  OBVIOUS
<1>1. Partial(<<>>, StyleRowId, StyleRow)
  BY DEF Partial
<1> QED
  BY <1>1, NoFormIsForm DEF Init, TabTypes

\* A step that changes the files by hand.
LEMMA EditFileTypes ==
  ASSUME FileTypes, NEW raw, IsRawFile(raw), EditFile(raw)
  PROVE  FileTypes'
BY DEF EditFile, FileTypes

\* The editor's changes keep the file a configuration.
LEMMA EditConfigFileTypes == FileTypes /\ EditConfigFile => FileTypes'
<1> SUFFICES ASSUME FileTypes, EditConfigFile PROVE FileTypes'
  OBVIOUS
<1>1. /\ file = [rows |-> file.rows, settings |-> file.settings]
      /\ Partial(file.rows, Providers, [kind : Kind, usable : BOOLEAN])
      /\ Partial(file.settings, Features, Setting)
  BY DEF FileTypes, IsRawFile
<1>2. CASE EditFile(EmptyFile)
  <2>1. IsRawFile(EmptyFile)
    BY DEF EmptyFile, IsRawFile, Partial
  <2> QED
    BY <1>2, <2>1, EditFileTypes
<1>3. ASSUME NEW n \in DOMAIN file.rows, NEW row \in [kind : Kind, usable : BOOLEAN]
      PROVE  /\ IsRawFile([file EXCEPT !.rows[n] = row])
             /\ IsRawFile([file EXCEPT !.rows = [k \in DOMAIN @ \ {n} |-> @[k]]])
  <2> DEFINE changed == [file.rows EXCEPT ![n] = row]
             fewer == [k \in DOMAIN file.rows \ {n} |-> file.rows[k]]
  <2>1. /\ [file EXCEPT !.rows[n] = row] = [rows |-> changed, settings |-> file.settings]
        /\ [file EXCEPT !.rows = [k \in DOMAIN @ \ {n} |-> @[k]]]
             = [rows |-> fewer, settings |-> file.settings]
    BY <1>1
  <2>2. Partial(changed, Providers, [kind : Kind, usable : BOOLEAN])
    BY <1>1 DEF Partial
  <2>3. Partial(fewer, Providers, [kind : Kind, usable : BOOLEAN])
    BY <1>1 DEF Partial
  <2>4. /\ IsRawFile([rows |-> changed, settings |-> file.settings])
        /\ IsRawFile([rows |-> fewer, settings |-> file.settings])
    <3> HIDE DEF changed, fewer
    <3> QED
      BY <1>1, <2>2, <2>3, EditedIsRaw
  <2>5. IsRawFile([file EXCEPT !.rows[n] = row])
    BY <2>1, <2>4, Zenon
  <2>6. IsRawFile([file EXCEPT !.rows = [k \in DOMAIN @ \ {n} |-> @[k]]])
    BY <2>1, <2>4, Zenon
  <2> QED
    BY <2>5, <2>6
<1>4. ASSUME NEW f \in DOMAIN file.settings, NEW s \in Setting
      PROVE  IsRawFile([rows |-> file.rows, settings |-> [file.settings EXCEPT ![f] = s]])
  <2>1. Partial([file.settings EXCEPT ![f] = s], Features, Setting)
    BY <1>1 DEF Partial
  <2> QED
    BY <1>1, <2>1, EditedIsRaw
<1>5. ASSUME NEW f \in DOMAIN file.settings
      PROVE  /\ \A n \in Name : IsRawFile([file EXCEPT !.settings[f].provider = n])
             /\ \A s \in Reference : IsRawFile([file EXCEPT !.settings[f].style = s])
             /\ \A v \in Numbers : IsRawFile([file EXCEPT !.settings[f].numbers = v])
             /\ IsRawFile([file EXCEPT !.settings = [k \in DOMAIN @ \ {f} |-> @[k]]])
  <2>1. file.settings[f] \in Setting
    BY <1>1 DEF Partial
  <2>3. ASSUME NEW n \in Name PROVE IsRawFile([file EXCEPT !.settings[f].provider = n])
    <3> DEFINE s == [file.settings[f] EXCEPT !.provider = n]
    <3>1. s \in Setting
      BY <2>1 DEF Setting
    <3>2. [file EXCEPT !.settings[f].provider = n]
            = [rows |-> file.rows, settings |-> [file.settings EXCEPT ![f] = s]]
      BY <1>1
    <3> HIDE DEF s
    <3> QED
      BY <3>1, <3>2, <1>4
  <2>4. ASSUME NEW n \in Reference PROVE IsRawFile([file EXCEPT !.settings[f].style = n])
    <3> DEFINE s == [file.settings[f] EXCEPT !.style = n]
    <3>1. s \in Setting
      BY <2>1 DEF Setting
    <3>2. [file EXCEPT !.settings[f].style = n]
            = [rows |-> file.rows, settings |-> [file.settings EXCEPT ![f] = s]]
      BY <1>1
    <3> HIDE DEF s
    <3> QED
      BY <3>1, <3>2, <1>4
  <2>5. ASSUME NEW n \in Numbers PROVE IsRawFile([file EXCEPT !.settings[f].numbers = n])
    <3> DEFINE s == [file.settings[f] EXCEPT !.numbers = n]
    <3>1. s \in Setting
      BY <2>1 DEF Setting
    <3>2. [file EXCEPT !.settings[f].numbers = n]
            = [rows |-> file.rows, settings |-> [file.settings EXCEPT ![f] = s]]
      BY <1>1
    <3> HIDE DEF s
    <3> QED
      BY <3>1, <3>2, <1>4
  <2>6. IsRawFile([file EXCEPT !.settings = [k \in DOMAIN @ \ {f} |-> @[k]]])
    <3> DEFINE fewer == [k \in DOMAIN file.settings \ {f} |-> file.settings[k]]
    <3>1. [file EXCEPT !.settings = [k \in DOMAIN @ \ {f} |-> @[k]]]
             = [rows |-> file.rows, settings |-> fewer]
      BY <1>1
    <3>2. Partial(fewer, Features, Setting)
      BY <1>1 DEF Partial
    <3>3. IsRawFile([rows |-> file.rows, settings |-> fewer])
      <4> HIDE DEF fewer
      <4> QED
        BY <1>1, <3>2, EditedIsRaw
    <3> QED
      BY <3>1, <3>3, Zenon
  <2> QED
    BY <2>3, <2>4, <2>5, <2>6
<1>6. ASSUME NEW n \in DOMAIN file.rows, NEW row \in [kind : Kind, usable : BOOLEAN],
             \/ EditFile([file EXCEPT !.rows[n] = row])
             \/ EditFile([file EXCEPT !.rows = [k \in DOMAIN @ \ {n} |-> @[k]]])
      PROVE  FileTypes'
  BY <1>3, <1>6, EditFileTypes
<1>7. ASSUME NEW f \in DOMAIN file.settings,
             \/ \E n \in Name : EditFile([file EXCEPT !.settings[f].provider = n])
             \/ \E s \in Reference : EditFile([file EXCEPT !.settings[f].style = s])
             \/ \E v \in Numbers : EditFile([file EXCEPT !.settings[f].numbers = v])
             \/ EditFile([file EXCEPT !.settings = [k \in DOMAIN @ \ {f} |-> @[k]]])
      PROVE  FileTypes'
  BY <1>5, <1>7, EditFileTypes
<1> QED
  BY <1>2, <1>6, <1>7 DEF EditConfigFile
\* The styles of a form that is applied can all be configured.
LEMMA AppliedStylesType ==
  ASSUME NEW f, Partial(f, StyleRowId, StyleRow), ValidStyleForm(f)
  PROVE  StylesOf(f) \subseteq Key
<1> SUFFICES ASSUME NEW i \in Named(f) PROVE f[i].name \in Key
  BY DEF StylesOf
<1>1. f[i] \in StyleRow
  BY DEF Named, Partial
<1>2. f[i].name \in Key \cup {"", NoSlug}
  BY <1>1 DEF StyleRow
<1> QED
  BY <1>2 DEF ValidStyleForm, ValidStyles, Named

\* No step leaves something else than configurations.
LEMMA FileTypesNext == TabTypes /\ FileTypes /\ FilesInv /\ [Next]_vars => FileTypes'
<1> SUFFICES ASSUME TabTypes, FileTypes, FilesInv, [Next]_vars PROVE FileTypes'
  OBVIOUS
<1>1. ASSUME UNCHANGED <<file, snapshot, publishing, styles>> PROVE FileTypes'
  BY <1>1 DEF FileTypes
<1>2. CASE UNCHANGED vars
  BY <1>1, <1>2 DEF vars, disk
<1>3. ASSUME NEW t \in Tabs, PageStep(t) PROVE FileTypes'
  BY <1>1, <1>3 DEF PageStep, OpenConfig, OpenStyles, AddProvider, RemoveProvider, RenameProvider,
     EditModels, SelectProvider, SelectStyle, SetNumbers, Edit, AddStyle, RemoveStyle,
     RenameStyle, EditTitle, EditStyles, disk
<1>4. ASSUME NEW t \in Tabs, ReplaceFile(t) PROVE FileTypes'
  <2>1. IsRawFile(RawOf(form[t]))
    BY FormIsRaw DEF TabTypes
  <2> QED
    BY <1>4, <2>1 DEF ReplaceFile, FileTypes
<1>5. ASSUME Publish PROVE FileTypes'
  <2>1. PICK raw \in publishing : snapshot' = BuildSnapshot(raw)
    BY <1>5 DEF Publish
  <2>2. IsRawFile(snapshot')
    BY <2>1, SnapshotType DEF FileTypes, FilesInv, PublishingInv
  <2> QED
    BY <1>5, <2>2 DEF Publish, disk, FileTypes
<1>6. ASSUME NEW t \in Tabs, ApplyStyles(t) PROVE FileTypes'
  <2>1. StylesOf(styleForm[t]) \subseteq Key
    BY <1>6, AppliedStylesType DEF ApplyStyles, TabTypes
  <2> QED
    BY <1>6, <2>1 DEF ApplyStyles, FileTypes
<1>7. ASSUME EditConfigFile PROVE FileTypes'
  BY <1>7, EditConfigFileTypes
<1>8. ASSUME NEW k \in Key, EditStylesFile(k) PROVE FileTypes'
  BY <1>8 DEF EditStylesFile, FileTypes
<1>9. ASSUME Crash PROVE FileTypes'
  BY <1>9 DEF Crash, disk, FileTypes
<1>10. ASSUME Restart PROVE FileTypes'
  <2>1. IsRawFile(snapshot')
    BY <1>10, SnapshotType DEF Restart, FileTypes
  <2> QED
    BY <1>10, <2>1 DEF Restart, FileTypes
<1>11. ASSUME NEW r \in Requests, RequestStep(r) PROVE FileTypes'
  BY <1>1, <1>11 DEF RequestStep, BeginReply, ApplyStyle, ExtractMemory, RunDynamicPrompt, Styled,
     Put, disk
<1> QED
  BY <1>2, <1>3, <1>4, <1>5, <1>6, <1>7, <1>8, <1>9, <1>10, <1>11 DEF Next
-----------------------------------------------------------------------------
\* Each edit of the form of the models keeps it a form.
LEMMA EditTypes ==
  ASSUME TabTypes, NEW t \in Tabs, NEW rows, NEW settings \in [Features -> Choice],
         Partial(rows, RowId, Row), Edit(t, rows, settings)
  PROVE  TabTypes'
<1>1. IsForm([rows |-> rows, settings |-> settings, options |-> form[t].options])
  BY EditedIsForm DEF TabTypes
<1> QED
  BY <1>1 DEF Edit, TabTypes

\* Each edit of the form of the styles keeps it a form.
LEMMA EditStylesTypes ==
  ASSUME TabTypes, NEW t \in Tabs, NEW rows, Partial(rows, StyleRowId, StyleRow),
         EditStyles(t, rows)
  PROVE  TabTypes'
BY DEF EditStyles, TabTypes

\* Opening and editing the pages keeps the forms' types.
LEMMA PageTypes ==
  ASSUME TabTypes, FileTypes, NEW t \in Tabs, PageStep(t)
  PROVE  TabTypes'
<1>1. /\ Partial(form[t].rows, RowId, Row) /\ form[t].settings \in [Features -> Choice]
      /\ Partial(styleForm[t], StyleRowId, StyleRow)
  BY DEF TabTypes, IsForm
<1>2. CASE OpenConfig(t)
  <2>1. IsForm(ViewModel) /\ Partial(<<>>, StyleRowId, StyleRow)
    BY ViewIsForm DEF Partial
  <2> QED
    BY <1>2, <2>1 DEF OpenConfig, TabTypes
<1>3. CASE OpenStyles(t)
  <2>1. Partial(ListedStyles(styles), StyleRowId, StyleRow)
    <3>1. LoadConfiguredStyles(styles) \subseteq Key
      BY DEF LoadConfiguredStyles, FileTypes, Key, Configurable
    <3>2. ASSUME NEW k \in LoadConfiguredStyles(styles)
          PROVE  [name |-> k, titled |-> TRUE, system |-> k = "default"] \in StyleRow
      <4>1. k \in Key \cup {"", NoSlug}
        BY <3>1
      <4>2. (k = "default") \in BOOLEAN
        OBVIOUS
      <4> QED
        BY <4>1, <4>2 DEF StyleRow
    <3> QED
      BY <3>1, <3>2 DEF ListedStyles, Partial, StyleRowId
  <2> QED
    BY <1>3, <2>1, NoFormIsForm DEF OpenStyles, TabTypes
<1>4. ASSUME NEW r \in NewRows, AddProvider(t, r) PROVE TabTypes'
  <2> DEFINE rows == [i \in DOMAIN form[t].rows \cup {r} |->
                        IF i = r THEN BlankRow ELSE form[t].rows[i]]
  <2>1. BlankRow \in Row
    BY DEF BlankRow, Row, Name, Kind
  <2>2. Partial(rows, RowId, Row)
    BY <1>1, <2>1 DEF Partial, RowId
  <2>3. Edit(t, rows, form[t].settings)
    BY <1>4 DEF AddProvider
  <2> HIDE DEF rows
  <2> QED
    BY <1>1, <2>2, <2>3, EditTypes
<1>5. ASSUME NEW i \in RowId, RemoveProvider(t, i) PROVE TabTypes'
  <2> DEFINE rows == [j \in DOMAIN form[t].rows \ {i} |-> form[t].rows[j]]
  <2>1. Partial(rows, RowId, Row)
    BY <1>1 DEF Partial
  <2>2. Edit(t, rows, Sync(rows, form[t].settings))
    BY <1>5 DEF RemoveProvider
  <2> HIDE DEF rows
  <2> QED
    BY <1>1, <2>1, <2>2, EditTypes, SyncType
<1>6. ASSUME NEW i \in RowId, NEW n \in Name, RenameProvider(t, i, n) PROVE TabTypes'
  <2> DEFINE rows == [form[t].rows EXCEPT ![i].name = n]
  <2>1. Partial(rows, RowId, Row)
    BY <1>1, <1>6 DEF Partial, Row, RenameProvider
  <2>2. Edit(t, rows, Sync(rows, form[t].settings))
    BY <1>6 DEF RenameProvider
  <2> HIDE DEF rows
  <2> QED
    BY <1>1, <2>1, <2>2, EditTypes, SyncType
<1>7. ASSUME NEW i \in RowId, NEW b \in BOOLEAN, EditModels(t, i, b) PROVE TabTypes'
  <2> DEFINE rows == [form[t].rows EXCEPT ![i].usable = b]
  <2>1. Partial(rows, RowId, Row)
    BY <1>1, <1>7 DEF Partial, Row, EditModels
  <2>2. Edit(t, rows, form[t].settings)
    BY <1>7 DEF EditModels
  <2> HIDE DEF rows
  <2> QED
    BY <1>1, <2>1, <2>2, EditTypes
<1>8. ASSUME NEW x \in Features, NEW n \in Name, SelectProvider(t, x, n) PROVE TabTypes'
  <2>1. [form[t].settings EXCEPT ![x].provider = n] \in [Features -> Choice]
    BY <1>1 DEF Choice
  <2> QED
    BY <1>1, <1>8, <2>1, EditTypes DEF SelectProvider
<1>9. ASSUME NEW x \in Features, NEW s \in Reference, SelectStyle(t, x, s) PROVE TabTypes'
  <2>1. [form[t].settings EXCEPT ![x].style = s] \in [Features -> Choice]
    BY <1>1 DEF Choice
  <2> QED
    BY <1>1, <1>9, <2>1, EditTypes DEF SelectStyle
<1>10. ASSUME NEW x \in Features, NEW v \in Numbers, SetNumbers(t, x, v) PROVE TabTypes'
  <2>1. [form[t].settings EXCEPT ![x].numbers = v] \in [Features -> Choice]
    BY <1>1 DEF Choice
  <2> QED
    BY <1>1, <1>10, <2>1, EditTypes DEF SetNumbers
<1>11. ASSUME NEW r \in NewRows, AddStyle(t, r) PROVE TabTypes'
  <2> DEFINE rows == [k \in DOMAIN styleForm[t] \cup {r} |->
                        IF k = r THEN BlankStyle ELSE styleForm[t][k]]
  <2>1. Partial(rows, StyleRowId, StyleRow)
    BY <1>1 DEF Partial, StyleRowId, StyleRow, BlankStyle
  <2>2. EditStyles(t, rows)
    BY <1>11 DEF AddStyle
  <2> HIDE DEF rows
  <2> QED
    BY <2>1, <2>2, EditStylesTypes
<1>12. ASSUME NEW k \in StyleRowId, RemoveStyle(t, k) PROVE TabTypes'
  <2> DEFINE rows == [j \in DOMAIN styleForm[t] \ {k} |-> styleForm[t][j]]
  <2>1. Partial(rows, StyleRowId, StyleRow)
    BY <1>1 DEF Partial
  <2>2. EditStyles(t, rows)
    BY <1>12 DEF RemoveStyle
  <2> HIDE DEF rows
  <2> QED
    BY <2>1, <2>2, EditStylesTypes
<1>13. ASSUME NEW k \in StyleRowId, NEW n \in Key \cup {"", NoSlug}, RenameStyle(t, k, n)
       PROVE  TabTypes'
  <2>1. Partial([styleForm[t] EXCEPT ![k].name = n], StyleRowId, StyleRow)
    BY <1>1, <1>13 DEF Partial, StyleRow, RenameStyle
  <2> QED
    BY <1>13, <2>1, EditStylesTypes DEF RenameStyle
<1>14. ASSUME NEW k \in StyleRowId, NEW b \in BOOLEAN, EditTitle(t, k, b) PROVE TabTypes'
  <2>1. Partial([styleForm[t] EXCEPT ![k].titled = b], StyleRowId, StyleRow)
    BY <1>1, <1>14 DEF Partial, StyleRow, EditTitle
  <2> QED
    BY <1>14, <2>1, EditStylesTypes DEF EditTitle
<1> QED
  BY <1>2, <1>3, <1>4, <1>5, <1>6, <1>7, <1>8, <1>9, <1>10, <1>11, <1>12, <1>13, <1>14
  DEF PageStep

\* Nothing but the pages' own steps changes a form.
LEMMA TabTypesNext == TabTypes /\ FileTypes /\ [Next]_vars => TabTypes'
<1> SUFFICES ASSUME TabTypes, FileTypes, [Next]_vars PROVE TabTypes'
  OBVIOUS
<1>1. ASSUME UNCHANGED tabs PROVE TabTypes'
  BY <1>1 DEF tabs, TabTypes
<1>2. ASSUME ~(\E t \in Tabs : PageStep(t)) PROVE UNCHANGED tabs
  BY <1>2 DEF Next, vars, ReplaceFile, Publish, ApplyStyles, EditConfigFile, EditFile,
     EditStylesFile, Crash, Restart, RequestStep, BeginReply, ApplyStyle, ExtractMemory,
     RunDynamicPrompt, Styled, Put
<1> QED
  BY <1>1, <1>2, PageTypes
-----------------------------------------------------------------------------
\* Every call finds settings, if only the chat's, and they name a style.
ChatHasSettings == "chat" \in DOMAIN snapshot.settings

\* BuildSnapshot completes the settings with the chat's.
LEMMA SnapshotHasChat ==
  ASSUME NEW raw
  PROVE  "chat" \in DOMAIN BuildSnapshot(raw).settings
<1>1. DOMAIN BuildSnapshot(raw).settings = DOMAIN raw.settings \cup {"chat"}
  BY DEF BuildSnapshot
<1> QED
  BY <1>1

\* Initially the chat has settings.
LEMMA ChatHasSettingsInit == Init => ChatHasSettings
BY SnapshotHasChat DEF Init, ChatHasSettings

\* Every new snapshot has settings for the chat.
LEMMA ChatHasSettingsNext == ChatHasSettings /\ [Next]_vars => ChatHasSettings'
<1> SUFFICES ASSUME ChatHasSettings, [Next]_vars PROVE ChatHasSettings'
  OBVIOUS
<1>1. ASSUME snapshot' = snapshot PROVE ChatHasSettings'
  BY <1>1 DEF ChatHasSettings
<1>2. CASE Publish
  BY <1>2, SnapshotHasChat DEF Publish, ChatHasSettings
<1>3. CASE Restart
  BY <1>3, SnapshotHasChat DEF Restart, ChatHasSettings
<1>4. ASSUME ~Publish, ~Restart PROVE snapshot' = snapshot
  <2>1. CASE UNCHANGED vars
    BY <2>1 DEF vars
  <2>2. ASSUME NEW t \in Tabs, PageStep(t) PROVE snapshot' = snapshot
    BY <2>2 DEF PageStep, OpenConfig, OpenStyles, AddProvider, RemoveProvider,
       RenameProvider, EditModels, SelectProvider, SelectStyle, SetNumbers, Edit, AddStyle,
       RemoveStyle, RenameStyle, EditTitle, EditStyles
  <2>3. ASSUME NEW t \in Tabs, ReplaceFile(t) \/ ApplyStyles(t) PROVE snapshot' = snapshot
    BY <2>3 DEF ReplaceFile, ApplyStyles
  <2>4. ASSUME EditConfigFile \/ (\E k \in Key : EditStylesFile(k)) \/ Crash
        PROVE  snapshot' = snapshot
    BY <2>4 DEF EditConfigFile, EditFile, EditStylesFile, Crash
  <2>5. ASSUME NEW r \in Requests, RequestStep(r) PROVE snapshot' = snapshot
    BY <2>5 DEF RequestStep, BeginReply, ApplyStyle, ExtractMemory, RunDynamicPrompt, Styled, Put
  <2> QED
    BY <1>4, <2>1, <2>2, <2>3, <2>4, <2>5 DEF Next
<1> QED
  BY <1>1, <1>2, <1>3, <1>4

\* The settings that are found for a call refer to a style, default or random.
LEMMA SettingsType ==
  ASSUME FileTypes, ChatHasSettings, NEW feature
  PROVE  SettingsOf(feature).style \in Reference
<1> DEFINE x == IF feature \in DOMAIN snapshot.settings THEN feature ELSE "chat"
<1>1. snapshot.settings[x] \in Setting
  BY DEF ChatHasSettings, FileTypes, IsRawFile, Partial
<1>2. SettingsOf(feature) = snapshot.settings[x]
  BY DEF SettingsOf
<1> HIDE DEF x
<1> QED
  BY <1>1, <1>2 DEF Setting

\* What a reference is resolved to can be recorded.
LEMMA ResolutionType ==
  ASSUME FileTypes, NEW ref \in Reference, NEW res \in Resolutions(ref, styles)
  PROVE  res \in Event
<1>1. Candidates(styles) \subseteq Styles
  BY DEF FileTypes, Key, Configurable, Candidates, LoadConfiguredStyles
<1>2. /\ {"", "default", "random"} \subseteq Reference /\ Styles \subseteq Reference
      /\ ref \in Reference
  BY DEF Reference, Configurable
<1>3. ASSUME NEW a \in Reference, NEW b \in Reference, NEW s \in {"success", "fallback"},
             NEW y \in {"requested_applied", "random_resolved", "default_used",
                       "style_not_found", "random_no_candidates_defaulted",
                       "missing_style_defaulted"}
      PROVE  Resolution(a, b, s, y) \in Event
  BY DEF Resolution, Event, SuccessReasons, FailureReasons
<1>4. \/ res = Resolution("", "default", "success", "missing_style_defaulted")
      \/ res = Resolution(ref, "default", "success", "default_used")
      \/ \E k \in Candidates(styles) : res = Resolution(ref, k, "success", "random_resolved")
      \/ res = Resolution(ref, "default", "fallback", "random_no_candidates_defaulted")
      \/ res = Resolution(ref, ref, "success", "requested_applied")
      \/ res = Resolution(ref, "default", "fallback", "style_not_found")
  BY DEF Resolutions
<1> QED
  BY <1>1, <1>2, <1>3, <1>4

\* What one step does to a request keeps its type and the truth of its trace.
RequestOK == request \in [Requests -> Request] /\ RequestsInv

\* Replacing a request's record by a true one.
LEMMA PutOK ==
  ASSUME RequestOK, NEW r \in Requests, NEW rec \in Request, RequestInv(rec), Put(r, rec)
  PROVE  RequestOK'
BY DEF Put, RequestOK, RequestsInv

\* Resolving the style of a request records the truth.
LEMMA StyledOK ==
  ASSUME RequestOK, FileTypes, NEW r \in Requests, NEW rec \in Request, RequestInv(rec),
         rec.at # "styled", Styled(r, rec)
  PROVE  RequestOK'
<1>1. PICK res \in Resolutions(rec.asked, styles) :
        Put(r, [rec EXCEPT !.at = "styled", !.wrote = res.applied,
                             !.events = rec.events \cup {res}])
  BY DEF Styled
<1> DEFINE new == [rec EXCEPT !.at = "styled", !.wrote = res.applied,
                             !.events = rec.events \cup {res}]
<1>2. rec.asked \in Reference
  BY DEF Request
<1>3. res \in Event /\ res.applied \in Reference
  <2>1. res \in Event
    BY <1>1, <1>2, ResolutionType
  <2> QED
    BY <2>1 DEF Event
<1>4. Told(res, rec.asked, res.applied)
  BY <1>1, ResolutionIsTold DEF FileTypes
<1>5. new \in Request
  BY <1>3 DEF Request
<1>6. /\ new.at = "styled" /\ new.wrote = res.applied /\ new.asked = rec.asked
      /\ new.events = rec.events \cup {res}
  BY DEF Request
<1> HIDE DEF new
<1>7. RequestInv(new)
  <2>1. \E u : new.events = {res, u}
    <3>1. CASE rec.events = {}
      <4>1. new.events = {res, res}
        BY <1>6, <3>1
      <4> QED
        BY <4>1
    <3>2. ASSUME NEW u, rec.events = {u} PROVE new.events = {res, u}
      BY <1>6, <3>2
    <3> QED
      BY <3>1, <3>2 DEF RequestInv
  <2> QED
    BY <1>4, <1>6, <2>1 DEF RequestInv
<1>8. Put(r, new)
  BY <1>1 DEF new
<1> QED
  BY <1>5, <1>7, <1>8, PutOK

\* A request that was not begun has recorded nothing.
LEMMA NoRequestOK == NoRequest \in Request /\ RequestInv(NoRequest)
BY DEF NoRequest, Request, RequestInv, Reference

\* Initially no request has recorded anything.
LEMMA RequestInit == Init => RequestOK
BY NoRequestOK DEF Init, RequestOK, RequestsInv

\* No step makes a request's record false.
LEMMA RequestNext ==
  RequestOK /\ FileTypes /\ ChatHasSettings /\ [Next]_vars => RequestOK'
<1> SUFFICES ASSUME RequestOK, FileTypes, ChatHasSettings, [Next]_vars PROVE RequestOK'
  OBVIOUS
<1> USE ConfigAssumption
<1>1. ASSUME request' = request PROVE RequestOK'
  BY <1>1 DEF RequestOK, RequestsInv
<1>2. ASSUME NEW r \in Requests, NEW feature \in ReplyFeatures, BeginReply(r, feature)
      PROVE  RequestOK'
  <2> DEFINE old == request[r]
             new == [old EXCEPT !.at = "settings", !.asked = SettingsOf(feature).style]
  <2>1. SettingsOf(feature).style \in Reference /\ old \in Request /\ RequestInv(old)
    BY SettingsType DEF RequestOK, RequestsInv
  <2>2. new \in Request /\ new.at = "settings" /\ new.events = old.events /\ old.at # "styled"
    BY <1>2, <2>1 DEF Request, BeginReply
  <2>3. Put(r, new)
    BY <1>2 DEF BeginReply
  <2> HIDE DEF new, old
  <2>4. RequestInv(new)
    BY <2>1, <2>2 DEF RequestInv
  <2> QED
    BY <2>2, <2>3, <2>4, PutOK
<1>3. ASSUME NEW r \in Requests, ApplyStyle(r) PROVE RequestOK'
  BY <1>3, StyledOK DEF ApplyStyle, RequestOK, RequestsInv
<1>4. ASSUME NEW r \in Requests, NEW ref \in Reference, RunDynamicPrompt(r, ref)
      PROVE  RequestOK'
  <2> DEFINE old == request[r]
             new == [old EXCEPT !.asked = ref]
  <2>1. new \in Request /\ new.at = "new" /\ new.events = old.events /\ RequestInv(old)
        /\ old.at = "new"
    BY <1>4 DEF RequestOK, RequestsInv, Request, RunDynamicPrompt
  <2>2. Styled(r, new)
    BY <1>4 DEF RunDynamicPrompt
  <2> HIDE DEF new, old
  <2>3. RequestInv(new) /\ new.at # "styled"
    BY <2>1 DEF RequestInv
  <2> QED
    BY <2>1, <2>2, <2>3, StyledOK
<1>5. ASSUME NEW r \in Requests, ExtractMemory(r) PROVE RequestOK'
  <2> DEFINE u == Unstyled(SettingsOf("user_memory").style)
             new == [request[r] EXCEPT !.at = "extracted", !.events = {u}]
  <2>1. SettingsOf("user_memory").style \in Reference
    BY SettingsType
  <2>2. u \in Event
    BY <2>1 DEF Unstyled, Resolution, Event, SuccessReasons
  <2>3. Put(r, new)
    BY <1>5 DEF ExtractMemory
  <2> HIDE DEF u
  <2>4. new \in Request /\ new.at = "extracted" /\ new.events = {u}
    BY <2>2 DEF RequestOK, Request
  <2> HIDE DEF new
  <2>5. RequestInv(new)
    BY <2>4 DEF RequestInv
  <2> QED
    BY <2>3, <2>4, <2>5, PutOK
<1>6. CASE Crash
  BY <1>6, NoRequestOK DEF Crash, RequestOK, RequestsInv
<1>7. ASSUME ~Crash, ~(\E r \in Requests : RequestStep(r)) PROVE request' = request
  <2>1. CASE UNCHANGED vars
    BY <2>1 DEF vars
  <2>2. ASSUME NEW t \in Tabs, PageStep(t) PROVE request' = request
    BY <2>2 DEF PageStep, OpenConfig, OpenStyles, AddProvider, RemoveProvider,
       RenameProvider, EditModels, SelectProvider, SelectStyle, SetNumbers, Edit, AddStyle,
       RemoveStyle, RenameStyle, EditTitle, EditStyles
  <2>3. ASSUME NEW t \in Tabs, ReplaceFile(t) \/ ApplyStyles(t) PROVE request' = request
    BY <2>3 DEF ReplaceFile, ApplyStyles
  <2>4. ASSUME EditConfigFile \/ (\E k \in Key : EditStylesFile(k)) \/ Publish \/ Restart
        PROVE  request' = request
    BY <2>4 DEF EditConfigFile, EditFile, EditStylesFile, Publish, Restart
  <2> QED
    BY <1>7, <2>1, <2>2, <2>3, <2>4 DEF Next
<1> QED
  BY <1>1, <1>2, <1>3, <1>4, <1>5, <1>6, <1>7 DEF RequestStep
-----------------------------------------------------------------------------
\* The flags, the history and the bounded counters.
CounterTypes ==
  /\ up \in BOOLEAN /\ edited \in BOOLEAN /\ orphaned \subseteq Reference
  /\ edits \in 0..MaxEdits /\ failures \in 0..MaxFailures

\* Initially nothing has been edited and nothing has failed.
LEMMA CounterTypesInit == Init => CounterTypes
<1>1. MaxEdits \in Nat /\ MaxFailures \in Nat
  BY ConfigAssumption
<1>2. 0 \in 0..MaxEdits /\ 0 \in 0..MaxFailures
  BY <1>1
<1> QED
  BY <1>2 DEF Init, CounterTypes

\* A counter that is below its bound can be counted on.
LEMMA Counted ==
  ASSUME NEW max \in Nat, NEW n \in 0..max, n < max
  PROVE  n + 1 \in 0..max
OBVIOUS

\* The counters stay within their bounds, the history within the references.
LEMMA CounterTypesNext == CounterTypes /\ FileTypes /\ FileTypes' /\ [Next]_vars => CounterTypes'
<1> SUFFICES ASSUME CounterTypes, FileTypes, FileTypes', [Next]_vars PROVE CounterTypes'
  OBVIOUS
<1> USE DEF CounterTypes
<1>0. MaxEdits \in Nat /\ MaxFailures \in Nat
  BY ConfigAssumption
<1>3. /\ edits < MaxEdits => edits + 1 \in 0..MaxEdits
      /\ failures < MaxFailures => failures + 1 \in 0..MaxFailures
  BY <1>0, Counted
<1>1. CASE UNCHANGED vars
  BY <1>1 DEF vars, disk
<1>2. ASSUME NEW t \in Tabs, PageStep(t) PROVE CounterTypes'
  <2>1. /\ UNCHANGED <<up, edited, orphaned, failures>>
        /\ edits' = edits \/ (edits < MaxEdits /\ edits' = edits + 1)
    BY <1>2 DEF PageStep, OpenConfig, OpenStyles, AddProvider, RemoveProvider,
       RenameProvider, EditModels, SelectProvider, SelectStyle, SetNumbers, Edit, AddStyle,
       RemoveStyle, RenameStyle, EditTitle, EditStyles, disk
  <2> QED
    BY <1>3, <2>1
<1>4. ASSUME NEW new PROVE Removed(new) \subseteq Reference
  BY DEF Removed, LoadConfiguredStyles, FileTypes, Key, Reference
<1>5. ASSUME NEW t \in Tabs, ReplaceFile(t) \/ ApplyStyles(t) PROVE CounterTypes'
  BY <1>4, <1>5 DEF ReplaceFile, ApplyStyles
<1>6. CASE Publish
  BY <1>6 DEF Publish, disk
<1>7. ASSUME NEW raw, EditFile(raw) PROVE CounterTypes'
  <2>1. {raw.settings[f].style : f \in DOMAIN raw.settings} \subseteq Reference
    <3>1. \A f \in DOMAIN raw.settings : raw.settings[f] \in Setting
      BY <1>7 DEF EditFile, FileTypes, IsRawFile, Partial
    <3> QED
      BY <3>1 DEF Setting
  <2> QED
    BY <1>3, <1>7, <2>1 DEF EditFile
<1>8. CASE EditConfigFile
  BY <1>7, <1>8 DEF EditConfigFile
<1>9. ASSUME NEW k \in Key, EditStylesFile(k) PROVE CounterTypes'
  BY <1>3, <1>4, <1>9 DEF EditStylesFile
<1>10. CASE Crash
  BY <1>3, <1>10 DEF Crash, disk
<1>11. CASE Restart
  BY <1>11 DEF Restart
<1>12. ASSUME NEW r \in Requests, RequestStep(r) PROVE CounterTypes'
  BY <1>12 DEF RequestStep, BeginReply, ApplyStyle, ExtractMemory, RunDynamicPrompt, Styled, Put,
     disk
<1> QED
  BY <1>1, <1>2, <1>5, <1>6, <1>8, <1>9, <1>10, <1>11, <1>12 DEF Next

\* All that is invariant.
IInv ==
  /\ FileTypes /\ TabTypes /\ CounterTypes
  /\ FilesInv
  /\ ChatHasSettings /\ RequestOK

\* Every reachable state satisfies the inductive invariant: the files and the snapshot
\* agree through applies, edits by hand, crashes and restarts, and what is recorded of a
\* request is true.
THEOREM Invariance == Spec => []IInv
<1>1. Init => IInv
  BY FileTypesInit, TabTypesInit, CounterTypesInit, FilesInit, ChatHasSettingsInit, RequestInit
  DEF IInv
<1>2. IInv /\ [Next]_vars => IInv'
  BY FileTypesNext, TabTypesNext, CounterTypesNext, FilesNext, ChatHasSettingsNext, RequestNext
  DEF IInv
<1> QED
  BY <1>1, <1>2, PTL DEF Spec

\* The files, the forms and the requests of ConfigAdmin have their types.
THEOREM TypeCorrect == Spec => []TypeOK
<1>1. IInv => TypeOK
  BY DEF IInv, FileTypes, TabTypes, CounterTypes, RequestOK, TypeOK
<1> QED
  BY <1>1, Invariance, PTL

\* The registry serves the configuration that apply_form_data or a restart left in the
\* file (llm_config_admin_service.py, llm_registry.py).
THEOREM SnapshotIsTheFiles == Spec => []ServedIsSaved
<1>1. IInv => ServedIsSaved
  BY DEF IInv, FilesInv
<1> QED
  BY <1>1, Invariance, PTL

\* What the form wrote loads when the process starts again, and no snapshot sends a
\* feature to a provider that it does not have.
THEOREM FormsNeverBreakTheStart == Spec => []FormsKeepItLoadable
<1>1. IInv => FormsKeepItLoadable
  BY DEF IInv, FilesInv, Routed, FormsKeepItLoadable
<1> QED
  BY <1>1, Invariance, PTL

\* However old the form in a tab is, an apply brings in no reference to a style that does
\* not exist.
THEOREM DanglingIsExplained == Spec => []DanglingWasRemoved
<1>1. IInv => DanglingWasRemoved
  BY DEF IInv, FilesInv, Covered, DanglingWasRemoved
<1> QED
  BY <1>1, Invariance, PTL

\* The trace pages name the style in which the reply was written and call a style that
\* could not be applied a failure (trace_status.py, trace_read_service.py).
THEOREM TraceIsTrue == Spec => []TraceTellsStyle
<1>1. IInv => TraceTellsStyle
  BY RequestsTell DEF IInv, RequestOK
<1> QED
  BY <1>1, Invariance, PTL
=============================================================================
