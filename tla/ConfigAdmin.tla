---------------------------- MODULE ConfigAdmin ----------------------------
(***************************************************************************)
(* Two configuration files that are edited while the service runs          *)
(* (services/llm_config_admin_service.py, styles_admin_service.py,         *)
(* llm_registry.py, api/admin_routes.py): the models' is served from a     *)
(* snapshot in memory, the styles' is read anew for every reply.  Admins   *)
(* have the forms open in several tabs, the files can be edited by hand,   *)
(* the process can die at any step.                                        *)
(*                                                                         *)
(* The two applies run on the event loop, one after the other; pages and   *)
(* replies run in threads beside them.                                     *)
(***************************************************************************)
EXTENDS Styles

CONSTANTS
  Providers,    \* names of providers
  Features,     \* SUPPORTED_FEATURE_NAMES
  Tabs,         \* pages that are open
  Requests,     \* requests for a text, each made once
  FirstFile,    \* the models' configuration at the start
  FirstStyles,  \* the styles file at the start
  MaxEdits,     \* bound: edits of forms and files
  MaxFailures   \* bound: crashes

Name == Providers \cup {""}
RowId == Providers \cup NewRows
Kind == {"supported", "unsupported"}
Numbers == {"in range", "out of range", "no numbers"}
Setting == [provider : Name, style : Reference, numbers : Numbers]

\* usable: there are models, their fields are filled in and their names differ.
Row == [name : Name, kind : Kind, usable : BOOLEAN]
IsRawFile(raw) ==
  /\ raw = [rows |-> raw.rows, settings |-> raw.settings]
  /\ Partial(raw.rows, Providers, [kind : Kind, usable : BOOLEAN])
  /\ Partial(raw.settings, Features, Setting)
EmptyFile == [rows |-> <<>>, settings |-> <<>>]

\* The form of the LLM Config screen; remembered is what the provider select keeps
\* in its dataset, options are the styles that the style select offers.
Choice == [provider : Name, remembered : Name, style : Reference, numbers : Numbers]
IsForm(f) ==
  /\ f = [rows |-> f.rows, settings |-> f.settings, options |-> f.options]
  /\ Partial(f.rows, RowId, Row)
  /\ f.settings \in [Features -> Choice]
  /\ f.options \in [Features -> SUBSET Reference]

VARIABLES
  file,        \* the models' configuration file
  snapshot,    \* LLMRegistry._snapshot
  publishing,  \* the configuration the event loop is about to publish, if any
  styles,      \* the styles file
  up,          \* the process runs
  screen, form, styleForm,   \* what each tab shows
  request,
  edits, failures,
  edited,      \* history: the file was edited by hand since it was last applied or loaded
  orphaned     \* history: styles removed, or referred to by hand, since the last apply

disk == <<file, styles, edited, orphaned>>
tabs == <<screen, form, styleForm>>
vars == <<disk, snapshot, publishing, up, tabs, request, edits, failures>>
-----------------------------------------------------------------------------
(* Reading a configuration.                                                *)

Loadable(raw) ==
  /\ DOMAIN raw.rows # {}
  /\ \A n \in DOMAIN raw.rows : raw.rows[n].usable
  /\ \A f \in DOMAIN raw.settings :
       raw.settings[f].provider \in DOMAIN raw.rows /\ raw.settings[f].numbers # "no numbers"

NamedStyle(setting) ==
  [provider |-> setting.provider, numbers |-> setting.numbers,
   style |-> IF setting.style = "" THEN "default" ELSE setting.style]

\* Chat falls back to the first provider; which one it is does not matter here.
BuildSnapshot(raw) ==
  [rows |-> raw.rows,
   settings |->
     [f \in DOMAIN raw.settings \cup {"chat"} |->
        IF f \in DOMAIN raw.settings THEN NamedStyle(raw.settings[f])
        ELSE [provider |-> CHOOSE n \in DOMAIN raw.rows : TRUE, style |-> "default",
              numbers |-> "in range"]]]

\* A first configuration that the registry loads and whose styles exist.
ASSUME ConfigAssumption ==
  /\ {"chat", "user_memory"} \subseteq Features
  /\ "" \notin Providers /\ NewRows # {}
  /\ IsRawFile(FirstFile) /\ Loadable(FirstFile)
  /\ FirstStyles \subseteq Key
  /\ \A f \in DOMAIN FirstFile.settings :
       ValidReference(FirstFile.settings[f].style, FirstStyles)
  /\ MaxEdits \in Nat /\ MaxFailures \in Nat

SettingsOf(feature) ==
  snapshot.settings[IF feature \in DOMAIN snapshot.settings THEN feature ELSE "chat"]
-----------------------------------------------------------------------------
(* The form of the LLM Config screen.                                      *)

BlankRow == [name |-> "", kind |-> "supported", usable |-> FALSE]
NoSetting == [provider |-> "", style |-> "", numbers |-> "in range"]

ProviderNames(rows) == {rows[i].name : i \in DOMAIN rows} \ {""}

\* build_view_model and the script that fills the page: an empty file shows the
\* snapshot, a provider select its first option when it has not the one it should, a style
\* select offers a style that does not exist if it is the current one.
ViewModel ==
  LET raw == IF file = EmptyFile THEN snapshot ELSE file
      shown == [n \in DOMAIN raw.rows |->
                  [name |-> n, kind |-> "supported", usable |-> raw.rows[n].usable]]
      setting(f) == IF f \in DOMAIN raw.settings THEN raw.settings[f] ELSE NoSetting
      offered(f) == IF setting(f).provider \in DOMAIN raw.rows THEN setting(f).provider ELSE ""
  IN [rows |-> IF DOMAIN raw.rows # {} THEN shown
               ELSE [i \in {CHOOSE r \in NewRows : TRUE} |-> BlankRow],
      settings |-> [f \in Features |->
                      [provider |-> offered(f), remembered |-> offered(f),
                       style |-> setting(f).style, numbers |-> setting(f).numbers]],
      options |-> [f \in Features |-> SelectorOptions(styles) \cup {setting(f).style}]]

\* syncFeatureProviderOptions: a choice that is no longer offered is taken back.
Sync(rows, settings) ==
  [f \in Features |->
     LET current == IF settings[f].remembered # "" THEN settings[f].remembered
                    ELSE settings[f].provider
         kept == IF current \in ProviderNames(rows) THEN current ELSE ""
     IN [settings[f] EXCEPT !.provider = kept, !.remembered = kept]]

\* AdminLLMConfig, validate_raw and the references to styles.
FaultyValidForm(f) ==
  /\ DOMAIN f.rows # {}
  /\ \A i \in DOMAIN f.rows :
        f.rows[i].name # "" /\ f.rows[i].kind = "supported" /\ f.rows[i].usable
  /\ \A i, j \in DOMAIN f.rows : f.rows[i].name = f.rows[j].name => i = j
  /\ \A x \in Features :
       f.settings[x].numbers = "in range" /\ ValidReference(f.settings[x].style, styles)

FaultyReference(f) ==
  /\ DOMAIN f.rows # {}
  /\ \A i \in DOMAIN f.rows :
        f.rows[i].name # "" /\ f.rows[i].kind = "supported" /\ f.rows[i].usable
  /\ \A i, j \in DOMAIN f.rows : f.rows[i].name = f.rows[j].name => i = j
  /\ \A x \in Features :
       /\ f.settings[x].provider \in ProviderNames(f.rows)
       /\ f.settings[x].numbers = "in range"
       /\ f.settings[x].style \in f.options[x]

ValidForm(f) ==
  /\ DOMAIN f.rows # {}
  /\ \A i \in DOMAIN f.rows :
        f.rows[i].name # "" /\ f.rows[i].kind = "supported" /\ f.rows[i].usable
  /\ \A i, j \in DOMAIN f.rows : f.rows[i].name = f.rows[j].name => i = j
  /\ \A x \in Features :
       /\ f.settings[x].provider \in ProviderNames(f.rows)
       /\ f.settings[x].numbers = "in range"
       /\ ValidReference(f.settings[x].style, styles)

RawOf(f) ==
  [rows |-> [n \in ProviderNames(f.rows) |->
               LET i == CHOOSE i \in DOMAIN f.rows : f.rows[i].name = n
               IN [kind |-> f.rows[i].kind, usable |-> f.rows[i].usable]],
   settings |-> [x \in Features |->
                   [provider |-> f.settings[x].provider, style |-> f.settings[x].style,
                    numbers |-> f.settings[x].numbers]]]
-----------------------------------------------------------------------------
NoForm == [rows |-> <<>>,
           settings |-> [f \in Features |->
                           [provider |-> "", remembered |-> "", style |-> "",
                            numbers |-> "in range"]],
           options |-> [f \in Features |-> {}]]

NoRequest == [at |-> "new", asked |-> "", wrote |-> "", events |-> {}]

Init ==
  /\ file = FirstFile /\ styles = FirstStyles
  /\ snapshot = BuildSnapshot(file)
  /\ publishing = {} /\ up = TRUE
  /\ screen = [t \in Tabs |-> "none"]
  /\ form = [t \in Tabs |-> NoForm]
  /\ styleForm = [t \in Tabs |-> <<>>]
  /\ request = [r \in Requests |-> NoRequest]
  /\ edits = 0 /\ failures = 0
  /\ edited = FALSE /\ orphaned = {}
-----------------------------------------------------------------------------
(* The pages.                                                              *)

OpenConfig(t) ==
  /\ up
  /\ screen' = [screen EXCEPT ![t] = "config"]
  /\ form' = [form EXCEPT ![t] = ViewModel]
  /\ styleForm' = [styleForm EXCEPT ![t] = <<>>]
  /\ UNCHANGED <<disk, snapshot, publishing, up, request, edits, failures>>

OpenStyles(t) ==
  /\ up
  /\ screen' = [screen EXCEPT ![t] = "styles"]
  /\ form' = [form EXCEPT ![t] = NoForm]
  /\ styleForm' = [styleForm EXCEPT ![t] = ListedStyles(styles)]
  /\ UNCHANGED <<disk, snapshot, publishing, up, request, edits, failures>>

Edit(t, rows, settings) ==
  /\ screen[t] = "config" /\ edits < MaxEdits
  /\ form' = [form EXCEPT ![t] = [rows |-> rows, settings |-> settings,
                                  options |-> form[t].options]]
  /\ edits' = edits + 1
  /\ UNCHANGED <<disk, snapshot, publishing, up, screen, styleForm, request, failures>>

AddProvider(t, r) ==
  /\ r \notin DOMAIN form[t].rows
  /\ Edit(t, [i \in DOMAIN form[t].rows \cup {r} |->
                IF i = r THEN BlankRow ELSE form[t].rows[i]], form[t].settings)

RemoveProvider(t, i) ==
  LET rows == [j \in DOMAIN form[t].rows \ {i} |-> form[t].rows[j]]
  IN i \in DOMAIN form[t].rows /\ Edit(t, rows, Sync(rows, form[t].settings))

RenameProvider(t, i, n) ==
  LET rows == [form[t].rows EXCEPT ![i].name = n]
  IN i \in DOMAIN form[t].rows /\ Edit(t, rows, Sync(rows, form[t].settings))

EditModels(t, i, b) ==
  /\ i \in DOMAIN form[t].rows
  /\ Edit(t, [form[t].rows EXCEPT ![i].usable = b], form[t].settings)

\* The select alone has the new choice: its dataset keeps the old one.
SelectProvider(t, x, n) ==
  /\ n \in ProviderNames(form[t].rows) \cup {""}
  /\ Edit(t, form[t].rows, [form[t].settings EXCEPT ![x].provider = n])

SelectStyle(t, x, s) ==
  /\ s \in form[t].options[x]
  /\ Edit(t, form[t].rows, [form[t].settings EXCEPT ![x].style = s])

SetNumbers(t, x, v) == Edit(t, form[t].rows, [form[t].settings EXCEPT ![x].numbers = v])

EditStyles(t, rows) ==
  /\ screen[t] = "styles" /\ edits < MaxEdits
  /\ styleForm' = [styleForm EXCEPT ![t] = rows]
  /\ edits' = edits + 1
  /\ UNCHANGED <<disk, snapshot, publishing, up, screen, form, request, failures>>

AddStyle(t, r) ==
  /\ r \notin DOMAIN styleForm[t]
  /\ EditStyles(t, [k \in DOMAIN styleForm[t] \cup {r} |->
                      IF k = r THEN BlankStyle ELSE styleForm[t][k]])

RemoveStyle(t, k) ==
  /\ k \in DOMAIN styleForm[t] /\ ~styleForm[t][k].system
  /\ EditStyles(t, [j \in DOMAIN styleForm[t] \ {k} |-> styleForm[t][j]])

\* The name of the default style cannot be edited.
RenameStyle(t, k, n) ==
  /\ k \in DOMAIN styleForm[t] /\ ~styleForm[t][k].system
  /\ EditStyles(t, [styleForm[t] EXCEPT ![k].name = n])

EditTitle(t, k, b) ==
  /\ k \in DOMAIN styleForm[t]
  /\ EditStyles(t, [styleForm[t] EXCEPT ![k].titled = b])
-----------------------------------------------------------------------------
(* The applies.                                                            *)

\* apply_form_data up to the replacement of the file.
ReplaceFile(t) ==
  /\ up /\ publishing = {} /\ screen[t] = "config" /\ ValidForm(form[t])
  /\ file' = RawOf(form[t])
  /\ publishing' = {RawOf(form[t])}
  /\ edited' = FALSE /\ orphaned' = {}
  /\ UNCHANGED <<snapshot, styles, up, tabs, request, edits, failures>>

\* The registry is not told.
FaultyPublish ==
  /\ up /\ publishing # {}
  /\ publishing' = {}
  /\ UNCHANGED <<disk, snapshot, up, tabs, request, edits, failures>>

Publish ==
  /\ up
  /\ \E raw \in publishing : snapshot' = BuildSnapshot(raw)
  /\ publishing' = {}
  /\ UNCHANGED <<disk, up, tabs, request, edits, failures>>

Removed(new) == LoadConfiguredStyles(styles) \ LoadConfiguredStyles(new)

ApplyStyles(t) ==
  /\ up /\ publishing = {} /\ screen[t] = "styles" /\ ValidStyleForm(styleForm[t])
  /\ styles' = StylesOf(styleForm[t])
  /\ orphaned' = orphaned \cup Removed(StylesOf(styleForm[t]))
  /\ UNCHANGED <<file, edited, snapshot, publishing, up, tabs, request, edits, failures>>
-----------------------------------------------------------------------------
(* Editors of the files, crashes.                                          *)

EditFile(raw) ==
  /\ edits < MaxEdits /\ edits' = edits + 1
  /\ file' = raw
  /\ edited' = TRUE
  /\ orphaned' = orphaned \cup {raw.settings[f].style : f \in DOMAIN raw.settings}
  /\ UNCHANGED <<snapshot, publishing, styles, up, tabs, request, failures>>

\* Any entry of the file may be changed, or all of it emptied.
EditConfigFile ==
  \/ EditFile(EmptyFile)
  \/ \E n \in DOMAIN file.rows, row \in [kind : Kind, usable : BOOLEAN] :
       \/ EditFile([file EXCEPT !.rows[n] = row])
       \/ EditFile([file EXCEPT !.rows = [k \in DOMAIN @ \ {n} |-> @[k]]])
  \/ \E f \in DOMAIN file.settings :
       \/ \E n \in Name : EditFile([file EXCEPT !.settings[f].provider = n])
       \/ \E s \in Reference : EditFile([file EXCEPT !.settings[f].style = s])
       \/ \E v \in Numbers : EditFile([file EXCEPT !.settings[f].numbers = v])
       \/ EditFile([file EXCEPT !.settings = [k \in DOMAIN @ \ {f} |-> @[k]]])

EditStylesFile(k) ==
  LET new == IF k \in styles THEN styles \ {k} ELSE styles \cup {k} IN
  /\ edits < MaxEdits /\ edits' = edits + 1
  /\ styles' = new
  /\ orphaned' = orphaned \cup Removed(new)
  /\ UNCHANGED <<file, edited, snapshot, publishing, up, tabs, request, failures>>

Crash ==
  /\ up /\ failures < MaxFailures
  /\ up' = FALSE /\ failures' = failures + 1
  /\ publishing' = {}
  /\ request' = [r \in Requests |-> NoRequest]
  /\ UNCHANGED <<disk, snapshot, tabs, edits>>

\* LLMRegistry reads the file when the process starts; it does not start otherwise.
Restart ==
  /\ ~up /\ Loadable(file)
  /\ up' = TRUE
  /\ snapshot' = BuildSnapshot(file)
  /\ edited' = FALSE
  /\ UNCHANGED <<file, styles, orphaned, publishing, tabs, request, edits, failures>>
-----------------------------------------------------------------------------
(* A reply in a style, and the extraction before a dossier, which has none. *)

Put(r, rec) ==
  /\ up
  /\ request' = [request EXCEPT ![r] = rec]
  /\ UNCHANGED <<disk, snapshot, publishing, up, tabs, edits, failures>>

\* refresh_user_memory_if_needed, before a dossier is written: the call's settings name a
\* style that its prompt does not use.  RequestTrace tells whether the dossier goes on.
ExtractMemory(r) ==
  /\ request[r].at = "new"
  /\ Put(r, [request[r] EXCEPT !.at = "extracted",
                               !.events = {Unstyled(SettingsOf("user_memory").style)}])

\* The features whose handlers write in the style of their settings.
ReplyFeatures == {"chat", "weekly_movies", "dossier"}

BeginReply(r, feature) ==
  /\ request[r].at = "new" \/ (request[r].at = "extracted" /\ feature = "dossier")
  /\ Put(r, [request[r] EXCEPT !.at = "settings", !.asked = SettingsOf(feature).style])

Styled(r, rec) ==
  \E res \in Resolutions(rec.asked, styles) :
    Put(r, [rec EXCEPT !.at = "styled", !.wrote = res.applied, !.events = @ \cup {res}])

ApplyStyle(r) == request[r].at = "settings" /\ Styled(r, request[r])

\* A dynamic prompt may ask for any style, whatever the settings say.
RunDynamicPrompt(r, ref) ==
  /\ request[r].at = "new"
  /\ Styled(r, [request[r] EXCEPT !.asked = ref])
-----------------------------------------------------------------------------
PageStep(t) ==
  \/ OpenConfig(t) \/ OpenStyles(t)
  \/ \E i \in RowId : \/ i \in NewRows /\ AddProvider(t, i)
                      \/ RemoveProvider(t, i)
                      \/ \E n \in Name : RenameProvider(t, i, n)
                      \/ \E b \in BOOLEAN : EditModels(t, i, b)
  \/ \E x \in Features : \/ \E n \in Name : SelectProvider(t, x, n)
                         \/ \E s \in Reference : SelectStyle(t, x, s)
                         \/ \E v \in Numbers : SetNumbers(t, x, v)
  \/ \E r \in NewRows : AddStyle(t, r)
  \/ \E k \in StyleRowId :
       \/ RemoveStyle(t, k)
       \/ \E n \in Key \cup {"", NoSlug} : RenameStyle(t, k, n)
       \/ \E b \in BOOLEAN : EditTitle(t, k, b)

RequestStep(r) ==
  \/ ExtractMemory(r) \/ ApplyStyle(r)
  \/ \E feature \in ReplyFeatures : BeginReply(r, feature)
  \/ \E ref \in Reference : RunDynamicPrompt(r, ref)

Next ==
  \/ \E t \in Tabs : PageStep(t) \/ ReplaceFile(t) \/ ApplyStyles(t)
  \/ Publish
  \/ EditConfigFile \/ (\E k \in Key : EditStylesFile(k))
  \/ Crash \/ Restart
  \/ \E r \in Requests : RequestStep(r)

Spec == Init /\ [][Next]_vars
-----------------------------------------------------------------------------
Request == [at : {"new", "extracted", "settings", "styled"},
            asked : Reference, wrote : Reference, events : SUBSET Event]

TypeOK ==
  /\ IsRawFile(file) /\ IsRawFile(snapshot)
  /\ \A raw \in publishing : IsRawFile(raw)
  /\ styles \subseteq Key
  /\ up \in BOOLEAN /\ edited \in BOOLEAN /\ orphaned \subseteq Reference
  /\ screen \in [Tabs -> {"none", "config", "styles"}]
  /\ form = [t \in Tabs |-> form[t]] /\ styleForm = [t \in Tabs |-> styleForm[t]]
  /\ \A t \in Tabs : IsForm(form[t]) /\ Partial(styleForm[t], StyleRowId, StyleRow)
  /\ request \in [Requests -> Request]
  /\ edits \in 0..MaxEdits /\ failures \in 0..MaxFailures

\* What is served is what is saved: outside an apply, and unless the file was edited by
\* hand, the snapshot is the file's, whatever apply or crash came in between.
ServedIsSaved ==
  up /\ publishing = {} /\ ~edited => snapshot = BuildSnapshot(file)

\* A file that was written by the form can be loaded when the process starts again, and
\* the snapshot never sends a feature to a provider it does not have.
FormsKeepItLoadable ==
  /\ ~edited => Loadable(file)
  /\ \A f \in DOMAIN snapshot.settings : snapshot.settings[f].provider \in DOMAIN snapshot.rows

\* A feature refers to a style that does not exist only because the style was removed
\* after the configuration was applied, or because of an edit by hand: however old the
\* form in the tab is, applying it brings in no such reference.
DanglingWasRemoved ==
  /\ \A f \in DOMAIN file.settings :
       ValidReference(file.settings[f].style, styles) \/ file.settings[f].style \in orphaned
  /\ up /\ publishing = {} => \A f \in DOMAIN snapshot.settings :
       ValidReference(snapshot.settings[f].style, styles) \/ snapshot.settings[f].style \in orphaned

\* The trace tells in which style the reply was written: "applied" only of the style that
\* was asked for, a style that could not be applied is a failure in the tone and in the
\* result alike, and a run that names one style names the reply's.
TraceTellsStyle ==
  \A r \in Requests : request[r].at = "styled" =>
    /\ \E e \in request[r].events :
         /\ e.applied = request[r].wrote
         /\ Tone(e) = "failure" <=> ResultOf(e) = "fallback"
         /\ ResultOf(e) = "applied" => request[r].wrote = request[r].asked
         /\ request[r].asked \in Configurable =>
              (request[r].wrote = request[r].asked <=> ResultOf(e) = "applied")
    /\ DerivedStyle(request[r].events) \in {request[r].wrote, "multiple"}
=============================================================================
