------------------------------- MODULE Styles -------------------------------
(***************************************************************************)
(* The styles file, what a reference to a style resolves to, and what the  *)
(* trace pages tell of it (services/style_registry.py, style_prompt.py,    *)
(* styles_admin_service.py, observability/trace_status.py,                 *)
(* services/trace_read_service.py).  Names stand for their trimmed,        *)
(* lower-case form, instructions are left out.                             *)
(***************************************************************************)
EXTENDS Integers, FiniteSets

CONSTANTS
  Styles,     \* names of styles that can be configured, besides default
  NoSlug,     \* a name that STYLE_NAME_PATTERN refuses
  NewRows     \* bound: rows that are added to a form

ASSUME StyleAssumption ==
  /\ {"", "default", "random", "multiple"} \cap (Styles \cup {NoSlug}) = {}
  /\ NoSlug \notin Styles

\* f is a function from some of S to T.
Partial(f, S, T) == DOMAIN f \subseteq S /\ f \in [DOMAIN f -> T]

Configurable == Styles \cup {"default"}
Reference == Configurable \cup {"", "random"}

\* A styles file is the set of the keys it configures.  Only an editor of the file can
\* configure "random" or leave out "default".
Key == Configurable \cup {"random"}

LoadConfiguredStyles(file) == file \cup {"default"}

SelectorOptions(file) == {"", "random"} \cup LoadConfiguredStyles(file)

ValidReference(ref, file) == ref \in SelectorOptions(file)
-----------------------------------------------------------------------------
(* The form of the Styles screen.  A listed style is in the row of its key *)
(* until the row is renamed.                                               *)

StyleRow == [name : Key \cup {"", NoSlug}, titled : BOOLEAN, system : BOOLEAN]
StyleRowId == Key \cup NewRows

ListedStyles(file) ==
  [k \in LoadConfiguredStyles(file) |-> [name |-> k, titled |-> TRUE, system |-> k = "default"]]

BlankStyle == [name |-> "", titled |-> FALSE, system |-> FALSE]

\* A row whose name is blank is dropped.
Named(form) == {i \in DOMAIN form : form[i].name # ""}

ValidStyles(form) ==
  /\ \A i \in Named(form) : form[i].name \notin {NoSlug, "random"}
  /\ \A i, j \in Named(form) : form[i].name = form[j].name => i = j
  /\ \E i \in Named(form) : form[i].name = "default"

\* The row of the default style keeps its name, and its title.
ValidStyleForm(form) ==
  /\ ValidStyles(form)
  /\ \A i \in DOMAIN form : form[i].system => form[i].name = "default"
  /\ \A i \in DOMAIN form : form[i].name = "default" => form[i].titled

FaultyStylesOf(form) == {form[i].name : i \in DOMAIN form}

StylesOf(form) == {form[i].name : i \in Named(form)}
-----------------------------------------------------------------------------
(* Resolving a reference; random picks any of the styles.                  *)

Resolution(requested, applied, status, reason) ==
  [requested |-> requested, applied |-> applied, status |-> status, reason |-> reason]

Candidates(file) == LoadConfiguredStyles(file) \ {"default", "random"}

\* A style that does not exist is passed off as the one that was applied.
FaultyResolutions(ref, file) ==
  IF ref = "" THEN {Resolution("", "default", "success", "missing_style_defaulted")}
  ELSE IF ref = "random" THEN {Resolution(ref, k, "success", "random_resolved") : k \in Candidates(file)}
  ELSE IF ref = "default" THEN {Resolution(ref, ref, "success", "default_used")}
  ELSE {Resolution(ref, IF ref \in file THEN ref ELSE "default", "success", "requested_applied")}

Resolutions(ref, file) ==
  CASE ref = "" -> {Resolution("", "default", "success", "missing_style_defaulted")}
    [] ref = "default" -> {Resolution(ref, "default", "success", "default_used")}
    [] ref = "random" /\ Candidates(file) # {} ->
         {Resolution(ref, k, "success", "random_resolved") : k \in Candidates(file)}
    [] ref = "random" /\ Candidates(file) = {} ->
         {Resolution(ref, "default", "fallback", "random_no_candidates_defaulted")}
    [] ref \in Candidates(file) -> {Resolution(ref, ref, "success", "requested_applied")}
    [] OTHER -> {Resolution(ref, "default", "fallback", "style_not_found")}

\* What generate_text_with_pool records of a call whose prompt has no style.
Unstyled(ref) == Resolution(ref, ref, "success", "requested_applied")
-----------------------------------------------------------------------------
(* What is shown of a recorded resolution.                                 *)

SuccessReasons == {"requested_applied", "random_resolved", "default_used"}
FailureReasons == {"style_not_found", "invalid_style_fallback", "random_no_candidates_defaulted"}

Event == [requested : Reference, applied : Reference, status : {"success", "fallback"},
          reason : SuccessReasons \cup FailureReasons \cup {"missing_style_defaulted"}]

Failed(e) == e.status \in {"fallback", "failed"} \/ e.reason \in FailureReasons

Tone(e) ==
  LET both == e.requested # "" /\ e.applied # ""
  IN CASE Failed(e) -> "failure"
       [] ~Failed(e) /\ (e.reason \in SuccessReasons \/ (e.status = "success" /\ e.reason = ""))
            -> "success"
       [] OTHER -> IF ~both THEN "neutral"
                   ELSE IF e.requested = e.applied THEN "success" ELSE "failure"

ResultOf(e) ==
  CASE Failed(e) -> "fallback"
    [] ~Failed(e) /\ e.status # "success" -> "unknown"
    [] OTHER -> IF e.reason # "random_resolved"
                   /\ (e.requested = e.applied \/ e.reason = "requested_applied")
                THEN "applied" ELSE "resolved"

\* The style in the head of a run, from all its events.
SingleOrMultiple(values) ==
  IF Cardinality(values) = 1 THEN CHOOSE v \in values : TRUE
  ELSE IF values = {} THEN "" ELSE "multiple"

DerivedStyle(events) == SingleOrMultiple({e.applied : e \in events} \ {""})
=============================================================================
