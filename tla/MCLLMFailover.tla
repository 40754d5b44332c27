---------------------------- MODULE MCLLMFailover ----------------------------
(* Small instances of LLMFailover for TLC: the files that can be applied,   *)
(* or found on disk at a start.                                             *)
EXTENDS LLMFailover, TLC

CONSTANTS main, backup, a, b, c, k1, k2, chat, dossier, openai, llama

E(name, cred) == [name |-> name, cred |-> cred]

\* As in llm_profiles.yml.example, two pools use the same model name.
Base == [pools |-> {main, backup}, first |-> main,
         models |-> main :> <<E(a, k1), E(b, k1), E(c, k1)>> @@ backup :> <<E(a, k2)>>,
         kind |-> [p \in Pools |-> openai], features |-> {chat, dossier},
         route |-> chat :> main @@ dossier :> backup]

\* One model replaced, another one's key changed under its old name.
Rotated == [Base EXCEPT !.models[main] = <<E(b, k2), E(c, k1)>>]
\* The second pool is gone; no feature is configured.
Shrunk == [Base EXCEPT !.pools = {main}, !.features = {}]
\* Edited by hand: a provider type that is not supported.
Unknown == [Base EXCEPT !.kind[backup] = llama]
\* Edited by hand and not accepted: a feature of a pool that is gone.
Dangling == [Base EXCEPT !.pools = {main}]
\* Edited by hand and not accepted: a model name twice in a pool.
Twice == [Base EXCEPT !.models[main] = <<E(a, k1), E(a, k2)>>]

AllFiles == {Base, Rotated, Shrunk, Unknown, Dangling, Twice}

FewFiles == {Base, Rotated}

Symmetry == Permutations(Requests)
=============================================================================
