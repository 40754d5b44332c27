------------------------- MODULE MCPromptPlayground -------------------------
(* PromptPlayground with one or both parts of a prompt.                    *)
EXTENDS PromptPlayground, TLC

BothParts == <<"system_prompt", "template_prompt">>
OnePart == <<"template_prompt">>

\* For safety only, when every name has files at the start.
Symmetry == Permutations(Slots) \cup Permutations(Names)
=============================================================================
