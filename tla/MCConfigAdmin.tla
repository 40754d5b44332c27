--------------------------- MODULE MCConfigAdmin ---------------------------
(* ConfigAdmin with one provider, two features and one style at the start. *)
EXTENDS ConfigAdmin, TLC

TwoFeatures == {"chat", "user_memory"}

OneProvider ==
  [rows |-> [n \in {"p"} |-> [kind |-> "supported", usable |-> TRUE]],
   settings |-> [f \in TwoFeatures |->
                   [provider |-> "p", style |-> "default", numbers |-> "in range"]]]

DefaultAndFun == {"default", "fun"}

TabSymmetry == Permutations(Tabs)
=============================================================================
