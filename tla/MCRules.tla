------------------------------- MODULE MCRules ---------------------------------
(* Results of two rules of one pack, for what the check of a result may leave out. *)
EXTENDS RuleResults

CONSTANTS code, binding, advice, both, dwelling, shop

Code    == {code}
TwoRules == {binding, advice}
OnePack == {both}
FromCode == [k \in TwoRules |-> code]
OfBoth  == [p \in OnePack |-> TwoRules]
Binding == {binding}
TwoGroups == {dwelling, shop}
ForOneGroup == [k \in TwoRules |-> IF k = binding THEN {dwelling} ELSE TwoGroups]

(* Some of the behaviours of ResultSpec: those in which the caller always asks the same,    *)
(* so that what changes an answer is something that changed.                          *)
SameCallerSpec ==
  VerifiedInit /\ ResultInit
  /\ [][ResultNext /\ UNCHANGED caller]_<<packVars, resultVars>>

=============================================================================
