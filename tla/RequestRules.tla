---------------------------- MODULE RequestRules ----------------------------
(***************************************************************************)
(* The chains of RequestChain, with the search that orders their APIs and  *)
(* the rules that judge their responses.                                   *)
(***************************************************************************)
EXTENDS RequestChain

CONSTANTS
  Blank, Numeral(_), Formatted(_), WellFormed(_, _), Conforms(_, _), \* see Verify
  Rules,      \* verify entries
  Responses,  \* what they judge
  Lists       \* lists of APIs to order

V == INSTANCE Verify
D == INSTANCE Dependency

AllRulesAgree == V!RulesAgree(Rules, Responses)

\* In every state, rules of all types agree on which responses pass (verify/builtin.go): see
\* RulesAgree in Verify.tla.
RulesAgree == AllRulesAgree /\ DOMAIN worker = Workers

AllSelectSoundly == D!SelectsSoundly(Lists)

\* The selectors find an order if there is one, and keep to the weights: see SelectsSoundly
\* in Dependency.tla.  In the chains that are run every API comes after what it depends on.
SelectsSoundly == AllSelectSoundly /\ Ordered /\ DOMAIN worker = Workers
=============================================================================
