------------------------ MODULE MCZenzFeedbackStore ------------------------
\* A small instance of ZenzFeedbackStore: one reading with a correction, in
\* two classes that share their feedback and in a sensitive one.
EXTENDS ZenzFeedbackStore
CONSTANTS key, v
R(act, class, why) == [action |-> act, key |-> key, context_class |-> class,
                            value |-> v, reason |-> why]
\* A file that is not there; a correction accepted in one class and rejected
\* twice in another; and one that is blocked where contexts are sensitive.
Files ==
  {EmptyBag,
   SetToBag({R("accepted", "japanese_only", "")}) (+)
     SetToBag({R("rejected", "empty", "conversion_command_after_zenz")}) (+)
     SetToBag({R("rejected", "empty", "conversion_command_after_zenz")}),
   SetToBag({R("rejected", "sensitive_like", "hard_reject"),
             R("accepted", "empty", "")})}
=============================================================================
