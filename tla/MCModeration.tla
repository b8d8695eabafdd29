---------------------------- MODULE MCModeration ----------------------------
(* Small instances of Moderation: a link and an image that may be spam as     *)
(* well; four policies.                                                       *)
EXTENDS Moderation, TLC

CONSTANTS link, flood, d1, d2, lid, pn

TwoMessages == {link, flood}
TwoTasks == {d1, d2}

Offences == [m \in Messages |-> IF m = link THEN {"antilink"} ELSE {"media", "antispam"}]

Warning == [f \in Features |-> "WARN"]

\* The defaults, with a limit of two.
Standard == [mode |-> "simple", limit |-> 2, limitAction |-> "KICK", features |-> Warning,
             hitMerge |-> "max", weights |-> [f \in Features |-> 1], flagAt |-> 3, kickAt |-> 5,
             decay |-> "off", membership |-> "clear", notify |-> "group", cooldown |-> FALSE,
             whileFlagged |-> "record", escalateAfter |-> 1]

Relaxed == [Standard EXCEPT !.limitAction = "FLAG", !.decay = "expire", !.cooldown = TRUE, !.whileFlagged = "hold"]

Escalating == [Standard EXCEPT !.limitAction = "FLAG", !.limit = 1, !.whileFlagged = "escalate",
                               !.membership = "keep", !.features = [Warning EXCEPT !["antispam"] = "KICK"]]

Severe == [Standard EXCEPT !.mode = "severity", !.hitMerge = "sum", !.flagAt = 2, !.kickAt = 3, !.decay = "step",
                           !.features = [Warning EXCEPT !["media"] = "DELETE"],
                           !.weights = [[f \in Features |-> 2] EXCEPT !["antilink"] = 1]]

FourPolicies == {Standard, Relaxed, Escalating, Severe}
Symmetry == Permutations(TwoTasks)
=============================================================================
