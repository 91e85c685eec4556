---------------------------- MODULE MCApplications ----------------------------
(* Small mailboxes for TLC: the emails of one application cycle, or of two *)
(* cycles of which one resembles the other.                                *)
EXTENDS Applications, TLC

CONSTANTS e1, e2, c1, c2, s1, s2

SlotSymmetry == Permutations({s1, s2})

Sure(sub, c)      == [job |-> TRUE, review |-> FALSE, cycle |-> c, sub |-> sub]
Unsure(sub, c)    == [job |-> TRUE, review |-> TRUE, cycle |-> c, sub |-> sub]
Unidentified(sub) == [job |-> TRUE, review |-> FALSE, cycle |-> NoCycle, sub |-> sub]
Newsletter        == [job |-> FALSE, review |-> FALSE, cycle |-> NoCycle, sub |-> "NONE"]

(* An invitation to an interview, which the provider may be unsure of or   *)
(* unable to identify, and a second email, which it may read as a          *)
(* follow-up in that cycle, as news of one that resembles it, or as no job *)
(* mail at all.                                                            *)
TwoReadings == (e1 :> {Sure("INTERVIEW", c1), Unsure("INTERVIEW", c1), Unidentified("INTERVIEW")})
            @@ (e2 :> {Sure("OTHER", c1), Sure("SHORTLISTED", c2), Newsletter})

(* The search looks for names that contain the email's: of two cycles, the *)
(* one may list the rows of the other and not the other way round.         *)
Resembling == {<< c2, c1 >>}
=============================================================================
