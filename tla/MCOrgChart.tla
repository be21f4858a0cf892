----------------------------- MODULE MCOrgChart -----------------------------
(* Two groups, each with a lead and a recruiter; the consultant is the first recruiter's. *)
EXTENDS OrgChart, TLC

CONSTANTS ann, lea, max, rita, sam, carl, g1, g2, h1, h2

\* lea supervises rita, and has been granted sam's group; sam reports to max and to the admin.
Company ==
    [role |-> [u \in User |-> CASE u = ann -> "ADMIN" [] u \in {lea, max} -> "LEAD"
                               [] u \in {rita, sam} -> "RECRUITER" [] u = carl -> "CONSULTANT"],
     active |-> [u \in User |-> TRUE],
     group |-> [u \in User |-> CASE u \in {lea, rita, carl} -> g1 [] u \in {max, sam} -> g2
                               [] u = ann -> NoGroup],
     rows |-> {rita, sam}, bench |-> {carl},
     manager |-> [u \in User |-> CASE u = rita -> lea [] u = sam -> max [] OTHER -> NoUser],
     recruiter |-> [u \in User |-> IF u = carl THEN rita ELSE NoUser],
     links |-> {<<rita, lea>>, <<sam, max>>, <<sam, ann>>},
     primary |-> {<<rita, lea>>, <<sam, max>>},
     grants |-> {<<lea, g2>>}]

MCOrgs == {Company}

MCBatches == {{u} : u \in User} \cup {{rita, carl}, {lea, max}}

AnySlot == Permutations(Slot)

\* One change with whatever goes wrong, for everybody's answers; two changes, at once or one
\* after the other, for an answer of the recruiter.
MCBounds == {
    [changes |-> 1, looks |-> 2, lookers |-> User, mishaps |-> 1],
    [changes |-> 2, looks |-> 1, lookers |-> {rita}, mishaps |-> 0]}
=============================================================================
