--------------------------- MODULE AccountsProofs ---------------------------
(***************************************************************************)
(* Proofs about who gets an account, who gets in with it and who keeps his *)
(* powers: Sessions, Invitations and SuperAdmins, each for every number of *)
(* its rows and requests.  The three share no tables here: the sessions    *)
(* and the invitations are those of one account, and the guard counts the  *)
(* accounts there are.                                                     *)
(*                                                                         *)
(* Sessions: revocation is final, a sign-in nothing overlaps evicts every  *)
(* other session, and a barred account gets nowhere.  A request is the     *)
(* list of its statements, so the argument has two halves: what a list may *)
(* look like (Shape), and what is true of a request when a certain         *)
(* statement is the next one of its list (Revokes, Refused, Evicts).       *)
(***************************************************************************)
EXTENDS Sessions, Redemption, SoleAdmin, FiniteSetTheorems, SequenceTheorems, TLAPS

CONSTANTS Founder, QueryErrors
VARIABLES created, freshest

INV == INSTANCE Invitations
SA == INSTANCE SuperAdmins

-----------------------------------------------------------------------------
(* Sessions *)

\* The statements in a list.
In(x, s) == \E k \in 1 .. Len(s) : s[k] = x

\* Every x in s but the first statement follows a y.
Follows(s, x, y) == \A k \in 2 .. Len(s) : s[k] = x => s[k - 1] = y

\* Every bump in s is followed by a delete.
Leads(s) == \A k \in 1 .. Len(s) : s[k] = "bump" => k < Len(s) /\ s[k + 1] = "delete"

\* What the statements a request of kind op has still to run can be.
Shape(op, s) ==
    /\ s \in Seq(Statement) /\ Leads(s)
    /\ Follows(s, "delete", "bump") /\ Follows(s, "issue", "readVersion")
    /\ \A k \in 2 .. Len(s) : s[k] # "lookup"
    /\ op \in {"login", "changePassword"} => Follows(s, "readVersion", "delete")
    /\ op \in {"refresh", "impersonate"} => ~In("bump", s) /\ ~In("delete", s)
    /\ In("readVersion", s) \/ In("issue", s) => op \in Issuing
    /\ In("gate", s) => op = "login"
    /\ \A k \in 1 .. Len(s) : s[k] = "gate" => k = Len(s)

\* A part of a program: it can be put before and after any other.
Part(s) ==
    /\ s \in Seq(Statement) /\ ~In("lookup", s) /\ Leads(s)
    /\ \A k \in 1 .. Len(s) :
          /\ s[k] = "delete" => k > 1 /\ s[k - 1] = "bump"
          /\ s[k] = "issue" => k > 1 /\ s[k - 1] = "readVersion"
          /\ s[k] = "readVersion" => k > 1 /\ s[k - 1] = "delete"

-----------------------------------------------------------------------------
(* Lists of statements *)

\* Where the statements of two lists are when they are put together.
LEMMA Concatenation ==
    ASSUME NEW s \in Seq(Statement), NEW t \in Seq(Statement)
    PROVE  /\ s \o t \in Seq(Statement)
           /\ Len(s) \in Nat /\ Len(t) \in Nat /\ Len(s \o t) = Len(s) + Len(t)
           /\ \A k \in 1 .. Len(s) : (s \o t)[k] = s[k]
           /\ \A k \in 1 .. Len(t) : (s \o t)[Len(s) + k] = t[k]
           /\ \A k \in 1 .. Len(s \o t) : k \in 1 .. Len(s) \/ k - Len(s) \in 1 .. Len(t)
  <1>1. /\ s \o t \in Seq(Statement) /\ Len(s \o t) = Len(s) + Len(t)
        /\ Len(s) \in Nat /\ Len(t) \in Nat
        /\ \A k \in 1 .. Len(s) : (s \o t)[k] = s[k]
        /\ \A k \in 1 .. Len(t) : (s \o t)[Len(s) + k] = t[k]
    OBVIOUS
  <1>2. \A k \in 1 .. Len(s \o t) : k \in 1 .. Len(s) \/ k - Len(s) \in 1 .. Len(t)
    BY <1>1
  <1> QED BY <1>1, <1>2

LEMMA InConcatenation ==
    ASSUME NEW s \in Seq(Statement), NEW t \in Seq(Statement), NEW x \in Statement
    PROVE  In(x, s \o t) <=> In(x, s) \/ In(x, t)
  <1>1. ASSUME In(x, s \o t) PROVE In(x, s) \/ In(x, t)
    <2>1. PICK k \in 1 .. Len(s \o t) : (s \o t)[k] = x
      BY <1>1 DEF In
    <2>2. CASE k \in 1 .. Len(s)
      BY <2>1, <2>2, Concatenation DEF In
    <2>3. CASE k - Len(s) \in 1 .. Len(t)
      <3>1. (s \o t)[Len(s) + (k - Len(s))] = t[k - Len(s)]
        BY <2>3, Concatenation
      <3>2. Len(s) + (k - Len(s)) = k
        BY Concatenation
      <3> QED BY <2>1, <2>3, <3>1, <3>2 DEF In
    <2> QED BY <2>1, <2>2, <2>3, Concatenation
  <1>2. ASSUME In(x, s) PROVE In(x, s \o t)
    <2>1. PICK k \in 1 .. Len(s) : s[k] = x
      BY <1>2 DEF In
    <2>2. k \in 1 .. Len(s \o t) /\ (s \o t)[k] = x
      BY <2>1, Concatenation
    <2> QED BY <2>2 DEF In
  <1>3. ASSUME In(x, t) PROVE In(x, s \o t)
    <2>1. PICK k \in 1 .. Len(t) : t[k] = x
      BY <1>3 DEF In
    <2>2. Len(s) + k \in 1 .. Len(s \o t) /\ (s \o t)[Len(s) + k] = x
      BY <2>1, Concatenation
    <2> QED BY <2>2 DEF In
  <1> QED BY <1>1, <1>2, <1>3

\* Parts are put together to parts.
LEMMA PartsMakeParts ==
    ASSUME NEW s, NEW t, Part(s), Part(t)
    PROVE  Part(s \o t)
  <1>1. s \in Seq(Statement) /\ t \in Seq(Statement) /\ "lookup" \in Statement
    BY DEF Part, Statement
  <1>2. ~In("lookup", s \o t)
    BY <1>1, InConcatenation DEF Part
  <1>3. ASSUME NEW k \in 1 .. Len(s)
        PROVE  /\ (s \o t)[k] = "bump" => k < Len(s \o t) /\ (s \o t)[k + 1] = "delete"
               /\ (s \o t)[k] = "delete" => k > 1 /\ (s \o t)[k - 1] = "bump"
               /\ (s \o t)[k] = "issue" => k > 1 /\ (s \o t)[k - 1] = "readVersion"
               /\ (s \o t)[k] = "readVersion" => k > 1 /\ (s \o t)[k - 1] = "delete"
    BY <1>1, Concatenation DEF Part, Leads
  <1>4. ASSUME NEW k \in 1 .. Len(s \o t), k - Len(s) \in 1 .. Len(t)
        PROVE  /\ (s \o t)[k] = "bump" => k < Len(s \o t) /\ (s \o t)[k + 1] = "delete"
               /\ (s \o t)[k] = "delete" => k > 1 /\ (s \o t)[k - 1] = "bump"
               /\ (s \o t)[k] = "issue" => k > 1 /\ (s \o t)[k - 1] = "readVersion"
               /\ (s \o t)[k] = "readVersion" => k > 1 /\ (s \o t)[k - 1] = "delete"
    BY <1>1, <1>4, Concatenation DEF Part, Leads
  <1> QED BY <1>1, <1>2, <1>3, <1>4, Concatenation DEF Part, Leads

\* A list that is given statement by statement.
LEMMA Listed ==
    ASSUME NEW s \in Seq(Statement), NEW t \in Seq(Statement), NEW u \in Seq(Statement),
           Len(u) = Len(s) + Len(t),
           \A k \in 1 .. Len(s) : u[k] = s[k], \A k \in 1 .. Len(t) : u[Len(s) + k] = t[k]
    PROVE  s \o t = u
  <1>1. ASSUME NEW k \in 1 .. Len(s \o t) PROVE (s \o t)[k] = u[k]
    <2>1. k = Len(s) + (k - Len(s)) /\ (k \in 1 .. Len(s) \/ k - Len(s) \in 1 .. Len(t))
      BY Concatenation
    <2> QED BY <2>1, Concatenation
  <1> QED BY <1>1, Concatenation, SeqEqual

\* Putting a part behind a lookup or alone makes a shape.
LEMMA PartsAreShapes ==
    ASSUME NEW s, Part(s), NEW op,
           op \notin {"refresh", "impersonate"},
           In("readVersion", s) \/ In("issue", s) => op \in Issuing,
           In("gate", s) => op = "login", \A k \in 1 .. Len(s) : s[k] = "gate" => k = Len(s)
    PROVE  Shape(op, s) /\ Shape(op, <<"lookup">> \o s)
  <1>1. Shape(op, s)
    BY DEF Part, Shape, Follows, In
  <1>2. Shape(op, <<"lookup">> \o s)
    <2>1. s \in Seq(Statement) /\ <<"lookup">> \in Seq(Statement)
      BY DEF Part, Statement
    <2>2. PICK u \in Seq(Statement) : u = <<"lookup">> \o s
      BY <2>1, Concatenation
    <2>3. Len(u) = 1 + Len(s) /\ Len(s) \in Nat /\ u[1] = "lookup" /\ \A k \in 1 .. Len(s) : u[1 + k] = s[k]
      BY <2>1, <2>2, Concatenation
    <2>4. \A k \in 2 .. Len(u) : k - 1 \in 1 .. Len(s) /\ u[k] = s[k - 1]
      BY <2>3
    <2>5. ASSUME NEW k \in 2 .. Len(u)
          PROVE  /\ u[k] = "delete" => u[k - 1] = "bump"
                 /\ u[k] = "issue" => u[k - 1] = "readVersion"
                 /\ u[k] = "readVersion" => u[k - 1] = "delete"
      <3>1. PICK j \in 1 .. Len(s) : j = k - 1 /\ u[k] = s[j]
        BY <2>4
      <3>2. j > 1 => j - 1 \in 1 .. Len(s) /\ u[1 + (j - 1)] = s[j - 1] /\ 1 + (j - 1) = k - 1
        BY <2>3, <3>1
      <3> QED BY <3>1, <3>2 DEF Part
    <2>6. Follows(u, "delete", "bump") /\ Follows(u, "issue", "readVersion") /\ Follows(u, "readVersion", "delete")
      BY <2>5 DEF Follows
    <2>7. Leads(u)
      BY <2>3, <2>4 DEF Part, Leads
    <2>8. \A k \in 2 .. Len(u) : u[k] # "lookup"
      BY <2>4 DEF Part, In
    <2>9. \A x \in {"readVersion", "issue", "gate"} : In(x, u) => In(x, s)
      <3>1. ASSUME NEW x \in {"readVersion", "issue", "gate"}, In(x, u) PROVE In(x, s)
        <4>1. x \in Statement /\ ~In(x, <<"lookup">>)
          BY DEF In, Statement
        <4> QED BY <2>1, <2>2, <3>1, <4>1, InConcatenation
      <3> QED BY <3>1
    <2>10. \A k \in 1 .. Len(u) : u[k] = "gate" => k = Len(u)
      BY <2>3, <2>4
    <2> QED BY <2>2, <2>6, <2>7, <2>8, <2>9, <2>10 DEF Shape
  <1> QED BY <1>1, <1>2

\* The parts programs are put together from.
LEMMA Parts ==
    /\ Part(revokeAllSessions) /\ Part(requireAuth) /\ Part(signInWithPassword)
    /\ \A x \in {"serve", "setPassword", "clear", "gate", "spend", "spendAll", "setStatus", "supersede",
                  "mint", "checkToken", "checkActive", "deleteRow"} : Part(<<x>>)
  <1>1. Part(revokeAllSessions)
    BY DEF revokeAllSessions, Part, In, Leads, Statement
  <1>2. Part(requireAuth)
    BY DEF requireAuth, Part, In, Leads, Statement
  <1>3. Part(signInWithPassword)
    <2>1. <<"verify">> \o <<"bump", "delete">> = <<"verify", "bump", "delete">>
      <3>1. /\ <<"verify">> \in Seq(Statement) /\ <<"bump", "delete">> \in Seq(Statement)
            /\ <<"verify", "bump", "delete">> \in Seq(Statement)
        BY DEF Statement
      <3>2. PICK u \in Seq(Statement), v \in Seq(Statement), x \in Seq(Statement) :
                u = <<"verify">> /\ v = <<"bump", "delete">> /\ x = <<"verify", "bump", "delete">>
        BY <3>1
      <3>3. /\ Len(u) = 1 /\ Len(v) = 2 /\ Len(x) = 3 /\ u[1] = "verify" /\ v[1] = "bump" /\ v[2] = "delete"
            /\ x[1] = "verify" /\ x[2] = "bump" /\ x[3] = "delete"
        BY <3>2
      <3>5. Len(x) = Len(u) + Len(v)
        BY <3>3
      <3>6. \A k \in 1 .. Len(u) : x[k] = u[k]
        BY <3>3
      <3>7. \A k \in 1 .. Len(v) : x[Len(u) + k] = v[k]
        BY <3>3
      <3>4. u \o v = x
        BY <3>5, <3>6, <3>7, Listed
      <3> QED BY <3>2, <3>4
    <2>2. <<"verify", "bump", "delete">> \o <<"readVersion", "issue">> = <<"verify", "bump", "delete", "readVersion", "issue">>
      <3>1. /\ <<"verify", "bump", "delete">> \in Seq(Statement) /\ <<"readVersion", "issue">> \in Seq(Statement)
            /\ <<"verify", "bump", "delete", "readVersion", "issue">> \in Seq(Statement)
        BY DEF Statement
      <3>2. PICK u \in Seq(Statement), v \in Seq(Statement), x \in Seq(Statement) :
                /\ u = <<"verify", "bump", "delete">> /\ v = <<"readVersion", "issue">>
                /\ x = <<"verify", "bump", "delete", "readVersion", "issue">>
        BY <3>1
      <3>3. /\ Len(u) = 3 /\ Len(v) = 2 /\ Len(x) = 5 /\ u[1] = "verify" /\ u[2] = "bump" /\ u[3] = "delete"
            /\ v[1] = "readVersion" /\ v[2] = "issue"
            /\ x[1] = "verify" /\ x[2] = "bump" /\ x[3] = "delete" /\ x[4] = "readVersion" /\ x[5] = "issue"
        BY <3>2
      <3>5. Len(x) = Len(u) + Len(v)
        BY <3>3
      <3>6. \A k \in 1 .. Len(u) : x[k] = u[k]
        BY <3>3
      <3>7. \A k \in 1 .. Len(v) : x[Len(u) + k] = v[k]
        BY <3>3
      <3>4. u \o v = x
        BY <3>5, <3>6, <3>7, Listed
      <3> QED BY <3>2, <3>4
    <2>3. Part(<<"verify", "bump", "delete", "readVersion", "issue">>)
      BY DEF Part, In, Leads, Statement
    <2> QED BY <2>1, <2>2, <2>3 DEF signInWithPassword, revokeAllSessions
  <1>4. ASSUME NEW x \in {"serve", "setPassword", "clear", "gate", "spend", "spendAll", "setStatus", "supersede",
                          "mint", "checkToken", "checkActive", "deleteRow"}
        PROVE  Part(<<x>>)
    BY DEF Part, In, Leads, Statement
  <1> QED BY <1>1, <1>2, <1>3, <1>4

LEMMA PartBegins ==
    ASSUME NEW s, Part(s), s # << >>
    PROVE  s[1] # "delete"
  <1>1. 1 \in 1 .. Len(s)
    BY DEF Part
  <1> QED BY <1>1 DEF Part

\* The operations, and the programs of those that issue no session.
Op == Issuing \cup {"api", "logout", "forgot", "reset", "setUserStatus", "adminSetStatus", "signOut",
                    "revokeSession"}

Harmless == Statement \ {"readVersion", "issue", "gate"}

LEMMA NotIn ==
    ASSUME NEW S, NEW s \in Seq(S), NEW x, x \notin S
    PROVE  ~In(x, s)
  BY DEF In

\* What is in a list is in every longer one.
LEMMA InLonger ==
    ASSUME NEW s \in Seq(Statement), NEW t \in Seq(Statement), NEW x \in Statement, In(x, s) \/ In(x, t)
    PROVE  In(x, s \o t)
  BY InConcatenation

\* Programs that issue no session.
LEMMA HarmlessPrograms ==
    ASSUME NEW op \in Op \ Issuing, NEW s, Part(s), s \in Seq(Harmless)
    PROVE  Shape(op, s) /\ Shape(op, <<"lookup">> \o s)
  <1>1. ~In("readVersion", s) /\ ~In("issue", s) /\ ~In("gate", s)
    BY NotIn DEF Harmless
  <1>2. \A k \in 1 .. Len(s) : s[k] # "gate"
    BY <1>1 DEF In
  <1> QED BY <1>1, <1>2, PartsAreShapes DEF Op, Issuing

LEMMA SomeAreHarmless ==
    /\ requireAuth \in Seq(Harmless) /\ revokeAllSessions \in Seq(Harmless)
    /\ \A x \in Harmless : <<x>> \in Seq(Harmless)
  BY DEF requireAuth, revokeAllSessions, Harmless, Statement

\* The programs that consist of signing in, revoking and the like.
LEMMA SignInPrograms ==
    ASSUME NEW to \in Status
    PROVE  /\ Shape("login", Program("login", to)) /\ Shape("changePassword", Program("changePassword", to))
           /\ Program("login", to) # << >> /\ Program("changePassword", to) # << >>
           /\ Program("login", to)[1] # "delete" /\ Program("changePassword", to)[1] # "delete"
           /\ In("admit", Program("changePassword", to)) /\ In("issue", Program("changePassword", to))
           /\ In("issue", Program("login", to)) /\ In("lookup", Program("login", to))
           /\ ~In("clear", Program("login", to))
  <1>0. /\ {"admit", "issue", "lookup", "clear", "gate"} \subseteq Statement
        /\ \A s : Part(s) => s \in Seq(Statement)
    BY DEF Part, Statement
  <1>1. In("issue", signInWithPassword)
    <2>1. <<"readVersion", "issue">> \in Seq(Statement) /\ In("issue", <<"readVersion", "issue">>)
      BY DEF In, Statement
    <2>2. <<"verify">> \o revokeAllSessions \in Seq(Statement)
      BY DEF Statement, revokeAllSessions
    <2> QED BY <1>0, <2>1, <2>2, InLonger DEF signInWithPassword
  <1>2. signInWithPassword \in Seq(Statement \ {"lookup", "clear", "gate"})
    BY DEF signInWithPassword, revokeAllSessions, Statement
  <1>3. PICK t : t = signInWithPassword \o <<"gate">>
    OBVIOUS
  <1>4. Part(t) /\ In("issue", t) /\ t \in Seq(Statement) /\ t \in Seq(Statement \ {"clear"})
    <2>1. Part(t)
      BY <1>3, Parts, PartsMakeParts
    <2>2. <<"gate">> \in Seq(Statement)
      BY <1>0
    <2>3. t \in Seq(Statement \ {"clear"})
      BY <1>2, <1>3 DEF Statement
    <2> QED BY <1>0, <1>1, <1>3, <2>1, <2>2, <2>3, Parts, InLonger
  <1>5. Program("login", to) = <<"lookup">> \o signInWithPassword \o <<"gate">>
    BY DEF Program
  <1>6. Program("login", to) = <<"lookup">> \o t
    <2>1. <<"lookup">> \in Seq(Statement) /\ signInWithPassword \in Seq(Statement) /\ <<"gate">> \in Seq(Statement)
      BY <1>0, Parts
    <2>2. (<<"lookup">> \o signInWithPassword) \o <<"gate">> = <<"lookup">> \o (signInWithPassword \o <<"gate">>)
      BY <2>1, ConcatAssociative
    <2> QED BY <1>3, <1>5, <2>2
  <1>7. Shape("login", Program("login", to))
    <2>0. <<"gate">> \in Seq(Statement)
      BY <1>0
    <2>1. PICK u \in Seq(Statement \ {"lookup", "clear", "gate"}), v \in Seq(Statement) :
              u = signInWithPassword /\ v = <<"gate">>
      BY <1>2, <2>0
    <2>2. u \in Seq(Statement) /\ Len(v) = 1
      BY <2>1
    <2>3. \A k \in 1 .. Len(t) : t[k] = "gate" => k = Len(t)
      <3>1. ASSUME NEW k \in 1 .. Len(u) PROVE t[k] # "gate"
        BY <1>3, <2>1, <2>2, <3>1, Concatenation
      <3>2. Len(t) = Len(u) + 1 /\ Len(u) \in Nat
        BY <1>3, <2>1, <2>2, Concatenation
      <3> QED BY <3>1, <3>2
    <2> QED BY <1>4, <1>6, <2>3, PartsAreShapes DEF Issuing
  <1>8. In("issue", Program("login", to)) /\ In("lookup", Program("login", to)) /\ ~In("clear", Program("login", to))
    <2>1. <<"lookup">> \in Seq(Statement) /\ In("lookup", <<"lookup">>) /\ ~In("clear", <<"lookup">>)
      BY <1>0 DEF In
    <2>2. ~In("clear", t)
      BY <1>4, NotIn
    <2>3. PICK u \in Seq(Statement) : u = <<"lookup">>
      BY <2>1
    <2>4. \A x \in Statement : In(x, u \o t) <=> In(x, u) \/ In(x, t)
      BY <1>4, InConcatenation
    <2> QED BY <1>0, <1>4, <1>6, <2>1, <2>2, <2>3, <2>4
  <1>9. PICK s1, s2, s3, s4, s5 :
            /\ s1 = requireAuth \o signInWithPassword /\ s2 = s1 \o <<"setPassword">>
            /\ s3 = s2 \o revokeAllSessions /\ s4 = s3 \o <<"clear">> /\ s5 = s4 \o signInWithPassword
    OBVIOUS
  <1>10. Program("changePassword", to) = s5
    BY <1>9 DEF Program
  <1>11. Part(s1) /\ Part(s2) /\ Part(s3) /\ Part(s4) /\ Part(s5)
    BY <1>9, Parts, PartsMakeParts
  <1>17. /\ s1 \in Seq(Statement) /\ s2 \in Seq(Statement) /\ s3 \in Seq(Statement) /\ s4 \in Seq(Statement)
         /\ requireAuth \in Seq(Statement) /\ signInWithPassword \in Seq(Statement)
         /\ revokeAllSessions \in Seq(Statement)
         /\ <<"setPassword">> \in Seq(Statement) /\ <<"clear">> \in Seq(Statement)
    BY <1>0, <1>11, Parts
  <1>12. In("admit", s5)
    <2>1. In("admit", requireAuth)
      BY DEF In, requireAuth
    <2>2. In("admit", s1)
      BY <1>0, <1>9, <1>17, <2>1, InLonger
    <2>3. In("admit", s2)
      BY <1>0, <1>9, <1>17, <2>2, InLonger
    <2>4. In("admit", s3)
      BY <1>0, <1>9, <1>17, <2>3, InLonger
    <2>5. In("admit", s4)
      BY <1>0, <1>9, <1>17, <2>4, InLonger
    <2> QED BY <1>0, <1>9, <1>17, <2>5, InLonger
  <1>13. In("issue", s5)
    BY <1>0, <1>1, <1>9, <1>17, InLonger
  <1>14. ~In("gate", s5)
    <2>1. /\ requireAuth \in Seq(Statement \ {"gate"}) /\ revokeAllSessions \in Seq(Statement \ {"gate"})
          /\ <<"setPassword">> \in Seq(Statement \ {"gate"}) /\ <<"clear">> \in Seq(Statement \ {"gate"})
          /\ signInWithPassword \in Seq(Statement \ {"gate"})
      BY DEF requireAuth, revokeAllSessions, signInWithPassword, Statement
    <2>2. s1 \in Seq(Statement \ {"gate"}) /\ s2 \in Seq(Statement \ {"gate"})
      BY <1>9, <2>1
    <2>3. s3 \in Seq(Statement \ {"gate"}) /\ s4 \in Seq(Statement \ {"gate"})
      BY <1>9, <2>1, <2>2
    <2>4. s5 \in Seq(Statement \ {"gate"})
      BY <1>9, <2>1, <2>3
    <2> QED BY <2>4, NotIn
  <1>15. Shape("changePassword", s5)
    <2>1. \A k \in 1 .. Len(s5) : s5[k] # "gate"
      BY <1>14 DEF In
    <2> QED BY <1>11, <1>14, <2>1, PartsAreShapes DEF Issuing
  <1>16. Program("login", to) # << >> /\ Program("changePassword", to) # << >>
    BY <1>8, <1>10, <1>12 DEF In
  <1>18. Program("changePassword", to)[1] # "delete"
    BY <1>10, <1>11, <1>16, PartBegins
  <1>19. Program("login", to)[1] # "delete"
    <2>1. <<"lookup">> \in Seq(Statement)
      BY <1>0
    <2>2. PICK u \in Seq(Statement) : u = <<"lookup">>
      BY <2>1
    <2>3. 1 \in 1 .. Len(u) /\ u[1] = "lookup"
      BY <2>2
    <2>4. (u \o t)[1] = u[1]
      BY <1>4, <2>3, Concatenation
    <2> QED BY <1>6, <2>2, <2>3, <2>4
  <1> QED BY <1>7, <1>8, <1>10, <1>12, <1>13, <1>15, <1>16, <1>18, <1>19

\* Every program is a shape, and has the statements the argument needs.
LEMMA Programs ==
    ASSUME NEW op \in Op, NEW to \in Status
    PROVE  /\ Shape(op, Program(op, to)) /\ Program(op, to) # << >> /\ Program(op, to)[1] # "delete"
           /\ op \in {"api", "logout", "changePassword"} => In("admit", Program(op, to))
           /\ op = "login" => In("lookup", Program(op, to)) /\ ~In("clear", Program(op, to))
           /\ op \in Issuing => In("issue", Program(op, to))
  <1>0. /\ \A s : Part(s) => s \in Seq(Statement)
        /\ \A x \in Harmless : <<x>> \in Seq(Statement)
        /\ "admit" \in Statement /\ In("admit", requireAuth)
        /\ {"serve", "setPassword", "clear", "spend", "spendAll", "setStatus", "supersede",
            "mint", "checkToken", "checkActive", "deleteRow"} \subseteq Harmless
        /\ {"api", "logout", "forgot", "reset", "setUserStatus", "adminSetStatus", "signOut", "revokeSession"}
             \cap Issuing = {}
    BY DEF Part, Statement, In, requireAuth, Harmless, Issuing
  <1>1. CASE op \in {"login", "changePassword"}
    BY <1>1, SignInPrograms
  <1>2. CASE op = "refresh"
    <2>1. Program(op, to) = <<"claim", "consume", "readVersion", "issue">>
      BY <1>2 DEF Program
    <2>2. Shape(op, <<"claim", "consume", "readVersion", "issue">>)
      BY <1>2 DEF Shape, In, Follows, Leads, Statement, Issuing
    <2>3. In("issue", <<"claim", "consume", "readVersion", "issue">>)
      BY DEF In
    <2> QED BY <1>2, <2>1, <2>2, <2>3
  <1>3. CASE op = "impersonate"
    <2>1. Program(op, to) = <<"readVersion", "issue">>
      BY <1>3 DEF Program
    <2>2. Shape(op, <<"readVersion", "issue">>)
      BY <1>3 DEF Shape, In, Follows, Leads, Statement, Issuing
    <2>3. In("issue", <<"readVersion", "issue">>)
      BY DEF In
    <2> QED BY <1>3, <2>1, <2>2, <2>3
  <1>4. CASE op \in {"api", "logout"}
    <2>1. PICK t : Part(t) /\ t \in Seq(Harmless) /\ Program(op, to) = requireAuth \o t
      <3>1. CASE op = "api"
        BY <1>0, <3>1, Parts, SomeAreHarmless DEF Program
      <3>2. CASE op = "logout"
        BY <3>2, Parts, SomeAreHarmless DEF Program
      <3> QED BY <1>4, <3>1, <3>2
    <2>2. Part(requireAuth \o t) /\ requireAuth \o t \in Seq(Harmless)
      BY <2>1, Parts, PartsMakeParts, SomeAreHarmless
    <2>3. In("admit", requireAuth \o t)
      BY <1>0, <2>1, Parts, InLonger
    <2>4. op \in Op \ Issuing
      BY <1>0, <1>4
    <2>5. requireAuth \o t # << >>
      BY <2>3 DEF In
    <2>6. Shape(op, requireAuth \o t)
      BY <2>2, <2>4, HarmlessPrograms
    <2> QED BY <1>0, <1>4, <2>1, <2>2, <2>3, <2>5, <2>6, PartBegins
  <1>5. CASE op = "forgot"
    <2>1. Program(op, to) = <<"lookup", "supersede", "mint">>
      BY <1>5 DEF Program
    <2>2. Shape(op, <<"lookup", "supersede", "mint">>)
      BY <1>5 DEF Shape, In, Follows, Leads, Statement, Issuing
    <2> QED BY <1>0, <1>5, <2>1, <2>2
  <1>6. CASE op = "reset"
    <2>1. PICK u, v : u = <<"checkToken", "checkActive", "setPassword">> /\ v = <<"spend", "clear">>
      OBVIOUS
    <2>2. /\ Part(u) /\ u \in Seq(Harmless) /\ Part(v) /\ v \in Seq(Harmless) /\ Len(u) = 3
      BY <2>1 DEF Part, In, Leads, Statement, Harmless
    <2>3. Program(op, to) = (u \o revokeAllSessions) \o v
      BY <1>6, <2>1 DEF Program
    <2>4. Part(u \o revokeAllSessions) /\ u \o revokeAllSessions \in Seq(Harmless)
      BY <2>2, Parts, PartsMakeParts, SomeAreHarmless
    <2>5. Part(Program(op, to)) /\ Program(op, to) \in Seq(Harmless)
      BY <2>2, <2>3, <2>4, PartsMakeParts
    <2>6. Program(op, to) # << >>
      <3>0. u \in Seq(Statement) /\ revokeAllSessions \in Seq(Statement)
        BY <1>0, <2>2, Parts
      <3>1. Len(u \o revokeAllSessions) >= 3
        <4>1. PICK r \in Seq(Statement) : r = revokeAllSessions
          BY <3>0
        <4>2. Len(u) \in Nat /\ Len(r) \in Nat /\ Len(u \o r) = Len(u) + Len(r)
          BY <3>0, Concatenation
        <4> QED BY <2>2, <4>1, <4>2
      <3>2. Len((u \o revokeAllSessions) \o v) >= 3
        <4>1. PICK x \in Seq(Statement), y \in Seq(Statement) : x = u \o revokeAllSessions /\ y = v
          BY <1>0, <2>2, <2>4
        <4>2. Len(x) \in Nat /\ Len(y) \in Nat /\ Len(x \o y) = Len(x) + Len(y) /\ Len(x) >= 3
          BY <3>1, <4>1, Concatenation
        <4> QED BY <4>1, <4>2
      <3> QED BY <2>3, <3>2
    <2> QED BY <1>0, <1>6, <2>5, <2>6, HarmlessPrograms, PartBegins
  <1>7. CASE op \in {"setUserStatus", "adminSetStatus"}
    <2>1. PICK t : Part(t) /\ t \in Seq(Harmless) /\ Program(op, to) = <<"setStatus">> \o t
      <3>1. Part(<< >>) /\ << >> \in Seq(Harmless)
        BY DEF Part, In, Leads
      <3>2. PICK t : t = revokeAllSessions \o <<"spendAll">>
        OBVIOUS
      <3>3. Part(t) /\ t \in Seq(Harmless)
        BY <1>0, <3>2, Parts, PartsMakeParts, SomeAreHarmless
      <3>4. CASE op = "setUserStatus"
        BY <3>1, <3>2, <3>3, <3>4 DEF Program, setUserStatus
      <3>5. CASE op = "adminSetStatus"
        BY <3>1, <3>5, Parts, SomeAreHarmless DEF Program, adminSetStatus
      <3> QED BY <1>7, <3>4, <3>5
    <2>2. Part(<<"setStatus">>) /\ <<"setStatus">> \in Seq(Harmless) /\ <<"setStatus">> \in Seq(Statement)
      BY <1>0, Parts, SomeAreHarmless
    <2>3. Part(<<"setStatus">> \o t) /\ <<"setStatus">> \o t \in Seq(Harmless)
      BY <2>1, <2>2, PartsMakeParts
    <2>4. Len(<<"setStatus">> \o t) >= 1
      BY <1>0, <2>1, <2>2, Concatenation
    <2>5. op \in Op \ Issuing
      BY <1>0, <1>7
    <2>6. Shape(op, <<"setStatus">> \o t)
      BY <2>3, <2>5, HarmlessPrograms
    <2>7. <<"setStatus">> \o t # << >>
      BY <2>4
    <2> QED BY <1>0, <1>7, <2>1, <2>3, <2>6, <2>7, PartBegins
  <1>8. CASE op = "signOut"
    <2>1. Program(op, to) = revokeAllSessions
      BY <1>8 DEF Program
    <2>2. revokeAllSessions # << >>
      BY DEF revokeAllSessions
    <2> QED BY <1>0, <1>8, <2>1, <2>2, Parts, SomeAreHarmless, HarmlessPrograms, PartBegins
  <1>9. CASE op = "revokeSession"
    <2>1. Program(op, to) = <<"deleteRow">>
      BY <1>9 DEF Program
    <2>2. Part(<<"deleteRow">>) /\ <<"deleteRow">> \in Seq(Harmless)
      BY <1>0, Parts, SomeAreHarmless
    <2>3. op \in Op \ Issuing
      BY <1>0, <1>9
    <2>4. Shape(op, <<"deleteRow">>)
      BY <2>2, <2>3, HarmlessPrograms
    <2>5. <<"deleteRow">> # << >>
      OBVIOUS
    <2>6. op \notin Issuing /\ op \notin {"api", "logout", "changePassword"} /\ op # "login"
      BY <1>9, <2>3
    <2> QED BY <2>1, <2>2, <2>4, <2>5, <2>6, PartBegins
  <1> QED BY <1>1, <1>2, <1>3, <1>4, <1>5, <1>6, <1>7, <1>8, <1>9 DEF Op, Issuing

\* The statements that are left when the first one has been run.
LEMMA Rests ==
    ASSUME NEW op, NEW s \in Seq(Statement), s # << >>
    PROVE  /\ Tail(s) \in Seq(Statement) /\ Head(s) = s[1]
           /\ Len(s) \in Nat \ {0} /\ Len(Tail(s)) = Len(s) - 1
           /\ \A k \in 1 .. Len(Tail(s)) : Tail(s)[k] = s[k + 1]
           /\ Shape(op, s) => Shape(op, Tail(s))
           /\ \A x : In(x, s) <=> s[1] = x \/ In(x, Tail(s))
           /\ \A x, y : Follows(s, x, y) /\ Tail(s) # << >> /\ s[1] # y => Tail(s)[1] # x
  <1>1. /\ Tail(s) \in Seq(Statement) /\ Head(s) = s[1]
        /\ Len(s) \in Nat \ {0} /\ Len(Tail(s)) = Len(s) - 1
        /\ \A k \in 1 .. Len(Tail(s)) : Tail(s)[k] = s[k + 1]
    OBVIOUS
  <1>2. ASSUME NEW x PROVE In(x, s) <=> s[1] = x \/ In(x, Tail(s))
    <2>1. ASSUME In(x, s), s[1] # x PROVE In(x, Tail(s))
      <3>1. PICK k \in 1 .. Len(s) : s[k] = x
        BY <2>1 DEF In
      <3>2. k - 1 \in 1 .. Len(Tail(s)) /\ Tail(s)[k - 1] = s[(k - 1) + 1] /\ (k - 1) + 1 = k
        BY <1>1, <2>1, <3>1
      <3> QED BY <3>1, <3>2 DEF In
    <2>2. ASSUME In(x, Tail(s)) PROVE In(x, s)
      <3>1. PICK k \in 1 .. Len(Tail(s)) : Tail(s)[k] = x
        BY <2>2 DEF In
      <3>2. k + 1 \in 1 .. Len(s) /\ s[k + 1] = x
        BY <1>1, <3>1
      <3> QED BY <3>2 DEF In
    <2>3. s[1] = x => In(x, s)
      BY <1>1 DEF In
    <2> QED BY <2>1, <2>2, <2>3
  <1>3. ASSUME NEW x, NEW y, Follows(s, x, y) PROVE Follows(Tail(s), x, y)
    BY <1>1, <1>3 DEF Follows
  <1>4. Leads(s) => Leads(Tail(s))
    BY <1>1 DEF Leads
  <1>5. (\A k \in 2 .. Len(s) : s[k] # "lookup") => \A k \in 2 .. Len(Tail(s)) : Tail(s)[k] # "lookup"
    BY <1>1
  <1>8. (\A k \in 1 .. Len(s) : s[k] = "gate" => k = Len(s))
           => \A k \in 1 .. Len(Tail(s)) : Tail(s)[k] = "gate" => k = Len(Tail(s))
    <2>1. PICK m \in Nat \ {0} : Len(s) = m /\ Len(Tail(s)) = m - 1
      BY <1>1
    <2>2. SUFFICES ASSUME \A k \in 1 .. m : s[k] = "gate" => k = m, NEW j \in 1 .. m - 1
                   PROVE  Tail(s)[j] # "gate" \/ j = m - 1
      BY <2>1
    <2>3. j + 1 \in 1 .. m /\ Tail(s)[j] = s[j + 1]
      BY <1>1, <2>1
    <2>4. j # m - 1 => j + 1 # m
      BY <2>1
    <2>5. s[j + 1] = "gate" => j + 1 = m
      BY <2>2, <2>3
    <2> QED BY <2>3, <2>4, <2>5
  <1>6. Shape(op, s) => Shape(op, Tail(s))
    BY <1>1, <1>2, <1>3, <1>4, <1>5, <1>8 DEF Shape
  <1>7. ASSUME NEW x, NEW y, Follows(s, x, y), Tail(s) # << >>, s[1] # y PROVE Tail(s)[1] # x
    <2>1. 2 \in 2 .. Len(s) /\ Tail(s)[1] = s[2]
      BY <1>1, <1>7
    <2> QED BY <1>7, <2>1 DEF Follows
  <1> QED BY <1>1, <1>2, <1>6, <1>7

-----------------------------------------------------------------------------
(* The inductive invariant *)

\* No token with the version of session n is accepted any more.
Dead(n) == issued[n].sv < user.session_version

\* Whatever h serves has a shape, and runs its delete only when the version it has bumped
\* is above that of every session issued before h; its own session has been issued by the
\* time its tokens are handed out.
Revokes(h) ==
    /\ Shape(req[h].op, req[h].todo)
    /\ req[h].sv <= user.session_version /\ req[h].old \subseteq SessionId
    /\ req[h].todo[1] = "delete" => \A n \in req[h].old : Dead(n)
    /\ req[h].op \in Issuing =>
          \/ In("issue", req[h].todo) \/ In("countFailure", req[h].todo) \/ req[h].new \in SessionId

\* A barred request has the status gate still ahead of it, or has seen the status.
Refused(h) ==
    req[h].barred =>
        /\ user.status # "active"
        /\ req[h].op \in {"api", "logout", "changePassword"} => In("admit", req[h].todo)
        /\ req[h].op = "login" => /\ ~In("clear", req[h].todo)
                                  /\ In("lookup", req[h].todo) \/ req[h].snap.status # "active"

\* Alone, the request that has revoked leaves nothing but its own session, and nothing at
\* all from the revocation to the issue.
Evicts(h) ==
    /\ req[h].op \in {"refresh", "impersonate"} => req[h].old # {}
    /\ req[h].alone =>
          /\ req[h].todo[1] = "delete" => \A n \in SessionId : Dead(n)
          /\ req[h].old = {} => \A n \in SessionId : Live(n) \/ n \in auth_sessions => n = req[h].new
          /\ req[h].old = {} /\ req[h].todo[1] \in {"readVersion", "issue"} =>
                \A n \in SessionId : ~Live(n) /\ n \notin auth_sessions

OK(h) == Busy(h) => Revokes(h) /\ Refused(h) /\ Evicts(h)

\* No version issued is above the account's.
Versions == Len(issued) >= 1 /\ \A n \in SessionId : issued[n].sv <= user.session_version

RevokedDead == \A n \in revoked : Dead(n) /\ n \notin auth_sessions

\* While a request is alone, no other one issues.
Alone ==
    \A g, h \in Handler : g # h /\ Busy(g) /\ Busy(h) /\ req[h].alone => req[g].op \notin Issuing

Types == TypeOK /\ req \in [Handler -> RequestType \cup {Idle}]

IInv == Types /\ Versions /\ RevokedDead /\ Alone /\ \A h \in Handler : OK(h)

-----------------------------------------------------------------------------
\* What the tables may do without disturbing anybody: the version rises, the status does
\* not become active, and sessions are neither issued nor revived.
Calm == /\ user' \in User /\ user'.session_version >= user.session_version
        /\ user'.status = user.status \/ user'.status # "active"
        /\ issued' = issued /\ auth_sessions' \subseteq auth_sessions

LEMMA IssuedTypes ==
    ASSUME IInv, NEW n \in SessionId
    PROVE  issued[n].sv \in Nat
  <1>1. issued[n] \in [sv : Nat, op : Issuing]
    BY ElementOfSeq DEF IInv, Types, TypeOK, SessionId
  <1> QED BY <1>1

\* Sessions stay dead, versions stay below the account's.
LEMMA CalmKeeps ==
    ASSUME IInv, Calm
    PROVE  /\ Versions' /\ SessionId' = SessionId
           /\ \A n \in SessionId : (Dead(n) => Dead(n)') /\ (Live(n)' => Live(n))
  <1>1. \A n \in SessionId : issued[n].sv \in Nat
    BY IssuedTypes
  <1>2. user.session_version \in Nat /\ user'.session_version \in Nat
    BY DEF IInv, Types, TypeOK, User, Calm
  <1> QED BY <1>1, <1>2 DEF IInv, Versions, Calm, Dead, Live, SessionId

\* A request that makes no step is not disturbed.
LEMMA CalmOthers ==
    ASSUME IInv, Calm, NEW g \in Handler, req'[g] = req[g]
    PROVE  OK(g)'
  <1> SUFFICES ASSUME Busy(g) PROVE Revokes(g)' /\ Refused(g)' /\ Evicts(g)'
    BY DEF OK, Busy
  <1>1. Revokes(g) /\ Refused(g) /\ Evicts(g) /\ req[g] \in RequestType
    BY DEF IInv, OK, Types, Busy
  <1>2. user.session_version \in Nat /\ user'.session_version \in Nat /\ req[g].sv \in Nat
    BY <1>1 DEF IInv, Types, TypeOK, User, Calm, RequestType
  <1>3. Revokes(g)'
    BY <1>1, <1>2, CalmKeeps DEF Revokes, Calm
  <1>4. Refused(g)'
    BY <1>1 DEF Refused, Calm
  <1>5. Evicts(g)'
    BY <1>1, CalmKeeps DEF Evicts, Calm
  <1> QED BY <1>3, <1>4, <1>5

-----------------------------------------------------------------------------
(* Requests that move on *)

\* Idle is no request.
LEMMA IdleIsNone == Idle \notin RequestType
  <1> SUFFICES ASSUME Idle \in RequestType PROVE FALSE
    OBVIOUS
  <1>1. Idle.op = "idle"
    BY DEF Idle
  <1>2. Idle.op \in Op
    BY DEF RequestType, Op
  <1> QED BY <1>1, <1>2 DEF Op, Issuing

LEMMA BusyTypes ==
    ASSUME IInv, NEW h \in Handler, Busy(h)
    PROVE  /\ req[h] \in RequestType /\ req[h].todo \in Seq(Statement) /\ req[h].todo # << >>
           /\ Revokes(h) /\ Refused(h) /\ Evicts(h)
           /\ Shape(req[h].op, req[h].todo)
           /\ req[h].sv \in Nat /\ req[h].op \in Op
  <1>1. req[h] \in RequestType /\ Revokes(h) /\ Refused(h) /\ Evicts(h)
    BY DEF IInv, Types, OK, Busy
  <1> QED BY <1>1 DEF RequestType, Revokes, Op

\* What h serves after it has gone on with t.
LEMMA Moves ==
    ASSUME IInv, NEW h \in Handler, NEW r \in RequestType, NEW t \in Seq(Statement), Goto(h, r, t)
    PROVE  /\ req' \in [Handler -> RequestType \cup {Idle}]
           /\ \A g \in Handler \ {h} : req'[g] = req[g]
           /\ Busy(h)' <=> t # << >>
           /\ t # << >> => /\ req'[h] \in RequestType /\ req'[h].todo = t
                           /\ req'[h].op = r.op /\ req'[h].sv = r.sv /\ req'[h].old = r.old
                           /\ req'[h].new = r.new /\ req'[h].snap = r.snap
                           /\ req'[h].barred = r.barred /\ req'[h].alone = r.alone
           /\ started' = started
           /\ handed' = handed \/ (t = << >> /\ r.op \in Issuing /\ handed' = handed \cup {r.new})
  <1>1. req \in [Handler -> RequestType \cup {Idle}]
    BY DEF IInv, Types
  <1>2. PICK q : q = [r EXCEPT !.todo = t]
    OBVIOUS
  <1>3. /\ q.todo = t /\ q.op = r.op /\ q.sv = r.sv /\ q.old = r.old /\ q.new = r.new
        /\ q.snap = r.snap /\ q.barred = r.barred /\ q.alone = r.alone
    BY <1>2 DEF RequestType
  <1>4. t # << >> => q \in RequestType
    BY <1>2 DEF RequestType
  <1>5. req' = [req EXCEPT ![h] = IF t = << >> THEN Idle ELSE q]
    BY <1>2 DEF Goto
  <1>6. \A g \in Handler \ {h} : req'[g] = req[g]
    BY <1>1, <1>5
  <1>7. req'[h] = IF t = << >> THEN Idle ELSE q
    BY <1>1, <1>5
  <1>8. req' \in [Handler -> RequestType \cup {Idle}]
    BY <1>1, <1>4, <1>5
  <1>9. Busy(h)' <=> t # << >>
    BY <1>4, <1>7, IdleIsNone DEF Busy
  <1>10. started' = started /\ (handed' = handed \/ (t = << >> /\ r.op \in Issuing /\ handed' = handed \cup {r.new}))
    BY DEF Goto
  <1> QED BY <1>3, <1>4, <1>6, <1>7, <1>8, <1>9, <1>10

LEMMA Stopped ==
    ASSUME IInv, NEW h \in Handler, Stop(h)
    PROVE  /\ req' \in [Handler -> RequestType \cup {Idle}]
           /\ \A g \in Handler \ {h} : req'[g] = req[g]
           /\ ~Busy(h)' /\ handed' = handed /\ started' = started
  <1>1. req \in [Handler -> RequestType \cup {Idle}]
    BY DEF IInv, Types
  <1> QED BY <1>1 DEF Stop, Busy

\* A step of h that keeps calm: the invariant holds when it holds for what h serves then.
LEMMA CalmConcludes ==
    ASSUME IInv, Calm, revoked' = revoked, minted' \in Nat, reset_tokens' \subseteq 1 .. minted',
           handed' \subseteq SessionId, started' = started, req' \in [Handler -> RequestType \cup {Idle}],
           NEW h \in Handler, \A g \in Handler \ {h} : req'[g] = req[g], OK(h)',
           Busy(h)' => /\ Busy(h) /\ (req'[h].alone => req[h].alone)
                       /\ (req'[h].op \in Issuing => req[h].op \in Issuing)
    PROVE  IInv'
  <1>1. Types'
    <2>1. \A g \in Handler : Busy(g)' => req'[g] \in RequestType
      BY DEF Busy
    <2> QED BY <2>1, CalmKeeps DEF IInv, Types, TypeOK, Calm
  <1>2. RevokedDead'
    BY CalmKeeps DEF IInv, RevokedDead, Types, TypeOK, Calm
  <1>3. Alone'
    <2>1. \A g \in Handler : Busy(g)' => /\ Busy(g) /\ (req'[g].alone => req[g].alone)
                                         /\ (req'[g].op \in Issuing => req[g].op \in Issuing)
      BY DEF Busy
    <2>2. Alone
      BY DEF IInv
    <2> QED BY <2>1, <2>2 DEF Alone
  <1>4. \A g \in Handler : OK(g)'
    BY CalmOthers
  <1> QED BY <1>1, <1>2, <1>3, <1>4, CalmKeeps DEF IInv

\* A request is refused or fails.
LEMMA StopStep ==
    ASSUME IInv, NEW h \in Handler, Stop(h), Calm, UNCHANGED <<revoked, minted, reset_tokens>>
    PROVE  IInv'
  <1>1. minted' \in Nat /\ reset_tokens' \subseteq 1 .. minted' /\ handed' \subseteq SessionId
    BY Stopped DEF IInv, Types, TypeOK
  <1>2. OK(h)'
    BY Stopped DEF OK
  <1> QED BY <1>1, <1>2, Stopped, CalmConcludes

\* No request makes a step.
LEMMA QuietStep ==
    ASSUME IInv, Calm, UNCHANGED <<req, handed, started, revoked, minted>>, reset_tokens' \subseteq reset_tokens
    PROVE  IInv'
  <1>1. Types'
    BY CalmKeeps DEF IInv, Types, TypeOK, Calm, Busy
  <1>2. RevokedDead'
    BY CalmKeeps DEF IInv, RevokedDead, Types, TypeOK, Calm
  <1>3. Alone'
    BY DEF IInv, Alone, Busy
  <1>4. \A g \in Handler : OK(g)'
    BY CalmOthers
  <1> QED BY <1>1, <1>2, <1>3, <1>4, CalmKeeps DEF IInv

\* A request goes on with t, and nothing else happens that the argument is about.
LEMMA CalmStep ==
    ASSUME IInv, NEW h \in Handler, Busy(h), NEW r \in RequestType, NEW t \in Seq(Statement), Goto(h, r, t),
           Calm, revoked' = revoked, minted' \in Nat, reset_tokens' \subseteq 1 .. minted',
           r.op = req[h].op, r.old = req[h].old, r.new = req[h].new, r.alone = req[h].alone,
           r.barred = req[h].barred, r.sv \in Nat, r.sv <= user.session_version,
           Shape(r.op, t),
           In("issue", req[h].todo) => In("issue", t),
           In("countFailure", req[h].todo) => In("countFailure", t),
           In("admit", req[h].todo) => In("admit", t) \/ user.status = "active",
           In("clear", t) => In("clear", req[h].todo),
           (r.snap = req[h].snap /\ (In("lookup", req[h].todo) => In("lookup", t))) \/ r.snap.status = user.status,
           t # << >> => /\ t[1] # "delete"
                        /\ t[1] = "issue" => req[h].todo[1] = "readVersion"
                        /\ t[1] = "readVersion" => req[h].old # {}
    PROVE  IInv'
  <1>1. Revokes(h) /\ Refused(h) /\ Evicts(h) /\ req[h].op \in Op
    BY BusyTypes
  <1>2. user.session_version \in Nat /\ user'.session_version \in Nat /\ user'.session_version >= user.session_version
    BY DEF IInv, Types, TypeOK, User, Calm
  <1>3. handed' \subseteq SessionId
    <2>1. t = << >> => ~In("issue", t) /\ ~In("countFailure", t)
      BY DEF In
    <2> QED BY <1>1, <2>1, Moves DEF Revokes, IInv, Types, TypeOK
  <1>4. ASSUME t # << >> PROVE Revokes(h)'
    <2>1. /\ req'[h].todo = t /\ req'[h].op = req[h].op /\ req'[h].old = req[h].old
          /\ req'[h].new = req[h].new /\ req'[h].sv = r.sv
      BY <1>4, Moves
    <2>2. t[1] # "delete"
      BY <1>4
    <2>3. r.sv <= user'.session_version
      BY <1>2
    <2> QED BY <1>1, <2>1, <2>2, <2>3, CalmKeeps DEF Revokes
  <1>5. ASSUME t # << >> PROVE Refused(h)'
    <2>1. /\ req'[h].todo = t /\ req'[h].op = req[h].op /\ req'[h].barred = req[h].barred
          /\ req'[h].snap = r.snap
      BY <1>5, Moves
    <2> QED BY <1>1, <2>1 DEF Refused, Calm
  <1>6. ASSUME t # << >> PROVE Evicts(h)'
    <2>1. /\ req'[h].todo = t /\ req'[h].op = req[h].op /\ req'[h].old = req[h].old
          /\ req'[h].new = req[h].new /\ req'[h].alone = req[h].alone
      BY <1>6, Moves
    <2> QED BY <1>1, <1>6, <2>1, CalmKeeps DEF Evicts, Calm
  <1>7. OK(h)'
    BY <1>4, <1>5, <1>6, Moves DEF OK
  <1>8. Busy(h)' => /\ (req'[h].alone => req[h].alone)
                    /\ (req'[h].op \in Issuing => req[h].op \in Issuing)
    BY Moves
  <1> QED BY <1>3, <1>7, <1>8, Moves, CalmConcludes

\* Unless a delete was before it, only a request that revokes nothing reads the version.
LEMMA ReadsAfterDelete ==
    ASSUME IInv, NEW h \in Handler, Busy(h), NEW s, s = req[h].todo, NEW t, t = Tail(s), t # << >>,
           s[1] # "delete", t[1] = "readVersion"
    PROVE  req[h].old # {}
  <1>1. s \in Seq(Statement) /\ s # << >> /\ Shape(req[h].op, s) /\ Evicts(h)
    BY BusyTypes
  <1>2. t \in Seq(Statement) /\ Shape(req[h].op, t)
    BY <1>1, Rests
  <1>3. In("readVersion", t)
    <2>1. 1 \in 1 .. Len(t)
      BY <1>2
    <2> QED BY <2>1 DEF In
  <1>4. req[h].op \in Issuing
    BY <1>2, <1>3 DEF Shape
  <1>5. req[h].op \notin {"login", "changePassword"}
    <2>1. SUFFICES ASSUME req[h].op \in {"login", "changePassword"} PROVE FALSE
      OBVIOUS
    <2>2. Follows(s, "readVersion", "delete")
      BY <1>1, <2>1 DEF Shape
    <2> QED BY <1>1, <2>2, Rests
  <1> QED BY <1>1, <1>4, <1>5 DEF Evicts, Issuing

\* A request runs a statement the argument has no more to say about.
LEMMA AdvanceStep ==
    ASSUME IInv, NEW h \in Handler, Busy(h), NEW r \in RequestType, Continue(h, r),
           Calm, revoked' = revoked, minted' \in Nat, reset_tokens' \subseteq 1 .. minted',
           r.op = req[h].op, r.old = req[h].old, r.new = req[h].new, r.alone = req[h].alone,
           r.barred = req[h].barred, r.sv \in Nat, r.sv <= user.session_version,
           req[h].todo[1] \notin {"bump", "delete", "issue", "countFailure"},
           req[h].todo[1] = "admit" => user.status = "active",
           (r.snap = req[h].snap /\ req[h].todo[1] # "lookup") \/ r.snap.status = user.status
    PROVE  IInv'
  <1>1. PICK s \in Seq(Statement) : s = req[h].todo /\ s # << >>
    BY BusyTypes
  <1>2. Shape(req[h].op, s) /\ Evicts(h)
    BY <1>1, BusyTypes
  <1>3. PICK t \in Seq(Statement) : t = Tail(s)
    BY <1>1, Rests
  <1>4. Goto(h, r, t)
    BY <1>1, <1>3 DEF Continue
  <1>5. /\ Shape(req[h].op, t)
        /\ \A x : In(x, s) <=> s[1] = x \/ In(x, t)
    BY <1>1, <1>2, <1>3, Rests
  <1>6. ASSUME t # << >>
        PROVE  /\ t[1] # "delete"
               /\ t[1] = "issue" => s[1] = "readVersion"
               /\ t[1] = "readVersion" => req[h].old # {}
    <2>1. Follows(s, "delete", "bump") /\ Follows(s, "issue", "readVersion")
      BY <1>2 DEF Shape
    <2>2. t[1] # "delete" /\ (t[1] = "issue" => s[1] = "readVersion")
      BY <1>1, <1>3, <1>6, <2>1, Rests
    <2>3. t[1] = "readVersion" => req[h].old # {}
      BY <1>1, <1>3, <1>6, ReadsAfterDelete
    <2> QED BY <2>2, <2>3
  <1> QED BY <1>1, <1>4, <1>5, <1>6, CalmStep

\* The statement a request runs.
LEMMA AtTypes ==
    ASSUME IInv, NEW h \in Handler, NEW x, At(h, x)
    PROVE  /\ Busy(h) /\ req[h] \in RequestType /\ req[h].todo[1] = x
           /\ req[h].sv \in Nat /\ req[h].sv <= user.session_version
           /\ user \in User /\ user.session_version \in Nat
  <1>1. Busy(h)
    BY DEF At
  <1>2. req[h] \in RequestType /\ req[h].sv \in Nat /\ req[h].sv <= user.session_version
    BY <1>1, BusyTypes DEF Revokes
  <1>3. req[h].todo[1] = x
    BY <1>1, BusyTypes, Rests DEF At
  <1> QED BY <1>1, <1>2, <1>3 DEF IInv, Types, TypeOK, User

LEMMA UnchangedIsCalm ==
    ASSUME IInv, UNCHANGED tables
    PROVE  Calm /\ UNCHANGED <<revoked, minted, reset_tokens>> /\ minted' \in Nat /\ reset_tokens' \subseteq 1 .. minted'
  BY DEF tables, Calm, IInv, Types, TypeOK, User

\* A list that has begun with something else has no lookup any more.
LEMMA NoLookup ==
    ASSUME NEW op, NEW s \in Seq(Statement), Shape(op, s), s # << >>, s[1] # "lookup"
    PROVE  ~In("lookup", s)
  <1>1. \A k \in 1 .. Len(s) : k = 1 \/ k \in 2 .. Len(s)
    OBVIOUS
  <1> QED BY <1>1 DEF Shape, In

\* A login with a wrong password counts it, and no more.
LEMMA VerifyFails ==
    ASSUME IInv, NEW h \in Handler, At(h, "verify"), req[h].op = "login",
           Goto(h, req[h], <<"countFailure">>), UNCHANGED tables
    PROVE  IInv'
  <1>0. Busy(h) /\ req[h] \in RequestType /\ Calm
    BY AtTypes, UnchangedIsCalm
  <1>1. PICK t \in Seq(Statement) : t = <<"countFailure">>
    <2>1. "countFailure" \in Statement
      BY DEF Statement
    <2>2. <<"countFailure">> \in Seq(Statement)
      BY <2>1
    <2> QED BY <2>2
  <1>2. /\ Shape("login", t) /\ t # << >> /\ t[1] = "countFailure" /\ In("countFailure", t)
        /\ ~In("clear", t)
    BY <1>1 DEF Shape, In, Follows, Leads, Issuing
  <1>3. /\ req'[h].todo = t /\ req'[h].op = "login" /\ req'[h].old = req[h].old
        /\ req'[h].new = req[h].new /\ req'[h].alone = req[h].alone /\ req'[h].barred = req[h].barred
        /\ req'[h].snap = req[h].snap /\ req'[h].sv = req[h].sv
    BY <1>0, <1>1, <1>2, Moves
  <1>4. UNCHANGED <<user, issued, auth_sessions>>
    BY DEF tables
  <1>5. Revokes(h) /\ Refused(h) /\ Evicts(h) /\ Shape("login", req[h].todo) /\ req[h].todo # << >>
        /\ req[h].todo \in Seq(Statement)
    BY <1>0, BusyTypes
  <1>6. Revokes(h)'
    BY <1>2, <1>3, <1>4, <1>5 DEF Revokes, SessionId, Dead
  <1>7. Evicts(h)'
    BY <1>2, <1>3, <1>4, <1>5 DEF Evicts, SessionId, Dead, Live
  <1>8. Refused(h)'
    <2>1. ~In("lookup", req[h].todo)
      BY <1>5, AtTypes, NoLookup
    <2> QED BY <1>2, <1>3, <1>4, <1>5, <2>1 DEF Refused
  <1>9. OK(h)' /\ handed' \subseteq SessionId
    BY <1>0, <1>1, <1>2, <1>6, <1>7, <1>8, Moves DEF OK, IInv, Types, TypeOK
  <1> QED BY <1>0, <1>1, <1>3, <1>9, Moves, UnchangedIsCalm, CalmConcludes

\* Steps that change no table: they go on or stop.
LEMMA ReadStep ==
    ASSUME IInv, NEW h \in Handler,
           \/ Verify(h) \/ Claim(h) \/ Authenticate(h) \/ Admit(h) \/ Serve(h) \/ CheckToken(h) \/ CheckActive(h)
    PROVE  IInv'
  <1>1. UNCHANGED tables
    BY DEF Verify, Claim, Authenticate, Admit, Serve, CheckToken, CheckActive
  <1>2. ASSUME Stop(h) PROVE IInv'
    BY <1>1, <1>2, UnchangedIsCalm, StopStep
  <1>3. ASSUME NEW x \in {"verify", "claim", "authenticate", "admit", "serve", "checkToken", "checkActive"},
               At(h, x), Continue(h, req[h]), x = "admit" => user.status = "active"
        PROVE  IInv'
    <2>1. req[h].todo[1] \notin {"bump", "delete", "issue", "countFailure", "lookup"}
      BY <1>3, AtTypes
    <2> QED BY <1>1, <1>3, <2>1, AtTypes, UnchangedIsCalm, AdvanceStep
  <1>4. CASE Verify(h)
    BY <1>2, <1>3, <1>4, VerifyFails DEF Verify
  <1>5. CASE Claim(h) \/ CheckToken(h) \/ CheckActive(h) \/ Authenticate(h)
    BY <1>2, <1>3, <1>5 DEF Claim, CheckToken, CheckActive, Authenticate, Proceed
  <1>6. CASE Admit(h)
    BY <1>2, <1>3, <1>6 DEF Admit, Proceed
  <1>7. CASE Serve(h)
    BY <1>3, <1>7 DEF Serve
  <1> QED BY <1>4, <1>5, <1>6, <1>7

\* The counters and the lock of an account are written.
LEMMA Counters ==
    ASSUME NEW u \in User, NEW n \in Nat, NEW b \in BOOLEAN
    PROVE  /\ [u EXCEPT !.failed_login_attempts = n, !.locked = b] \in User
           /\ [u EXCEPT !.failed_login_attempts = n, !.locked = b].session_version = u.session_version
           /\ [u EXCEPT !.failed_login_attempts = n, !.locked = b].status = u.status
           /\ [u EXCEPT !.locked = b] \in User
           /\ [u EXCEPT !.locked = b].session_version = u.session_version
           /\ [u EXCEPT !.locked = b].status = u.status
           /\ u.session_version \in Nat /\ u.session_version >= u.session_version
  <1>1. [u EXCEPT !.failed_login_attempts = n, !.locked = b] \in User
    BY DEF User
  <1>2. [u EXCEPT !.locked = b] \in User
    BY DEF User
  <1>3. /\ [u EXCEPT !.failed_login_attempts = n, !.locked = b].session_version = u.session_version
        /\ [u EXCEPT !.failed_login_attempts = n, !.locked = b].status = u.status
    BY DEF User
  <1>4. [u EXCEPT !.locked = b].session_version = u.session_version /\ [u EXCEPT !.locked = b].status = u.status
    BY DEF User
  <1>5. u.session_version \in Nat /\ u.session_version >= u.session_version
    BY DEF User
  <1> QED BY <1>1, <1>2, <1>3, <1>4, <1>5

\* Steps that write a table the argument has little to say about, and go on.
LEMMA WriteStep ==
    ASSUME IInv, NEW h \in Handler,
           DeleteRow(h) \/ Clear(h) \/ SetPassword(h) \/ SpendAll(h) \/ Mint(h) \/ Spend(h)
    PROVE  IInv'
  <1>1. PICK x \in {"consume", "deleteRow", "clear", "setPassword", "supersede", "spendAll", "mint", "spend"} : At(h, x)
    BY DEF DeleteRow, Clear, SetPassword, SpendAll, Mint, Spend
  <1>2. Busy(h) /\ req[h] \in RequestType /\ req[h].todo[1] = x /\ req[h].sv \in Nat
        /\ req[h].sv <= user.session_version /\ user \in User
    BY <1>1, AtTypes
  <1>3. Calm
    <2>1. CASE UNCHANGED user
      BY <1>2, <2>1 DEF DeleteRow, Clear, SetPassword, SpendAll, Mint, Spend, Calm, User
    <2>2. CASE Clear(h)
      BY <1>2, <2>2, Counters DEF Clear, Calm
    <2>3. CASE SetPassword(h)
      BY <1>2, <2>3 DEF SetPassword, Calm, User, RequestType
    <2> QED BY <2>1, <2>2, <2>3 DEF DeleteRow, SpendAll, Mint, Spend
  <1>4. minted' \in Nat /\ reset_tokens' \subseteq 1 .. minted' /\ revoked' = revoked
    BY DEF DeleteRow, Clear, SetPassword, SpendAll, Mint, Spend, IInv, Types, TypeOK
  <1>5. PICK r \in RequestType :
            /\ Continue(h, r) /\ r.op = req[h].op /\ r.old = req[h].old /\ r.new = req[h].new
            /\ r.alone = req[h].alone /\ r.barred = req[h].barred /\ r.sv = req[h].sv /\ r.snap = req[h].snap
    <2>1. [req[h] EXCEPT !.password = req[h].next] \in RequestType
      BY <1>2 DEF RequestType
    <2>2. PICK q \in RequestType : q = [req[h] EXCEPT !.password = req[h].next]
      BY <2>1
    <2>3. /\ q.op = req[h].op /\ q.old = req[h].old /\ q.new = req[h].new
          /\ q.alone = req[h].alone /\ q.barred = req[h].barred /\ q.sv = req[h].sv /\ q.snap = req[h].snap
      BY <1>2, <2>2 DEF RequestType
    <2>4. CASE Continue(h, req[h])
      BY <1>2, <2>4
    <2>5. CASE SetPassword(h)
      BY <2>2, <2>3, <2>5 DEF SetPassword
    <2> QED BY <2>4, <2>5 DEF DeleteRow, Clear, SpendAll, Mint, Spend
  <1> QED BY <1>2, <1>3, <1>4, <1>5, AdvanceStep

\* The version, or the account, is read into the request.
LEMMA NoteStep ==
    ASSUME IInv, NEW h \in Handler, ReadVersion(h) \/ Lookup(h)
    PROVE  IInv'
  <1>1. UNCHANGED tables
    BY DEF ReadVersion, Lookup
  <1>2. CASE ReadVersion(h)
    <2>1. /\ Busy(h) /\ req[h] \in RequestType /\ req[h].todo[1] = "readVersion"
          /\ user.session_version \in Nat
      BY <1>2, AtTypes DEF ReadVersion
    <2>2. PICK r \in RequestType : r = [req[h] EXCEPT !.sv = user.session_version]
      BY <2>1 DEF RequestType
    <2>3. /\ r.op = req[h].op /\ r.old = req[h].old /\ r.new = req[h].new
          /\ r.alone = req[h].alone /\ r.barred = req[h].barred /\ r.snap = req[h].snap
          /\ r.sv = user.session_version
      BY <2>1, <2>2 DEF RequestType
    <2>4. Continue(h, r)
      BY <1>2, <2>2 DEF ReadVersion
    <2> QED BY <1>1, <2>1, <2>3, <2>4, UnchangedIsCalm, AdvanceStep
  <1>3. CASE Lookup(h)
    <2>1. /\ Busy(h) /\ req[h] \in RequestType /\ req[h].todo[1] = "lookup" /\ user \in User
          /\ req[h].sv \in Nat /\ req[h].sv <= user.session_version
      BY <1>3, AtTypes DEF Lookup
    <2>2. PICK c \in [status : Status, failed : Nat] :
              c = [status |-> user.status, failed |-> user.failed_login_attempts]
      BY <2>1 DEF User
    <2>3. c.status = user.status
      BY <2>2
    <2>4. PICK r \in RequestType : r = [req[h] EXCEPT !.snap = c]
      BY <2>1 DEF RequestType
    <2>5. /\ r.op = req[h].op /\ r.old = req[h].old /\ r.new = req[h].new
          /\ r.alone = req[h].alone /\ r.barred = req[h].barred /\ r.snap = c /\ r.sv = req[h].sv
      BY <2>1, <2>4 DEF RequestType
    <2>6. Continue(h, r) \/ Stop(h)
      BY <1>3, <2>2, <2>4 DEF Lookup, Proceed
    <2>7. CASE Continue(h, r)
      BY <1>1, <2>1, <2>3, <2>5, <2>7, UnchangedIsCalm, AdvanceStep
    <2>8. CASE Stop(h)
      BY <1>1, <2>8, UnchangedIsCalm, StopStep
    <2> QED BY <2>6, <2>7, <2>8
  <1> QED BY <1>2, <1>3

LEMMA CountFailureStep ==
    ASSUME IInv, NEW h \in Handler, CountFailure(h)
    PROVE  IInv'
  <1>1. req[h] \in RequestType /\ user \in User
    BY AtTypes DEF CountFailure
  <1>2. req[h].snap.failed + 1 \in Nat
    BY <1>1 DEF RequestType
  <1>3. PICK n \in Nat : n = req[h].snap.failed + 1
    BY <1>2
  <1>4. PICK b \in BOOLEAN :
            user' = [user EXCEPT !.failed_login_attempts = n, !.locked = b]
    <2>1. (user.locked \/ n >= MaxFailedLogins) \in BOOLEAN
      OBVIOUS
    <2> QED BY <1>1, <1>3, <2>1 DEF CountFailure
  <1>5. Calm
    <2>1. UNCHANGED <<auth_sessions, issued>>
      BY DEF CountFailure
    <2>2. user' \in User /\ user'.session_version = user.session_version /\ user'.status = user.status
      BY <1>1, <1>4, Counters
    <2>3. user'.session_version >= user.session_version
      BY <1>1, <2>2, Counters
    <2> QED BY <2>1, <2>2, <2>3 DEF Calm
  <1> QED BY <1>5, StopStep DEF CountFailure

LEMMA FailStep ==
    ASSUME IInv, NEW h \in Handler, Fail(h)
    PROVE  IInv'
  BY UnchangedIsCalm, StopStep DEF Fail

LEMMA TimeStep ==
    ASSUME IInv,
           Unlock \/ (\E n \in auth_sessions : ExpireSession(n)) \/ (\E n \in reset_tokens : ExpireToken(n))
    PROVE  IInv'
  <1>1. user \in User
    BY DEF IInv, Types, TypeOK
  <1>2. Calm
    <2>1. CASE Unlock
      BY <1>1, <2>1, Counters DEF Unlock, Calm
    <2>2. CASE UNCHANGED user
      BY <1>1, <2>2, Counters DEF Unlock, ExpireSession, ExpireToken, Calm
    <2> QED BY <2>1, <2>2 DEF ExpireSession, ExpireToken
  <1> QED BY <1>2, QuietStep DEF Unlock, ExpireSession, ExpireToken

-----------------------------------------------------------------------------
(* The steps of a revocation and of an issue *)

\* The version is bumped: from now on every session that has been issued is dead.
LEMMA BumpStep ==
    ASSUME IInv, NEW h \in Handler, Bump(h)
    PROVE  IInv'
  <1>1. /\ Busy(h) /\ req[h] \in RequestType /\ req[h].todo[1] = "bump"
        /\ user \in User /\ user.session_version \in Nat
    BY AtTypes DEF Bump
  <1>2. Calm /\ user'.session_version = user.session_version + 1
    <2>1. user' = [user EXCEPT !.session_version = user.session_version + 1]
      BY DEF Bump
    <2>2. user' \in User /\ user'.session_version = user.session_version + 1 /\ user'.status = user.status
      BY <1>1, <2>1 DEF User
    <2> QED BY <1>1, <2>2 DEF Bump, Calm
  <1>3. PICK s \in Seq(Statement) : s = req[h].todo /\ s # << >>
    BY <1>1, BusyTypes
  <1>4. PICK t \in Seq(Statement) : t = Tail(s)
    BY <1>3, Rests
  <1>5. Shape(req[h].op, s) /\ Revokes(h) /\ Refused(h) /\ Evicts(h)
    BY <1>1, <1>3, BusyTypes
  <1>6. t # << >> /\ t[1] = "delete"
    <2>1. 1 < Len(s) /\ s[2] = "delete"
      BY <1>1, <1>3, <1>5 DEF Shape, Leads
    <2>2. Len(s) \in Nat /\ Len(t) = Len(s) - 1 /\ \A k \in 1 .. Len(t) : t[k] = s[k + 1]
      BY <1>3, <1>4, Rests
    <2>3. Len(t) >= 1
      BY <2>1, <2>2
    <2>4. 1 \in 1 .. Len(t) /\ t[1] = s[1 + 1]
      BY <2>2, <2>3
    <2>5. t[1] = "delete"
      BY <2>1, <2>4
    <2>6. t # << >>
      BY <2>3
    <2> QED BY <2>5, <2>6
  <1>7. /\ Shape(req[h].op, t)
        /\ \A x : In(x, s) <=> s[1] = x \/ In(x, t)
    BY <1>3, <1>4, <1>5, Rests
  <1>8. /\ req'[h].todo = t /\ req'[h].op = req[h].op /\ req'[h].old = req[h].old
        /\ req'[h].new = req[h].new /\ req'[h].alone = req[h].alone /\ req'[h].barred = req[h].barred
        /\ req'[h].snap = req[h].snap /\ req'[h].sv = req[h].sv
    BY <1>1, <1>3, <1>4, <1>6, Moves DEF Bump, Continue
  <1>9. \A n \in SessionId : Dead(n)'
    <2>1. ASSUME NEW n \in SessionId PROVE Dead(n)'
      <3>1. issued[n].sv \in Nat /\ issued[n].sv <= user.session_version /\ issued'[n] = issued[n]
        BY IssuedTypes DEF IInv, Versions, Bump
      <3> QED BY <1>1, <1>2, <3>1 DEF Dead
    <2> QED BY <2>1
  <1>10. Revokes(h)'
    <2>1. req[h].sv <= user'.session_version
      BY <1>1, <1>2, AtTypes DEF Bump
    <2> QED BY <1>1, <1>3, <1>5, <1>7, <1>8, <1>9, <2>1, CalmKeeps, <1>2 DEF Revokes
  <1>11. Refused(h)'
    BY <1>1, <1>2, <1>3, <1>5, <1>7, <1>8 DEF Refused, Calm
  <1>12. Evicts(h)'
    BY <1>2, <1>5, <1>6, <1>8, <1>9, CalmKeeps DEF Evicts, Calm
  <1>13. OK(h)' /\ handed' \subseteq SessionId
    BY <1>1, <1>3, <1>4, <1>6, <1>10, <1>11, <1>12, Moves DEF OK, Bump, Continue, IInv, Types,
       TypeOK
  <1>14. minted' \in Nat /\ reset_tokens' \subseteq 1 .. minted' /\ revoked' = revoked
    BY DEF Bump, IInv, Types, TypeOK
  <1>15. Goto(h, req[h], t)
    BY <1>3, <1>4 DEF Bump, Continue
  <1>16. /\ req' \in [Handler -> RequestType \cup {Idle}]
         /\ \A g \in Handler \ {h} : req'[g] = req[g]
         /\ started' = started
    BY <1>1, <1>15, Moves
  <1> QED BY <1>1, <1>2, <1>8, <1>13, <1>14, <1>16, CalmConcludes

\* The rows are deleted: what was issued before the request is revoked, and dead.
LEMMA DeleteStep ==
    ASSUME IInv, NEW h \in Handler, Delete(h)
    PROVE  IInv'
  <1>1. /\ Busy(h) /\ req[h] \in RequestType /\ req[h].todo[1] = "delete"
        /\ user \in User /\ user.session_version \in Nat
    BY AtTypes DEF Delete
  <1>2. UNCHANGED <<user, issued, reset_tokens, minted>> /\ auth_sessions' = {} /\ revoked' = revoked \cup req[h].old
    BY DEF Delete
  <1>3. Calm
    BY <1>1, <1>2 DEF Calm
  <1>4. PICK s \in Seq(Statement) : s = req[h].todo /\ s # << >>
    BY <1>1, BusyTypes
  <1>5. PICK t \in Seq(Statement) : t = Tail(s)
    BY <1>4, Rests
  <1>6. Shape(req[h].op, s) /\ Revokes(h) /\ Refused(h) /\ Evicts(h)
    BY <1>1, <1>4, BusyTypes
  <1>7. /\ Shape(req[h].op, t)
        /\ \A x : In(x, s) <=> s[1] = x \/ In(x, t)
    BY <1>4, <1>5, <1>6, Rests
  <1>8. t # << >> => t[1] # "delete" /\ t[1] # "issue"
    <2>1. Follows(s, "delete", "bump") /\ Follows(s, "issue", "readVersion")
      BY <1>6 DEF Shape
    <2> QED BY <1>1, <1>4, <1>5, <2>1, Rests
  <1>9. PICK r \in RequestType : r = [req[h] EXCEPT !.old = {}]
    BY <1>1 DEF RequestType
  <1>10. /\ r.op = req[h].op /\ r.old = {} /\ r.new = req[h].new /\ r.alone = req[h].alone
         /\ r.barred = req[h].barred /\ r.snap = req[h].snap /\ r.sv = req[h].sv
    BY <1>1, <1>9 DEF RequestType
  <1>11. Goto(h, r, t)
    BY <1>4, <1>5, <1>9 DEF Delete, Continue
  <1>12. \A n \in req[h].old : n \in SessionId /\ Dead(n)
    BY <1>1, <1>6 DEF Revokes
  <1>13. ASSUME t # << >> PROVE Revokes(h)' /\ Refused(h)' /\ Evicts(h)'
    <2>1. /\ req'[h].todo = t /\ req'[h].op = req[h].op /\ req'[h].old = {}
          /\ req'[h].new = req[h].new /\ req'[h].alone = req[h].alone /\ req'[h].barred = req[h].barred
          /\ req'[h].snap = req[h].snap /\ req'[h].sv = req[h].sv
      BY <1>10, <1>11, <1>13, Moves
    <2>2. Revokes(h)'
      BY <1>1, <1>2, <1>4, <1>6, <1>7, <1>8, <1>13, <2>1 DEF Revokes, SessionId
    <2>3. Refused(h)'
      BY <1>1, <1>2, <1>4, <1>6, <1>7, <2>1 DEF Refused
    <2>4. Evicts(h)'
      <3>1. req[h].op \notin {"refresh", "impersonate"}
        <4>1. In("delete", s)
          BY <1>1, <1>4, Rests
        <4> QED BY <1>6, <4>1 DEF Shape
      <3>2. ASSUME req[h].alone, NEW n \in SessionId PROVE ~Live(n)' /\ n \notin auth_sessions'
        <4>1. Dead(n) /\ issued[n].sv \in Nat
          BY <1>1, <1>6, <3>2, IssuedTypes DEF Evicts
        <4> QED BY <1>1, <1>2, <4>1 DEF Dead, Live
      <3> QED BY <1>2, <1>8, <1>13, <2>1, <3>1, <3>2 DEF Evicts, SessionId
    <2> QED BY <2>2, <2>3, <2>4
  <1>14. OK(h)'
    BY <1>11, <1>13, Moves DEF OK
  <1>15. \A g \in Handler : OK(g)'
    BY <1>3, <1>11, <1>14, Moves, CalmOthers
  <1>16. /\ req' \in [Handler -> RequestType \cup {Idle}] /\ started' = started
         /\ \A g \in Handler : Busy(g)' => /\ Busy(g) /\ (req'[g].alone => req[g].alone)
                                           /\ (req'[g].op \in Issuing => req[g].op \in Issuing)
    <2>1. /\ req' \in [Handler -> RequestType \cup {Idle}] /\ started' = started
          /\ \A g \in Handler \ {h} : req'[g] = req[g]
          /\ Busy(h)' => req'[h].op = r.op /\ req'[h].alone = r.alone
      BY <1>11, Moves
    <2> QED BY <1>1, <1>10, <2>1 DEF Busy
  <1>17. handed' \subseteq SessionId
    <2>1. t = << >> => ~In("issue", t) /\ ~In("countFailure", t)
      BY DEF In
    <2>2. handed' = handed \/ (t = << >> /\ r.op \in Issuing /\ handed' = handed \cup {r.new})
      BY <1>11, Moves
    <2> QED BY <1>1, <1>4, <1>6, <1>7, <1>10, <2>1, <2>2 DEF Revokes, IInv, Types, TypeOK
  <1>18. Types'
    <2>1. \A g \in Handler : Busy(g)' => req'[g] \in RequestType
      BY <1>16 DEF Busy
    <2>2. SessionId' = SessionId /\ revoked' \subseteq SessionId
      BY <1>2, <1>12 DEF SessionId, IInv, Types, TypeOK
    <2> QED BY <1>2, <1>16, <1>17, <2>1, <2>2 DEF IInv, Types, TypeOK
  <1>19. RevokedDead'
    BY <1>2, <1>12 DEF IInv, RevokedDead, Dead
  <1>20. Alone'
    <2>1. Alone
      BY DEF IInv
    <2> QED BY <1>16, <2>1 DEF Alone
  <1> QED BY <1>3, <1>15, <1>18, <1>19, <1>20, CalmKeeps DEF IInv

\* A session is issued with a version that is not above the account's; nobody else is alone.
LEMMA IssueStep ==
    ASSUME IInv, NEW h \in Handler, Issue(h)
    PROVE  IInv'
  <1>1. /\ Busy(h) /\ req[h] \in RequestType /\ req[h].todo[1] = "issue"
        /\ req[h].sv \in Nat /\ req[h].sv <= user.session_version
        /\ user \in User /\ user.session_version \in Nat
    BY AtTypes DEF Issue
  <1>2. PICK s \in Seq(Statement) : s = req[h].todo /\ s # << >>
    BY <1>1, BusyTypes
  <1>3. PICK t \in Seq(Statement) : t = Tail(s)
    BY <1>2, Rests
  <1>4. Shape(req[h].op, s) /\ Revokes(h) /\ Refused(h) /\ Evicts(h)
    BY <1>1, <1>2, BusyTypes
  <1>5. /\ Shape(req[h].op, t)
        /\ \A x : In(x, s) <=> s[1] = x \/ In(x, t)
    BY <1>2, <1>3, <1>4, Rests
  <1>6. req[h].op \in Issuing
    BY <1>1, <1>2, <1>4, <1>5 DEF Shape
  <1>7. t # << >> => t[1] # "delete" /\ t[1] # "issue" /\ (t[1] = "readVersion" => req[h].old # {})
    <2>1. Follows(s, "delete", "bump") /\ Follows(s, "issue", "readVersion")
      BY <1>4 DEF Shape
    <2>2. t # << >> => t[1] # "delete" /\ t[1] # "issue"
      BY <1>1, <1>2, <1>3, <2>1, Rests
    <2> QED BY <1>1, <1>2, <1>3, <2>2, ReadsAfterDelete
  <1>8. PICK n \in Nat \ {0} : n = Len(issued) + 1
    BY DEF IInv, Types, TypeOK
  <1>9. /\ issued' = Append(issued, [sv |-> req[h].sv, op |-> req[h].op])
        /\ auth_sessions' = auth_sessions \cup {n}
        /\ UNCHANGED <<user, reset_tokens, minted, revoked>>
    BY <1>8 DEF Issue
  <1>10. PICK i \in [sv : Nat, op : Issuing] : i = [sv |-> req[h].sv, op |-> req[h].op]
    BY <1>1, <1>6
  <1>11. /\ issued' \in Seq([sv : Nat, op : Issuing]) /\ Len(issued') = n /\ Len(issued) \in Nat
         /\ issued'[n].sv = req[h].sv /\ \A m \in SessionId : issued'[m] = issued[m]
    <2>1. issued \in Seq([sv : Nat, op : Issuing]) /\ issued' = Append(issued, i)
      BY <1>9, <1>10 DEF IInv, Types, TypeOK
    <2>2. /\ issued' \in Seq([sv : Nat, op : Issuing]) /\ Len(issued') = n /\ Len(issued) \in Nat
          /\ issued'[n] = i /\ \A m \in SessionId : issued'[m] = issued[m]
      BY <1>8, <2>1 DEF SessionId
    <2> QED BY <1>10, <2>2
  <1>12. SessionId' = SessionId \cup {n} /\ n \notin SessionId
    BY <1>8, <1>11 DEF SessionId
  <1>13. \A m \in SessionId : (Dead(m)' <=> Dead(m)) /\ (Live(m)' <=> Live(m))
    BY <1>9, <1>11 DEF Dead, Live
  <1>14. PICK r \in RequestType : r = [req[h] EXCEPT !.new = n]
    BY <1>1 DEF RequestType
  <1>15. /\ r.op = req[h].op /\ r.old = req[h].old /\ r.new = n /\ r.alone = req[h].alone
         /\ r.barred = req[h].barred /\ r.snap = req[h].snap /\ r.sv = req[h].sv
    BY <1>1, <1>14 DEF RequestType
  <1>16. Goto(h, r, t)
    BY <1>2, <1>3, <1>8, <1>14 DEF Issue, Continue
  <1>17. ASSUME t # << >> PROVE Revokes(h)' /\ Refused(h)' /\ Evicts(h)'
    <2>1. /\ req'[h].todo = t /\ req'[h].op = req[h].op /\ req'[h].old = req[h].old
          /\ req'[h].new = n /\ req'[h].alone = req[h].alone /\ req'[h].barred = req[h].barred
          /\ req'[h].snap = req[h].snap /\ req'[h].sv = req[h].sv
      BY <1>15, <1>16, <1>17, Moves
    <2>2. Revokes(h)'
      BY <1>4, <1>5, <1>7, <1>9, <1>12, <1>17, <2>1 DEF Revokes
    <2>3. Refused(h)'
      BY <1>1, <1>2, <1>4, <1>5, <1>9, <2>1 DEF Refused
    <2>4. Evicts(h)'
      BY <1>1, <1>4, <1>7, <1>9, <1>12, <1>13, <1>17, <2>1 DEF Evicts
    <2> QED BY <2>2, <2>3, <2>4
  <1>18. ASSUME NEW g \in Handler, g # h PROVE OK(g)'
    <2>1. req'[g] = req[g]
      BY <1>16, <1>18, Moves
    <2> SUFFICES ASSUME Busy(g) PROVE Revokes(g)' /\ Refused(g)' /\ Evicts(g)'
      BY <2>1 DEF OK, Busy
    <2>2. ~req[g].alone
      BY <1>1, <1>6, <1>18 DEF IInv, Alone
    <2>3. Revokes(g) /\ Refused(g) /\ Evicts(g)
      BY BusyTypes
    <2>4. Revokes(g)'
      BY <1>9, <1>12, <1>13, <2>1, <2>3 DEF Revokes
    <2>5. Refused(g)'
      BY <1>9, <2>1, <2>3 DEF Refused
    <2>6. Evicts(g)'
      BY <2>1, <2>2, <2>3 DEF Evicts
    <2> QED BY <2>4, <2>5, <2>6
  <1>19. \A g \in Handler : OK(g)'
    BY <1>16, <1>17, <1>18, Moves DEF OK
  <1>20. /\ req' \in [Handler -> RequestType \cup {Idle}] /\ started' = started
         /\ \A g \in Handler : Busy(g)' => /\ Busy(g) /\ (req'[g].alone => req[g].alone)
                                           /\ (req'[g].op \in Issuing => req[g].op \in Issuing)
    <2>1. /\ req' \in [Handler -> RequestType \cup {Idle}] /\ started' = started
          /\ \A g \in Handler \ {h} : req'[g] = req[g]
          /\ Busy(h)' => req'[h].op = r.op /\ req'[h].alone = r.alone
      BY <1>16, Moves
    <2> QED BY <1>1, <1>15, <2>1 DEF Busy
  <1>21. Types'
    <2>1. \A g \in Handler : Busy(g)' => req'[g] \in RequestType
      BY <1>20 DEF Busy
    <2>2. handed' = handed \/ handed' = handed \cup {n}
      BY <1>15, <1>16, Moves
    <2> QED BY <1>9, <1>11, <1>12, <1>20, <2>1, <2>2 DEF IInv, Types, TypeOK
  <1>22. Versions'
    <2>1. Len(issued') >= 1
      BY <1>8, <1>11
    <2>2. ASSUME NEW m \in SessionId' PROVE issued'[m].sv <= user'.session_version
      <3>1. CASE m = n
        BY <1>1, <1>9, <1>11, <3>1
      <3>2. CASE m \in SessionId
        BY <1>9, <1>11, <3>2 DEF IInv, Versions
      <3> QED BY <1>12, <2>2, <3>1, <3>2
    <2> QED BY <2>1, <2>2 DEF Versions
  <1>23. RevokedDead'
    BY <1>9, <1>12, <1>13 DEF IInv, RevokedDead, Types, TypeOK
  <1>24. Alone'
    <2>1. Alone
      BY DEF IInv
    <2> QED BY <1>20, <2>1 DEF Alone
  <1> QED BY <1>19, <1>21, <1>22, <1>23, <1>24 DEF IInv

\* The gate is the last statement of a login: it signs the account out, clears the counters
\* or stops.
LEMMA GateStep ==
    ASSUME IInv, NEW h \in Handler, Gate(h)
    PROVE  IInv'
  <1>1. /\ Busy(h) /\ req[h] \in RequestType /\ req[h].todo[1] = "gate" /\ req[h].op \in Op
        /\ req[h].todo \in Seq(Statement) /\ req[h].todo # << >> /\ Shape(req[h].op, req[h].todo)
        /\ Revokes(h) /\ Refused(h) /\ Evicts(h)
    BY AtTypes, BusyTypes DEF Gate
  <1>2. UNCHANGED tables /\ Calm
    BY UnchangedIsCalm DEF Gate
  <1>3. UNCHANGED <<user, issued, auth_sessions>>
    BY <1>2 DEF tables
  <1>4. Len(req[h].todo) = 1
    <2>1. 1 \in 1 .. Len(req[h].todo)
      BY <1>1
    <2> QED BY <1>1, <2>1 DEF Shape
  <1>5. req[h].op = "login" /\ \A x : In(x, req[h].todo) <=> x = "gate"
    <2>1. \A x : In(x, req[h].todo) <=> x = "gate"
      BY <1>1, <1>4 DEF In
    <2> QED BY <1>1, <2>1 DEF Shape
  <1>6. req[h].new \in SessionId
    BY <1>1, <1>5 DEF Revokes, Issuing
  <1>7. minted' \in Nat /\ reset_tokens' \subseteq 1 .. minted' /\ revoked' = revoked
    BY <1>2, UnchangedIsCalm
  <1>8. CASE Stop(h)
    BY <1>2, <1>8, UnchangedIsCalm, StopStep
  <1>9. CASE req[h].snap.status = "active" /\ Goto(h, req[h], <<"clear">>)
    <2>1. PICK t \in Seq(Statement) : t = <<"clear">>
      <3>1. "clear" \in Statement
        BY DEF Statement
      <3>2. <<"clear">> \in Seq(Statement)
        BY <3>1
      <3> QED BY <3>2
    <2>2. Shape("login", t) /\ t # << >> /\ t[1] = "clear"
      BY <2>1 DEF Shape, In, Follows, Leads
    <2>3. /\ req'[h].todo = t /\ req'[h].op = "login" /\ req'[h].old = req[h].old
          /\ req'[h].new = req[h].new /\ req'[h].alone = req[h].alone /\ req'[h].barred = req[h].barred
          /\ req'[h].snap = req[h].snap /\ req'[h].sv = req[h].sv
      BY <1>1, <1>5, <1>9, <2>1, <2>2, Moves
    <2>4. ~req[h].barred
      BY <1>1, <1>5, <1>9 DEF Refused
    <2>5. Revokes(h)'
      BY <1>1, <1>3, <1>6, <2>2, <2>3 DEF Revokes, SessionId, Dead
    <2>6. Refused(h)'
      BY <2>3, <2>4 DEF Refused
    <2>7. Evicts(h)'
      BY <1>1, <1>3, <2>2, <2>3 DEF Evicts, SessionId, Dead, Live
    <2>8. OK(h)' /\ handed' \subseteq SessionId
      BY <1>1, <1>9, <2>1, <2>2, <2>5, <2>6, <2>7, Moves DEF OK, IInv, Types, TypeOK
    <2> QED BY <1>1, <1>2, <1>5, <1>7, <1>9, <2>1, <2>3, <2>8, Moves, CalmConcludes
  <1>10. CASE Goto(h, [req[h] EXCEPT !.op = "signOut", !.old = SessionId], revokeAllSessions)
    <2>1. PICK t \in Seq(Statement) : t = revokeAllSessions
      BY Parts DEF Part
    <2>2. Shape("signOut", t) /\ t # << >> /\ t[1] = "bump"
      <3>1. "signOut" \in Op \ Issuing
        BY DEF Op, Issuing
      <3>2. Shape("signOut", t)
        BY <2>1, <3>1, Parts, SomeAreHarmless, HarmlessPrograms
      <3> QED BY <2>1, <3>2 DEF revokeAllSessions
    <2>3. SessionId \subseteq Nat /\ SessionId # {}
      BY DEF SessionId, IInv, Versions, Types, TypeOK
    <2>4. PICK r \in RequestType : r = [req[h] EXCEPT !.op = "signOut", !.old = SessionId]
      BY <1>1, <2>3 DEF RequestType
    <2>5. /\ r.op = "signOut" /\ r.old = SessionId /\ r.new = req[h].new /\ r.alone = req[h].alone
          /\ r.barred = req[h].barred /\ r.snap = req[h].snap /\ r.sv = req[h].sv
      BY <1>1, <2>4 DEF RequestType
    <2>6. Goto(h, r, t)
      BY <1>10, <2>1, <2>4
    <2>7. /\ req'[h].todo = t /\ req'[h].op = "signOut" /\ req'[h].old = SessionId
          /\ req'[h].new = req[h].new /\ req'[h].alone = req[h].alone /\ req'[h].barred = req[h].barred
          /\ req'[h].snap = req[h].snap /\ req'[h].sv = req[h].sv
      BY <2>2, <2>5, <2>6, Moves
    <2>8. "signOut" \notin Issuing
      BY DEF Issuing
    <2>9. Revokes(h)'
      BY <1>1, <1>3, <2>2, <2>7, <2>8 DEF Revokes, SessionId
    <2>10. Refused(h)'
      BY <1>1, <1>3, <2>7 DEF Refused
    <2>11. Evicts(h)'
      BY <1>3, <2>2, <2>3, <2>7 DEF Evicts, SessionId
    <2>12. OK(h)' /\ handed' \subseteq SessionId
      BY <2>2, <2>6, <2>9, <2>10, <2>11, Moves DEF OK, IInv, Types, TypeOK
    <2> QED BY <1>1, <1>2, <1>7, <2>6, <2>7, <2>8, <2>12, Moves, CalmConcludes
  <1> QED BY <1>8, <1>9, <1>10 DEF Gate

\* A statement whose error is ignored is left out, and a bump with the delete behind it.
LEMMA SwallowStep ==
    ASSUME IInv, NEW h \in Handler, Swallow(h)
    PROVE  IInv'
  <1>0. UNCHANGED tables /\ Calm
    BY UnchangedIsCalm DEF Swallow
  <1>1. PICK x \in {"supersede", "spendAll", "spend", "clear", "bump", "delete"} : At(h, x)
    BY DEF Swallow
  <1>2. /\ Busy(h) /\ req[h] \in RequestType /\ req[h].todo[1] = x /\ req[h].sv \in Nat
        /\ req[h].sv <= user.session_version
    BY <1>1, AtTypes
  <1>3. PICK s \in Seq(Statement) : s = req[h].todo /\ s # << >> /\ Shape(req[h].op, s)
    BY <1>2, BusyTypes
  <1>4. \A y : At(h, y) <=> y = x
    BY <1>1 DEF At
  <1>5. PICK t \in Seq(Statement) : t = Tail(s)
    BY <1>3, Rests
  <1>6. /\ Shape(req[h].op, t)
        /\ \A y : In(y, s) <=> s[1] = y \/ In(y, t)
    BY <1>3, <1>5, Rests
  <1>7. Follows(s, "delete", "bump") /\ Follows(s, "issue", "readVersion")
    BY <1>3 DEF Shape
  <1>8. CASE x \in {"supersede", "spendAll", "spend", "clear"}
    <2>1. Continue(h, req[h])
      BY <1>4, <1>8 DEF Swallow, Continue
    <2>2. req[h].todo[1] \notin {"bump", "delete", "issue", "countFailure", "admit", "lookup"}
      BY <1>2, <1>8
    <2> QED BY <1>0, <1>2, <2>1, <2>2, UnchangedIsCalm, AdvanceStep
  <1>9. CASE x = "delete"
    <2>1. Goto(h, req[h], t) /\ ~(t # << >> /\ Head(t) = "readVersion")
      BY <1>3, <1>4, <1>5, <1>9 DEF Swallow
    <2>2. t # << >> => t[1] # "delete" /\ t[1] # "issue" /\ t[1] # "readVersion"
      <3>1. t # << >> => t[1] # "delete" /\ t[1] # "issue"
        BY <1>2, <1>3, <1>5, <1>7, <1>9, Rests
      <3>2. t # << >> => Head(t) = t[1]
        BY Rests
      <3> QED BY <2>1, <3>1, <3>2
    <2> QED BY <1>0, <1>2, <1>3, <1>6, <1>9, <2>1, <2>2, UnchangedIsCalm, CalmStep
  <1>10. CASE x = "bump"
    <2>1. 1 < Len(s) /\ s[2] = "delete"
      <3>1. Leads(s) /\ s[1] = "bump"
        BY <1>2, <1>3, <1>10 DEF Shape
      <3>2. Len(s) \in Nat \ {0} /\ 1 \in 1 .. Len(s) /\ 1 + 1 = 2
        BY <1>3, Rests
      <3> QED BY <3>1, <3>2 DEF Leads
    <2>2. t # << >> /\ t[1] = "delete"
      <3>1. PICK m \in Nat : m = Len(s)
        OBVIOUS
      <3>2. Len(t) = m - 1 /\ \A k \in 1 .. Len(t) : t[k] = s[k + 1]
        BY <1>3, <1>5, <3>1, Rests
      <3>3. Len(t) >= 1 /\ 1 \in 1 .. Len(t) /\ 1 + 1 = 2
        BY <2>1, <3>1, <3>2
      <3>4. t[1] = s[2]
        BY <3>2, <3>3
      <3> QED BY <2>1, <3>3, <3>4
    <2>3. PICK v \in Seq(Statement) : v = Tail(t)
      BY <2>2, Rests
    <2>4. /\ Shape(req[h].op, v)
          /\ \A y : In(y, t) <=> t[1] = y \/ In(y, v)
      BY <1>6, <2>2, <2>3, Rests
    <2>5. Goto(h, req[h], v) /\ ~(v # << >> /\ Head(v) = "readVersion")
      <3>1. At(h, "bump") /\ v = Tail(Tail(req[h].todo))
        BY <1>1, <1>3, <1>5, <1>10, <2>3
      <3>2. ~At(h, "supersede") /\ ~At(h, "spendAll") /\ ~At(h, "spend") /\ ~At(h, "clear")
        BY <1>4, <1>10
      <3> QED BY <3>1, <3>2 DEF Swallow
    <2>6. v # << >> => v[1] # "delete" /\ v[1] # "issue" /\ v[1] # "readVersion"
      <3>1. Follows(t, "delete", "bump") /\ Follows(t, "issue", "readVersion")
        BY <1>6 DEF Shape
      <3>2. v # << >> => v[1] # "delete" /\ v[1] # "issue"
        BY <2>2, <2>3, <3>1, Rests
      <3>3. v # << >> => Head(v) = v[1]
        BY Rests
      <3> QED BY <2>5, <3>2, <3>3
    <2> QED BY <1>0, <1>2, <1>3, <1>6, <1>10, <2>2, <2>4, <2>5, <2>6, UnchangedIsCalm, CalmStep
  <1> QED BY <1>8, <1>9, <1>10

\* The status is set; reactivating the account lifts the bar from everybody.
LEMMA SetStatusStep ==
    ASSUME IInv, NEW h \in Handler, SetStatus(h)
    PROVE  IInv'
  <1>1. /\ Busy(h) /\ req[h] \in RequestType /\ req[h].todo[1] = "setStatus" /\ user \in User
    BY AtTypes DEF SetStatus
  <1>2. PICK s \in Seq(Statement) : s = req[h].todo /\ s # << >> /\ Shape(req[h].op, s)
    BY <1>1, BusyTypes
  <1>3. PICK t \in Seq(Statement) : t = Tail(s)
    BY <1>2, Rests
  <1>4. /\ Shape(req[h].op, t)
        /\ \A x : In(x, s) <=> s[1] = x \/ In(x, t)
    BY <1>2, <1>3, Rests
  <1>5. t # << >> => t[1] # "delete" /\ t[1] # "issue" /\ (t[1] = "readVersion" => req[h].old # {})
    <2>1. Follows(s, "delete", "bump") /\ Follows(s, "issue", "readVersion")
      BY <1>2 DEF Shape
    <2>2. t # << >> => t[1] # "delete" /\ t[1] # "issue"
      BY <1>1, <1>2, <1>3, <2>1, Rests
    <2> QED BY <1>1, <1>2, <1>3, <2>2, ReadsAfterDelete
  <1>6. /\ user' \in User /\ user'.session_version = user.session_version /\ user'.status = req[h].to
        /\ UNCHANGED <<auth_sessions, issued, handed, reset_tokens, minted, revoked, started>>
    BY <1>1 DEF SetStatus, User, RequestType
  <1>7. /\ SessionId' = SessionId
        /\ \A n \in SessionId : (Dead(n)' <=> Dead(n)) /\ (Live(n)' <=> Live(n))
    BY <1>6 DEF SessionId, Dead, Live
  <1>8. PICK q \in RequestType \cup {Idle} :
            /\ q = IF t = << >> THEN Idle ELSE [req[h] EXCEPT !.todo = t]
            /\ q # Idle => t # << >> /\ q.todo = t /\ q.op = req[h].op /\ q.sv = req[h].sv /\ q.old = req[h].old
                           /\ q.new = req[h].new /\ q.snap = req[h].snap /\ q.barred = req[h].barred
                           /\ q.alone = req[h].alone
    <2>1. CASE t = << >>
      BY <2>1
    <2>2. CASE t # << >>
      <3>1. PICK q \in RequestType : q = [req[h] EXCEPT !.todo = t]
        BY <1>1, <2>2 DEF RequestType
      <3>2. /\ q.todo = t /\ q.op = req[h].op /\ q.sv = req[h].sv /\ q.old = req[h].old
            /\ q.new = req[h].new /\ q.snap = req[h].snap /\ q.barred = req[h].barred
            /\ q.alone = req[h].alone
        BY <1>1, <3>1 DEF RequestType
      <3> QED BY <2>2, <3>1, <3>2
    <2> QED BY <2>1, <2>2
  <1>9. PICK after \in [Handler -> RequestType \cup {Idle}] :
            /\ after = [req EXCEPT ![h] = q] /\ after[h] = q /\ \A g \in Handler \ {h} : after[g] = req[g]
    <2>1. req \in [Handler -> RequestType \cup {Idle}]
      BY DEF IInv, Types
    <2>2. PICK a : a = [req EXCEPT ![h] = q]
      OBVIOUS
    <2>3. a \in [Handler -> RequestType \cup {Idle}] /\ a[h] = q /\ \A g \in Handler \ {h} : a[g] = req[g]
      BY <2>1, <2>2
    <2> QED BY <2>2, <2>3
  <1>10. req' = IF req[h].to # "active" THEN after
                ELSE [g \in Handler |-> IF after[g] = Idle THEN Idle ELSE [after[g] EXCEPT !.barred = FALSE]]
    BY <1>2, <1>3, <1>8, <1>9 DEF SetStatus
  <1>11. ASSUME NEW g \in Handler
         PROVE  /\ req'[g] \in RequestType \cup {Idle}
                /\ req'[g] # Idle =>
                      /\ after[g] # Idle /\ req'[g].todo = after[g].todo /\ req'[g].op = after[g].op
                      /\ req'[g].sv = after[g].sv /\ req'[g].old = after[g].old /\ req'[g].new = after[g].new
                      /\ req'[g].snap = after[g].snap /\ req'[g].alone = after[g].alone
                      /\ req'[g].barred => after[g].barred /\ user'.status # "active"
    <2>1. CASE req[h].to # "active" \/ after[g] = Idle
      BY <1>6, <1>10, <2>1
    <2>2. CASE req[h].to = "active" /\ after[g] # Idle
      <3>1. after[g] \in RequestType
        BY <2>2
      <3>2. PICK z \in RequestType : z = [after[g] EXCEPT !.barred = FALSE]
        BY <3>1 DEF RequestType
      <3>3. /\ z.todo = after[g].todo /\ z.op = after[g].op /\ z.sv = after[g].sv /\ z.old = after[g].old
            /\ z.new = after[g].new /\ z.snap = after[g].snap /\ z.alone = after[g].alone /\ z.barred = FALSE
        BY <3>1, <3>2 DEF RequestType
      <3>4. req'[g] = z
        BY <1>10, <2>2, <3>2
      <3> QED BY <2>2, <3>3, <3>4
    <2> QED BY <2>1, <2>2
  <1>12. ASSUME NEW g \in Handler, Busy(g)'
         PROVE  /\ Busy(g) /\ req'[g] \in RequestType /\ req'[g].op = req[g].op /\ req'[g].sv = req[g].sv
                /\ req'[g].old = req[g].old /\ req'[g].new = req[g].new /\ req'[g].snap = req[g].snap
                /\ req'[g].alone = req[g].alone
                /\ req'[g].barred => req[g].barred /\ user'.status # "active"
                /\ IF g = h THEN t # << >> /\ req'[g].todo = t ELSE req'[g].todo = req[g].todo
    <2>1. req'[g] # Idle
      BY <1>12 DEF Busy
    <2>2. CASE g = h
      BY <1>1, <1>8, <1>9, <1>11, <2>1, <2>2
    <2>3. CASE g # h
      BY <1>9, <1>11, <2>1, <2>3 DEF Busy
    <2> QED BY <2>2, <2>3
  <1>13. ASSUME NEW g \in Handler, Busy(g)' PROVE Revokes(g)' /\ Refused(g)' /\ Evicts(g)'
    <2>1. /\ Busy(g) /\ req'[g].op = req[g].op /\ req'[g].sv = req[g].sv
          /\ req'[g].old = req[g].old /\ req'[g].new = req[g].new /\ req'[g].snap = req[g].snap
          /\ req'[g].alone = req[g].alone
          /\ req'[g].barred => req[g].barred /\ user'.status # "active"
          /\ IF g = h THEN t # << >> /\ req'[g].todo = t ELSE req'[g].todo = req[g].todo
      BY <1>12, <1>13
    <2>2. Revokes(g) /\ Refused(g) /\ Evicts(g)
      BY <2>1, BusyTypes
    <2>3. CASE g # h
      <3>1. req'[g].todo = req[g].todo
        BY <2>1, <2>3
      <3>2. Revokes(g)'
        BY <1>6, <1>7, <2>1, <2>2, <3>1 DEF Revokes
      <3>3. Refused(g)'
        BY <2>1, <2>2, <3>1 DEF Refused
      <3>4. Evicts(g)'
        BY <1>6, <1>7, <2>1, <2>2, <3>1 DEF Evicts
      <3> QED BY <3>2, <3>3, <3>4
    <2>4. CASE g = h
      <3>1. t # << >> /\ req'[h].todo = t
        BY <2>1, <2>4
      <3>2. Revokes(h)'
        BY <1>1, <1>2, <1>4, <1>5, <1>6, <1>7, <2>1, <2>2, <2>4, <3>1 DEF Revokes
      <3>3. Refused(h)'
        BY <1>1, <1>2, <1>4, <2>1, <2>2, <2>4, <3>1 DEF Refused
      <3>4. Evicts(h)'
        BY <1>5, <1>6, <1>7, <2>1, <2>2, <2>4, <3>1 DEF Evicts
      <3> QED BY <2>4, <3>2, <3>3, <3>4
    <2> QED BY <2>3, <2>4
  <1>14. Types'
    <2>1. req' \in [Handler -> RequestType \cup {Idle}]
      <3>1. DOMAIN req' = Handler /\ req' = [g \in Handler |-> req'[g]]
        BY <1>9, <1>10
      <3> QED BY <1>11, <3>1
    <2> QED BY <1>6, <1>7, <1>12, <2>1 DEF IInv, Types, TypeOK
  <1>15. Versions' /\ RevokedDead'
    BY <1>6, <1>7 DEF IInv, Versions, RevokedDead, Types, TypeOK
  <1>16. Alone'
    <2>1. Alone
      BY DEF IInv
    <2> QED BY <1>12, <2>1 DEF Alone
  <1> QED BY <1>13, <1>14, <1>15, <1>16 DEF IInv, OK

\* A request comes in: every session is older than it, and nobody is alone any more when
\* it issues one.
LEMMA StartStep ==
    ASSUME IInv, NEW h \in Handler, NEW op \in Op, NEW n \in Nat, NEW to \in Status,
           NEW p \in Password, NEW next \in Password, Start(h, Request(op, n, to, p, next))
    PROVE  IInv'
  <1>1. /\ Shape(op, Program(op, to)) /\ Program(op, to) # << >> /\ Program(op, to)[1] # "delete"
        /\ op \in {"api", "logout", "changePassword"} => In("admit", Program(op, to))
        /\ op = "login" => In("lookup", Program(op, to)) /\ ~In("clear", Program(op, to))
        /\ op \in Issuing => In("issue", Program(op, to))
    BY Programs
  <1>2. PICK s \in Seq(Statement) : s = Program(op, to)
    BY <1>1 DEF Shape
  <1>3. PICK a \in BOOLEAN : a = \A g \in Handler : Busy(g) => req[g].op \notin Issuing
    OBVIOUS
  <1>4. PICK b \in BOOLEAN : b = (user.status # "active")
    OBVIOUS
  <1>5. PICK c \in [status : Status, failed : Nat] : c = [status |-> "active", failed |-> 0]
    BY DEF Status
  <1>6. SessionId \subseteq Nat /\ SessionId # {} /\ user.session_version \in Nat /\ user \in User
    BY DEF SessionId, IInv, Versions, Types, TypeOK, User
  <1>7. PICK r : r = Request(op, n, to, p, next)
    OBVIOUS
  <1>8. r = [op |-> op, todo |-> s, n |-> n, to |-> to, password |-> p, next |-> next, snap |-> c,
             sv |-> 0, new |-> 0, old |-> SessionId, barred |-> b, alone |-> a]
    BY <1>2, <1>3, <1>4, <1>5, <1>7 DEF Request
  <1>9. r \in RequestType
    BY <1>1, <1>2, <1>6, <1>8 DEF RequestType, Op
  <1>10. /\ r.op = op /\ r.todo = s /\ r.snap = c /\ r.sv = 0 /\ r.new = 0 /\ r.old = SessionId
         /\ r.barred = b /\ r.alone = a
    BY <1>8
  <1>11. /\ ~Busy(h) /\ started < MaxRequests /\ started' = started + 1
         /\ UNCHANGED <<user, auth_sessions, issued, handed, reset_tokens, minted, revoked>>
         /\ req' = [g \in Handler |-> IF g = h THEN r
                                      ELSE IF Busy(g) /\ r.op \in Issuing THEN [req[g] EXCEPT !.alone = FALSE]
                                      ELSE req[g]]
    BY <1>7 DEF Start
  <1>12. req'[h] = r /\ Busy(h)'
    BY <1>9, <1>11, IdleIsNone DEF Busy
  <1>13. ASSUME NEW g \in Handler, g # h
         PROVE  /\ req'[g] \in RequestType \cup {Idle}
                /\ Busy(g)' => /\ Busy(g) /\ req'[g].op = req[g].op /\ req'[g].todo = req[g].todo
                               /\ req'[g].sv = req[g].sv /\ req'[g].old = req[g].old /\ req'[g].new = req[g].new
                               /\ req'[g].snap = req[g].snap /\ req'[g].barred = req[g].barred
                               /\ req'[g].alone => req[g].alone /\ op \notin Issuing
    <2>1. CASE Busy(g) /\ op \in Issuing
      <3>1. req[g] \in RequestType
        BY <2>1, BusyTypes
      <3>2. PICK z \in RequestType : z = [req[g] EXCEPT !.alone = FALSE]
        BY <3>1 DEF RequestType
      <3>3. /\ z.op = req[g].op /\ z.todo = req[g].todo /\ z.sv = req[g].sv /\ z.old = req[g].old
            /\ z.new = req[g].new /\ z.snap = req[g].snap /\ z.barred = req[g].barred /\ z.alone = FALSE
        BY <3>1, <3>2 DEF RequestType
      <3>4. req'[g] = z
        BY <1>10, <1>11, <1>13, <2>1, <3>2
      <3> QED BY <2>1, <3>3, <3>4
    <2>2. CASE ~(Busy(g) /\ op \in Issuing)
      <3>1. req'[g] = req[g]
        BY <1>10, <1>11, <1>13, <2>2
      <3> QED BY <2>2, <3>1 DEF IInv, Types, Busy
    <2> QED BY <2>1, <2>2
  <1>14. SessionId' = SessionId /\ \A m \in SessionId : (Dead(m)' <=> Dead(m)) /\ (Live(m)' <=> Live(m))
    BY <1>11 DEF SessionId, Dead, Live
  <1>15. Revokes(h)' /\ Refused(h)' /\ Evicts(h)'
    <2>1. Revokes(h)'
      BY <1>1, <1>2, <1>6, <1>10, <1>11, <1>12, <1>14 DEF Revokes
    <2>2. Refused(h)'
      BY <1>1, <1>2, <1>4, <1>10, <1>11, <1>12 DEF Refused
    <2>3. Evicts(h)'
      BY <1>1, <1>2, <1>6, <1>10, <1>12 DEF Evicts
    <2> QED BY <2>1, <2>2, <2>3
  <1>16. ASSUME NEW g \in Handler, g # h, Busy(g)' PROVE Revokes(g)' /\ Refused(g)' /\ Evicts(g)'
    <2>1. /\ Busy(g) /\ req'[g].op = req[g].op /\ req'[g].todo = req[g].todo
          /\ req'[g].sv = req[g].sv /\ req'[g].old = req[g].old /\ req'[g].new = req[g].new
          /\ req'[g].snap = req[g].snap /\ req'[g].barred = req[g].barred
          /\ req'[g].alone => req[g].alone
      BY <1>13, <1>16
    <2>2. Revokes(g) /\ Refused(g) /\ Evicts(g)
      BY <2>1, BusyTypes
    <2>3. Revokes(g)'
      BY <1>11, <1>14, <2>1, <2>2 DEF Revokes
    <2>4. Refused(g)'
      BY <1>11, <2>1, <2>2 DEF Refused
    <2>5. Evicts(g)'
      BY <1>11, <1>14, <2>1, <2>2 DEF Evicts
    <2> QED BY <2>3, <2>4, <2>5
  <1>17. Types'
    <2>1. req' \in [Handler -> RequestType \cup {Idle}]
      <3>1. DOMAIN req' = Handler /\ req' = [g \in Handler |-> req'[g]]
        BY <1>11
      <3>2. \A g \in Handler : req'[g] \in RequestType \cup {Idle}
        BY <1>9, <1>12, <1>13
      <3> QED BY <3>1, <3>2
    <2>2. started' \in 0 .. MaxRequests
      BY <1>11, BoundsAreNatural DEF IInv, Types, TypeOK
    <2>3. \A g \in Handler : Busy(g)' => req'[g] \in RequestType
      BY <2>1 DEF Busy
    <2> QED BY <1>11, <1>14, <2>1, <2>2, <2>3 DEF IInv, Types, TypeOK
  <1>18. Versions' /\ RevokedDead'
    BY <1>11, <1>14 DEF IInv, Versions, RevokedDead, Types, TypeOK
  <1>19. Alone'
    <2> SUFFICES ASSUME NEW f \in Handler, NEW g \in Handler, f # g, Busy(f)', Busy(g)', req'[g].alone
                 PROVE  req'[f].op \notin Issuing
      BY DEF Alone
    <2>1. CASE g = h
      BY <1>3, <1>10, <1>12, <1>13, <2>1
    <2>2. CASE f = h
      BY <1>10, <1>12, <1>13, <2>2
    <2>3. CASE f # h /\ g # h
      BY <1>13, <2>3 DEF IInv, Alone
    <2> QED BY <2>1, <2>2, <2>3
  <1> QED BY <1>15, <1>16, <1>17, <1>18, <1>19 DEF IInv, OK

LEMMA ArriveStep ==
    ASSUME IInv, NEW h \in Handler, Arrive(h)
    PROVE  IInv'
  <1>1. /\ Initial \in Password /\ "active" \in Status /\ handed \subseteq Nat /\ auth_sessions \subseteq Nat
        /\ 1 .. minted \subseteq Nat /\ 0 \in Nat
    BY PasswordsExist DEF Status, IInv, Types, TypeOK, SessionId
  <1>2. {"login", "refresh", "api", "logout", "changePassword", "forgot", "reset", "setUserStatus",
         "adminSetStatus", "signOut", "impersonate", "revokeSession"} \subseteq Op
    BY DEF Op, Issuing
  <1>3. PICK op \in Op, n \in Nat, to \in Status, p \in Password, q \in Password :
            Start(h, Request(op, n, to, p, q))
    BY <1>1, <1>2 DEF Arrive
  <1> QED BY <1>3, StartStep

-----------------------------------------------------------------------------
LEMMA InitIInv == Init => IInv
  <1> SUFFICES ASSUME Init PROVE IInv
    OBVIOUS
  <1>1. user \in User /\ user.session_version = 1
    BY PasswordsExist DEF Init, User, Status
  <1>2. PICK i \in [sv : Nat, op : Issuing] : i = [sv |-> 1, op |-> "login"]
    BY DEF Issuing
  <1>3. issued = <<i>> /\ i.sv = 1
    BY <1>2 DEF Init
  <1>4. issued \in Seq([sv : Nat, op : Issuing]) /\ Len(issued) = 1 /\ issued[1] = i
    BY <1>3
  <1>5. SessionId = {1}
    BY <1>4 DEF SessionId
  <1>6. \A h \in Handler : ~Busy(h)
    BY DEF Init, Busy
  <1>7. TypeOK
    BY <1>1, <1>4, <1>5, <1>6, BoundsAreNatural DEF Init, TypeOK
  <1>8. req \in [Handler -> RequestType \cup {Idle}]
    BY DEF Init
  <1>9. Versions
    BY <1>1, <1>3, <1>4, <1>5 DEF Versions
  <1>10. RevokedDead /\ Alone /\ \A h \in Handler : OK(h)
    BY <1>6 DEF Init, RevokedDead, Alone, OK
  <1> QED BY <1>7, <1>8, <1>9, <1>10 DEF IInv, Types

LEMMA NextIInv == IInv /\ [Next]_vars => IInv'
  <1> SUFFICES ASSUME IInv, [Next]_vars PROVE IInv'
    OBVIOUS
  <1>1. CASE UNCHANGED vars
    <2>1. UNCHANGED tables /\ UNCHANGED <<req, handed, started, revoked, minted, reset_tokens>>
      BY <1>1 DEF vars, tables
    <2> QED BY <2>1, UnchangedIsCalm, QuietStep
  <1>2. ASSUME NEW h \in Handler, Arrive(h) PROVE IInv'
    BY <1>2, ArriveStep
  <1>3. ASSUME NEW h \in Handler, Step(h) PROVE IInv'
    BY <1>3, ReadStep, WriteStep, NoteStep, CountFailureStep, BumpStep, DeleteStep, IssueStep,
       GateStep,
       SetStatusStep DEF Step
  <1>4. ASSUME NEW h \in Handler, Swallow(h) \/ Fail(h) PROVE IInv'
    BY <1>4, SwallowStep, FailStep
  <1>5. CASE Unlock \/ (\E n \in auth_sessions : ExpireSession(n)) \/ \E n \in reset_tokens : ExpireToken(n)
    BY <1>5, TimeStep
  <1> QED BY <1>1, <1>2, <1>3, <1>4, <1>5 DEF Next

\* The strengthened invariant holds in every reachable state: what each request still has to do
\* agrees with the account, the session rows and the tokens as they are now.
THEOREM Inductive == Spec => []IInv
  BY InitIInv, NextIInv, PTL DEF Spec

\* Every variable keeps its type: what the todo lists and the history contain stays
\* inside the sessions issued and the tokens minted.
THEOREM TypeCorrect == Spec => []TypeOK
  <1>1. IInv => TypeOK
    BY DEF IInv, Types
  <1> QED BY <1>1, Inductive, PTL

\* Revocation is final (revokeAllSessions in auth.local.ts): however requests interleave,
\* fail or swallow errors, no session issued before a finished revocation lives again.
THEOREM RevocationIsFinal == Spec => []RevokedStaysDead
  <1>1. IInv => RevokedStaysDead
    <2> SUFFICES ASSUME IInv, NEW n \in revoked PROVE ~Live(n) /\ n \notin auth_sessions
      BY DEF RevokedStaysDead
    <2>1. Dead(n) /\ n \notin auth_sessions /\ n \in SessionId
      BY DEF IInv, RevokedDead, Types, TypeOK
    <2>2. issued[n].sv \in Nat /\ user.session_version \in Nat
      BY <2>1, IssuedTypes DEF IInv, Types, TypeOK, User
    <2> QED BY <2>1, <2>2 DEF Dead, Live
  <1> QED BY <1>1, Inductive, PTL

\* A request that revokes and that no other issuing request overlaps leaves no session but
\* its own (signInWithPassword's single-device rule, for sign-ins that do not race).
THEOREM SignInsEvict == Spec => []EvictsOthers
  <1>1. IInv => EvictsOthers
    BY BusyTypes DEF EvictsOthers, Evicts
  <1> QED BY <1>1, Inductive, PTL

\* A request that starts while the account is barred gets nowhere (requireAuth's second
\* read, login's gate), as long as nobody reactivates the account.
THEOREM BarredStaysOut == Spec => []BarredGetsNowhere
  <1>1. IInv => BarredGetsNowhere
    <2> SUFFICES ASSUME IInv, NEW h \in Handler, Busy(h), req[h].barred
                 PROVE  /\ req[h].op \in {"api", "logout", "changePassword"} =>
                               \E k \in 1 .. Len(req[h].todo) : req[h].todo[k] = "admit"
                        /\ req[h].op = "login" => req[h].todo # <<"clear">>
      BY DEF BarredGetsNowhere
    <2>1. Refused(h)
      BY BusyTypes
    <2>2. In("clear", <<"clear">>)
      BY DEF In
    <2> QED BY <2>1, <2>2 DEF Refused, In
  <1> QED BY <1>1, Inductive, PTL

-----------------------------------------------------------------------------
(* Invitations *)

(* The statements each operation runs.                                      *)
Path(op) == CASE op = "create"      -> {"lookup", "insert", "supersede"}
              [] op = "setup"       -> {"read", "expire", "claim", "createUser", "upsert",
                                        "deleteUser", "revert"}
              [] op = "accept"      -> {"read", "expire", "actor", "claim", "promote"}
              [] op = "adminCreate" -> {"createUser", "upsert", "mail", "deleteUser"}

(* A request is on its operation's path and has what its statement needs.   *)
WellFormed(r) ==
    /\ r.pc \in Path(r.op)
    /\ r.op \in {"setup", "accept"} \/ r.pc = "supersede" => r.invitation \in Invitation
    /\ r.op = "accept" \/ r.pc = "upsert" => r.account # 0

RequestsOK == \A h \in Handler : INV!Busy(h) => WellFormed(req[h])

(* Only invitations that were sent are held or redeemed, and the account    *)
(* has the role of a redeemed one, unless it was given elsewhere.           *)
KnownOnly ==
    /\ \A h \in Handler, i \in Invitation : INV!Holds(h, i) => INV!Sent(i)
    /\ \A i \in redeemed : INV!Sent(i)
    /\ account.role \in redeemed \cup {"OTHER"}

Safe == INV!OneHolder /\ INV!RedeemedOnce /\ INV!SupersededGrantsNothing /\ KnownOnly

RedemptionInv == INV!TypeOK /\ RequestsOK /\ Safe

-----------------------------------------------------------------------------
(* The initial state satisfies the inductive invariant. *)
LEMMA InitRedemptionInv == INV!Init => RedemptionInv
<1> SUFFICES ASSUME INV!Init PROVE RedemptionInv
  OBVIOUS
<1>1. INV!TypeOK
  BY MaxAccountsIsNatural DEF INV!Init, INV!TypeOK, INV!Row, INV!Account, INV!NoAccount
<1>2. RequestsOK /\ \A h \in Handler, i \in Invitation : ~INV!Holds(h, i)
  BY DEF INV!Init, RequestsOK, INV!Busy, INV!Idle, INV!Holds
<1>3. Safe
  BY <1>2 DEF INV!Init, Safe, INV!OneHolder, INV!RedeemedOnce, INV!SupersededGrantsNothing,
     KnownOnly, INV!NoAccount
<1> QED
  BY <1>1, <1>2, <1>3 DEF RedemptionInv

(* What most steps do to the safe part: nobody becomes a holder, a status   *)
(* stays or becomes a final one, the account keeps its role or loses it.    *)
Quiet ==
    /\ \A h \in Handler, i \in Invitation : INV!Holds(h, i)' => INV!Holds(h, i)
    /\ \A i \in Invitation : \/ invitation'[i].status = invitation[i].status
                             \/ invitation'[i].status \in {"REVOKED", "EXPIRED"}
    /\ account'.role \in {account.role, "OTHER"}
    /\ UNCHANGED <<superseded, redeemed>>

(* A quiet step keeps the safe part. *)
LEMMA QuietIsSafe ==
  ASSUME RedemptionInv, Quiet
  PROVE  Safe'
<1>1. \A i \in Invitation : INV!Sent(i) => INV!Sent(i)'
  BY DEF Quiet, INV!Sent
<1>2. superseded \subseteq Invitation /\ redeemed \subseteq Invitation
  BY DEF RedemptionInv, INV!TypeOK
<1>3. INV!OneHolder'
  BY DEF Quiet, RedemptionInv, Safe, INV!OneHolder
<1>4. INV!RedeemedOnce'
  BY <1>2 DEF Quiet, RedemptionInv, Safe, INV!RedeemedOnce
<1>5. INV!SupersededGrantsNothing'
  BY <1>2, NamesDiffer DEF Quiet, RedemptionInv, Safe, INV!SupersededGrantsNothing
<1>6. KnownOnly'
  BY <1>1, <1>2 DEF Quiet, RedemptionInv, Safe, KnownOnly
<1> QED
  BY <1>3, <1>4, <1>5, <1>6 DEF Safe

(* The request of a busy handler, and the others when only one of them moves. *)
LEMMA Busily ==
  ASSUME RedemptionInv, NEW h \in Handler, INV!Busy(h)
  PROVE  /\ req[h] \in INV!Request /\ WellFormed(req[h])
         /\ req[h].op \in {"setup", "accept"} \/ req[h].pc = "supersede"
               => req[h].invitation \in Invitation
  BY DEF RedemptionInv, INV!TypeOK, RequestsOK, WellFormed, INV!Busy

(* One request changes: the others hold what they held. *)
LEMMA InvitationMoves ==
  ASSUME RedemptionInv, NEW h \in Handler, NEW r, req' = [req EXCEPT ![h] = r],
         r = INV!Idle \/ (r \in INV!Request /\ WellFormed(r))
  PROVE  /\ req' \in [Handler -> INV!Request \cup {INV!Idle}] /\ RequestsOK'
         /\ \A g \in Handler, i \in Invitation : g # h => (INV!Holds(g, i)' <=> INV!Holds(g, i))
         /\ r = INV!Idle => \A i \in Invitation : ~INV!Holds(h, i)'
<1>1. req'[h] = r /\ \A g \in Handler : g # h => req'[g] = req[g]
  BY DEF RedemptionInv, INV!TypeOK
<1>2. req' \in [Handler -> INV!Request \cup {INV!Idle}]
  BY DEF RedemptionInv, INV!TypeOK
<1>3. RequestsOK'
  BY <1>1 DEF RedemptionInv, RequestsOK, INV!Busy
<1>4. \A g \in Handler, i \in Invitation : g # h => (INV!Holds(g, i)' <=> INV!Holds(g, i))
  BY <1>1 DEF INV!Holds
<1>5. r = INV!Idle => \A i \in Invitation : ~INV!Holds(h, i)'
  BY <1>1 DEF INV!Holds, INV!Idle
<1> QED
  BY <1>2, <1>3, <1>4, <1>5

(* A request that ends, or goes on without becoming a holder.               *)
LEMMA Ends ==
  ASSUME RedemptionInv, NEW h \in Handler, INV!Stop(h)
  PROVE  /\ req' \in [Handler -> INV!Request \cup {INV!Idle}] /\ RequestsOK'
         /\ \A g \in Handler, i \in Invitation :
               INV!Holds(g, i)' <=> g # h /\ INV!Holds(g, i)
  BY InvitationMoves DEF INV!Stop

(* A request that goes on to its next statement holds what the new one says. *)
LEMMA GoesOn ==
  ASSUME RedemptionInv, NEW h \in Handler, INV!Busy(h), NEW pc \in INV!Pc, INV!Goto(h, pc),
         pc \in Path(req[h].op), pc # "supersede", pc = "upsert" => req[h].account # 0
  PROVE  /\ req' \in [Handler -> INV!Request \cup {INV!Idle}] /\ RequestsOK'
         /\ \A g \in Handler, i \in Invitation : g # h => (INV!Holds(g, i)' <=> INV!Holds(g, i))
         /\ \A i \in Invitation : INV!Holds(h, i)' <=>
               /\ req[h].op \in {"setup", "accept"} /\ req[h].invitation = i
               /\ pc \in {"createUser", "upsert", "deleteUser", "revert", "promote"}
<1> DEFINE r == [req[h] EXCEPT !.pc = pc]
<1>1. req[h] \in INV!Request /\ WellFormed(req[h])
  BY Busily
<1>2. r \in INV!Request /\ r.pc = pc /\ r.op = req[h].op
      /\ r.invitation = req[h].invitation /\ r.account = req[h].account
  BY <1>1 DEF INV!Request
<1>3. req' = [req EXCEPT ![h] = r]
  BY DEF INV!Goto
<1>4. WellFormed(r)
  BY <1>1, <1>2 DEF WellFormed
<1>5. req'[h] = r
  BY <1>3 DEF RedemptionInv, INV!TypeOK
<1> HIDE DEF r
<1>6. \A i \in Invitation : INV!Holds(h, i)' <=>
               /\ req[h].op \in {"setup", "accept"} /\ req[h].invitation = i
               /\ pc \in {"createUser", "upsert", "deleteUser", "revert", "promote"}
  BY <1>2, <1>5 DEF INV!Holds
<1> QED
  BY <1>2, <1>3, <1>4, <1>6, InvitationMoves

-----------------------------------------------------------------------------
(* The quiet steps.                                                         *)
LEMMA InvitationArrives ==
  ASSUME RedemptionInv, NEW h \in Handler, INV!Arrive(h)
  PROVE  RedemptionInv'
<1>1. ASSUME NEW op \in {"create", "setup", "accept", "adminCreate"}, NEW pc \in INV!Pc,
             NEW i \in Invitation \cup {"none"}, NEW id \in 0 .. MaxAccounts,
             INV!Start(h, op, pc, i, id), pc \in Path(op), pc # "supersede",
             op \in {"setup", "accept"} => i \in Invitation, op = "accept" => id # 0,
             pc \in {"lookup", "read", "createUser"}, pc = "createUser" => op = "adminCreate"
      PROVE  RedemptionInv'
  <2> DEFINE r == [op |-> op, pc |-> pc, invitation |-> i, account |-> id]
  <2>1. req' = [req EXCEPT ![h] = r] /\ UNCHANGED INV!tables
    BY <1>1 DEF INV!Start, INV!tables
  <2>2. r \in INV!Request /\ WellFormed(r)
    BY <1>1 DEF INV!Request, WellFormed
  <2>3. req'[h] = r
    BY <2>1 DEF RedemptionInv, INV!TypeOK
  <2>4. \A j \in Invitation : ~INV!Holds(h, j)'
    BY <1>1, <2>3 DEF INV!Holds
  <2> HIDE DEF r
  <2>5. /\ req' \in [Handler -> INV!Request \cup {INV!Idle}] /\ RequestsOK'
        /\ \A g \in Handler, j \in Invitation : INV!Holds(g, j)' => INV!Holds(g, j)
    BY <2>1, <2>2, <2>4, InvitationMoves
  <2>6. INV!TypeOK'
    BY <2>1, <2>5 DEF RedemptionInv, INV!TypeOK, INV!tables, INV!Sent
  <2>7. Quiet
    BY <2>1, <2>5 DEF Quiet, INV!tables
  <2> QED
    BY <2>5, <2>6, <2>7, QuietIsSafe DEF RedemptionInv
<1>2. 0 \in 0 .. MaxAccounts /\ (INV!Registered => account.id \in 1 .. MaxAccounts)
  BY MaxAccountsIsNatural DEF RedemptionInv, INV!TypeOK, INV!Account, INV!Registered
<1>3. CASE INV!Start(h, "create", "lookup", "none", 0)
  BY <1>1, <1>2, <1>3 DEF INV!Pc, Path
<1>4. CASE \E i \in Invitation : INV!Sent(i) /\ INV!Start(h, "setup", "read", i, 0)
  BY <1>1, <1>2, <1>4 DEF INV!Pc, Path
<1>5. CASE \E i \in Invitation : INV!Sent(i) /\ INV!Registered /\ INV!Start(h, "accept", "read", i, account.id)
  <2>1. PICK i \in Invitation : INV!Registered /\ INV!Start(h, "accept", "read", i, account.id)
    BY <1>5
  <2>2. account.id \in 0 .. MaxAccounts /\ account.id # 0
    BY <1>2, <2>1, MaxAccountsIsNatural
  <2> QED
    BY <1>1, <2>1, <2>2 DEF INV!Pc, Path
<1>6. CASE INV!Start(h, "adminCreate", "createUser", "none", 0)
  BY <1>1, <1>2, <1>6 DEF INV!Pc, Path
<1> QED
  BY <1>3, <1>4, <1>5, <1>6 DEF INV!Arrive

(* Steps that leave the tables alone and make nobody a holder.              *)
LEMMA InvitationReads ==
  ASSUME RedemptionInv, NEW h \in Handler, UNCHANGED INV!tables,
         \/ INV!Stop(h)
         \/ \E pc \in INV!Pc : /\ INV!Busy(h) /\ INV!Goto(h, pc) /\ pc \in Path(req[h].op)
                               /\ pc \notin {"supersede", "upsert", "createUser", "promote"}
                               /\ pc \in {"deleteUser", "revert"} =>
                                     \A i \in Invitation : req[h].op \in {"setup", "accept"}
                                        /\ req[h].invitation = i => INV!Holds(h, i)
  PROVE  RedemptionInv'
<1>1. /\ req' \in [Handler -> INV!Request \cup {INV!Idle}] /\ RequestsOK'
      /\ \A g \in Handler, i \in Invitation : INV!Holds(g, i)' => INV!Holds(g, i)
  <2>1. CASE INV!Stop(h)
    BY <2>1, Ends
  <2>2. CASE ~INV!Stop(h)
    <3>1. PICK pc \in INV!Pc : /\ INV!Busy(h) /\ INV!Goto(h, pc) /\ pc \in Path(req[h].op)
                               /\ pc \notin {"supersede", "upsert", "createUser", "promote"}
                               /\ pc \in {"deleteUser", "revert"} =>
                                     \A i \in Invitation : req[h].op \in {"setup", "accept"}
                                        /\ req[h].invitation = i => INV!Holds(h, i)
      BY <2>2
    <3> QED
      BY <3>1, GoesOn
  <2> QED
    BY <2>1, <2>2
<1>2. INV!TypeOK'
  BY <1>1 DEF RedemptionInv, INV!TypeOK, INV!tables, INV!Sent
<1>3. Quiet
  BY <1>1 DEF Quiet, INV!tables
<1> QED
  BY <1>1, <1>2, <1>3, QuietIsSafe DEF RedemptionInv

(* The reading statements. *)
LEMMA InvitationsRead ==
  ASSUME RedemptionInv, NEW h \in Handler,
         \/ INV!Lookup(h) \/ INV!Read(h) \/ INV!Actor(h) \/ INV!CreateUserFails(h) \/ INV!UpsertFails(h)
         \/ INV!Mail(h) \/ INV!Fail(h)
  PROVE  RedemptionInv'
<1>0. INV!Busy(h)
  BY DEF INV!Lookup, INV!Read, INV!Actor, INV!CreateUserFails, INV!UpsertFails, INV!Mail,
     INV!Fail, INV!At
<1>1. WellFormed(req[h]) /\ req[h].op \in {"create", "setup", "accept", "adminCreate"}
  BY <1>0, Busily DEF INV!Request
<1>2. CASE INV!Lookup(h)
  BY <1>0, <1>1, <1>2, InvitationReads DEF INV!Lookup, INV!At, INV!Pc, Path, WellFormed
<1>3. CASE INV!Read(h)
  BY <1>0, <1>1, <1>3, InvitationReads DEF INV!Read, INV!At, INV!Pc, Path, WellFormed
<1>4. CASE INV!Actor(h)
  BY <1>0, <1>1, <1>4, InvitationReads DEF INV!Actor, INV!At, INV!Pc, Path, WellFormed
<1>5. CASE INV!CreateUserFails(h)
  BY <1>0, <1>1, <1>5, InvitationReads DEF INV!CreateUserFails, INV!At, INV!Pc, Path,
     WellFormed, INV!Holds
<1>6. CASE INV!UpsertFails(h)
  BY <1>0, <1>1, <1>6, InvitationReads DEF INV!UpsertFails, INV!At, INV!Pc, Path, WellFormed,
     INV!Holds
<1>7. CASE INV!Mail(h)
  BY <1>0, <1>1, <1>7, InvitationReads DEF INV!Mail, INV!At, INV!Pc, Path, WellFormed, INV!Holds
<1>8. CASE INV!Fail(h)
  BY <1>8, InvitationReads DEF INV!Fail
<1> QED
  BY <1>2, <1>3, <1>4, <1>5, <1>6, <1>7, <1>8

(* A status written to a row that exists keeps the tables typed.            *)
LEMMA StatusTyped ==
  ASSUME RedemptionInv, NEW i \in Invitation, NEW status \in INV!InvitationStatus, INV!SetStatus(i, status)
  PROVE  /\ invitation' \in [Invitation -> INV!Row]
         /\ \A j \in Invitation :
               invitation'[j].status = IF j = i THEN status ELSE invitation[j].status
         /\ \A j \in Invitation : INV!Sent(j) \/ j = i => INV!Sent(j)'
  BY DEF RedemptionInv, INV!TypeOK, INV!SetStatus, INV!Row, INV!InvitationStatus, INV!Sent

(* The EXPIRED update, on whatever the row says by then. *)
LEMMA ExpireStep ==
  ASSUME RedemptionInv, NEW h \in Handler, INV!Expire(h)
  PROVE  RedemptionInv'
<1>1. INV!Busy(h) /\ INV!Stop(h) /\ UNCHANGED <<account, created, freshest, superseded, redeemed>>
  BY DEF INV!Expire, INV!At
<1>2. PICK i \in Invitation : i = req[h].invitation
  BY <1>1, Busily DEF INV!Expire, INV!At, WellFormed, Path, INV!Request
<1>3. INV!SetStatus(i, "EXPIRED") /\ "EXPIRED" \in INV!InvitationStatus
  BY <1>2 DEF INV!Expire, INV!InvitationStatus
<1>4. /\ req' \in [Handler -> INV!Request \cup {INV!Idle}] /\ RequestsOK'
      /\ \A g \in Handler, j \in Invitation : INV!Holds(g, j)' => INV!Holds(g, j)
  BY <1>1, Ends
<1>5. INV!TypeOK'
  BY <1>1, <1>3, <1>4, StatusTyped DEF RedemptionInv, INV!TypeOK
<1>6. Quiet
  BY <1>1, <1>3, <1>4, StatusTyped DEF Quiet
<1> QED
  BY <1>4, <1>5, <1>6, QuietIsSafe DEF RedemptionInv

(* Revocation, the passing of time, and the deletion of the account. *)
LEMMA OutsideStep ==
  ASSUME RedemptionInv, \/ \E i \in Invitation : INV!Revoke(i) \/ INV!Elapse(i)
               \/ INV!DeleteAccount
               \/ UNCHANGED INV!vars
  PROVE  RedemptionInv'
<1>1. UNCHANGED <<created, freshest, superseded, redeemed, req>>
  BY DEF INV!Revoke, INV!Elapse, INV!DeleteAccount, INV!vars
<1> DEFINE RowsKept ==
      /\ invitation' \in [Invitation -> INV!Row]
      /\ \A j \in Invitation :
            /\ \/ invitation'[j].status = invitation[j].status
               \/ invitation'[j].status \in {"REVOKED", "EXPIRED"}
            /\ INV!Sent(j) => INV!Sent(j)'
<1>2. RowsKept
  <2>1. ASSUME NEW i \in Invitation, INV!Revoke(i) PROVE RowsKept
    BY <2>1, StatusTyped DEF INV!Revoke, INV!InvitationStatus
  <2>2. ASSUME NEW i \in Invitation, INV!Elapse(i) PROVE RowsKept
    BY <2>2 DEF INV!Elapse, RedemptionInv, INV!TypeOK, INV!Row, INV!Sent
  <2>3. CASE UNCHANGED invitation
    BY <2>3 DEF RedemptionInv, INV!TypeOK, INV!Sent
  <2> QED
    BY <2>1, <2>2, <2>3 DEF INV!DeleteAccount, INV!vars
<1>3. account' \in INV!Account /\ account'.role \in {account.role, "OTHER"}
  BY DEF INV!Revoke, INV!Elapse, INV!DeleteAccount, INV!vars, RedemptionInv, INV!TypeOK,
     INV!Account, INV!NoAccount
<1>4. RequestsOK' /\ \A g \in Handler, j \in Invitation : INV!Holds(g, j)' => INV!Holds(g, j)
  BY <1>1 DEF RedemptionInv, RequestsOK, INV!Busy, INV!Holds
<1>5. INV!TypeOK'
  BY <1>1, <1>2, <1>3 DEF RedemptionInv, INV!TypeOK
<1>6. Quiet
  BY <1>1, <1>2, <1>3, <1>4 DEF Quiet
<1> QED
  BY <1>4, <1>5, <1>6, QuietIsSafe DEF RedemptionInv

-----------------------------------------------------------------------------
(* The steps of a rollback and of an account's creation.                    *)
LEMMA UpsertRequest ==
  ASSUME NEW q \in INV!Request, NEW id \in 0 .. MaxAccounts
  PROVE  LET r == [q EXCEPT !.pc = "upsert", !.account = id]
         IN  /\ r \in INV!Request /\ r.pc = "upsert" /\ r.op = q.op
             /\ r.invitation = q.invitation /\ r.account = id
<1> DEFINE r == [q EXCEPT !.pc = "upsert", !.account = id]
<1>1. "upsert" \in INV!Pc
  BY DEF INV!Pc
<1>2. r \in INV!Request
  BY <1>1 DEF INV!Request
<1>3. r.pc = "upsert" /\ r.op = q.op /\ r.invitation = q.invitation /\ r.account = id
  BY DEF INV!Request
<1> QED
  BY <1>2, <1>3

(* createUser makes an account or finds the one there is. *)
LEMMA CreateUserStep ==
  ASSUME RedemptionInv, NEW h \in Handler, INV!CreateUser(h)
  PROVE  RedemptionInv'
<1>1. /\ INV!Busy(h) /\ req[h].pc = "createUser" /\ req[h] \in INV!Request /\ WellFormed(req[h])
      /\ UNCHANGED <<invitation, freshest, superseded, redeemed>>
  BY Busily DEF INV!CreateUser, INV!At
<1>2. /\ account' \in INV!Account /\ created' \in 0 .. MaxAccounts
      /\ account'.id \in 1 .. MaxAccounts /\ account'.role \in {account.role, "OTHER"}
  <2>1. CASE INV!Registered
    BY <2>1 DEF INV!CreateUser, INV!Registered, RedemptionInv, INV!TypeOK, INV!Account
  <2>2. CASE ~INV!Registered
    <3>1. created' \in 1 .. MaxAccounts /\ account' = [id |-> created', role |-> "OTHER"]
      BY <2>2, MaxAccountsIsNatural DEF INV!CreateUser, RedemptionInv, INV!TypeOK
    <3> QED
      BY <3>1 DEF INV!Account, INV!Roles
  <2> QED
    BY <2>1, <2>2
<1>0. PICK id \in 1 .. MaxAccounts : id = account'.id
  BY <1>2
<1> DEFINE r == [req[h] EXCEPT !.pc = "upsert", !.account = id]
<1>3. /\ r \in INV!Request /\ r.pc = "upsert" /\ r.op = req[h].op
      /\ r.invitation = req[h].invitation /\ r.account \in 1 .. MaxAccounts
  <2>1. id \in 0 .. MaxAccounts
    BY MaxAccountsIsNatural
  <2> QED
    BY <1>1, <2>1, UpsertRequest
<1>4. WellFormed(r)
  BY <1>1, <1>3, MaxAccountsIsNatural DEF WellFormed, Path, INV!Request
<1>5. req' = [req EXCEPT ![h] = r]
  BY <1>0 DEF INV!CreateUser, RedemptionInv, INV!TypeOK
<1>6. req'[h] = r
  BY <1>5 DEF RedemptionInv, INV!TypeOK
<1> HIDE DEF r
<1>7. \A i \in Invitation : INV!Holds(h, i)' => INV!Holds(h, i)
  BY <1>1, <1>3, <1>6 DEF INV!Holds
<1>8. /\ req' \in [Handler -> INV!Request \cup {INV!Idle}] /\ RequestsOK'
      /\ \A g \in Handler, i \in Invitation : INV!Holds(g, i)' => INV!Holds(g, i)
  BY <1>3, <1>4, <1>5, <1>7, InvitationMoves
<1>9. INV!TypeOK'
  BY <1>1, <1>2, <1>8 DEF RedemptionInv, INV!TypeOK, INV!Sent
<1>10. Quiet
  BY <1>1, <1>2, <1>8 DEF Quiet
<1> QED
  BY <1>8, <1>9, <1>10, QuietIsSafe DEF RedemptionInv

(* The rollback of the account. *)
LEMMA DeleteUserStep ==
  ASSUME RedemptionInv, NEW h \in Handler, INV!DeleteUser(h)
  PROVE  RedemptionInv'
<1>1. /\ INV!Busy(h) /\ req[h].pc = "deleteUser" /\ WellFormed(req[h]) /\ req[h] \in INV!Request
      /\ UNCHANGED <<invitation, created, freshest, superseded, redeemed>>
      /\ INV!Stop(h) \/ (req[h].op = "setup" /\ INV!Goto(h, "revert"))
  BY Busily DEF INV!DeleteUser, INV!At
<1>2. account' \in INV!Account /\ account'.role \in {account.role, "OTHER"}
  BY DEF INV!DeleteUser, RedemptionInv, INV!TypeOK, INV!Account, INV!NoAccount
<1>3. /\ req' \in [Handler -> INV!Request \cup {INV!Idle}] /\ RequestsOK'
      /\ \A g \in Handler, i \in Invitation : INV!Holds(g, i)' => INV!Holds(g, i)
  <2>1. CASE INV!Stop(h)
    BY <2>1, Ends
  <2>2. CASE req[h].op = "setup" /\ INV!Goto(h, "revert")
    BY <1>1, <2>2, GoesOn DEF INV!Holds, INV!Pc, Path
  <2> QED
    BY <1>1, <2>1, <2>2
<1>4. INV!TypeOK'
  BY <1>1, <1>2, <1>3 DEF RedemptionInv, INV!TypeOK, INV!Sent
<1>5. Quiet
  BY <1>1, <1>2, <1>3 DEF Quiet
<1> QED
  BY <1>3, <1>4, <1>5, QuietIsSafe DEF RedemptionInv

(* Giving a claim back: the request was the only holder, the invitation was *)
(* neither redeemed nor superseded, so PENDING is right again.              *)
LEMMA RevertStep ==
  ASSUME RedemptionInv, NEW h \in Handler, INV!Revert(h)
  PROVE  RedemptionInv'
<1>1. /\ INV!Busy(h) /\ req[h].pc = "revert" /\ INV!Stop(h)
      /\ UNCHANGED <<account, created, freshest, superseded, redeemed>>
  BY DEF INV!Revert, INV!At
<1>2. PICK i \in Invitation : i = req[h].invitation /\ INV!Holds(h, i)
  BY <1>1, Busily DEF WellFormed, Path, INV!Request, INV!Holds
<1>3. INV!SetStatus(i, "PENDING") /\ "PENDING" \in INV!InvitationStatus
  BY <1>2 DEF INV!Revert, INV!InvitationStatus
<1>4. /\ req' \in [Handler -> INV!Request \cup {INV!Idle}] /\ RequestsOK'
      /\ \A g \in Handler, j \in Invitation : INV!Holds(g, j)' <=> g # h /\ INV!Holds(g, j)
  BY <1>1, Ends
<1>5. INV!TypeOK'
  BY <1>1, <1>3, <1>4, StatusTyped DEF RedemptionInv, INV!TypeOK
<1>6. i \notin redeemed /\ i \notin superseded
  BY <1>2 DEF RedemptionInv, Safe, INV!RedeemedOnce, INV!SupersededGrantsNothing
<1>7. superseded \subseteq Invitation /\ redeemed \subseteq Invitation
  BY DEF RedemptionInv, INV!TypeOK
<1>8. /\ \A j \in Invitation :
            invitation'[j].status = IF j = i THEN "PENDING" ELSE invitation[j].status
      /\ \A j \in Invitation : INV!Sent(j) => INV!Sent(j)'
  BY <1>3, StatusTyped
<1>9. INV!OneHolder'
  BY <1>2, <1>4, <1>8 DEF RedemptionInv, Safe, INV!OneHolder
<1>10. INV!RedeemedOnce'
  BY <1>1, <1>4, <1>6, <1>7, <1>8 DEF RedemptionInv, Safe, INV!RedeemedOnce
<1>11. INV!SupersededGrantsNothing'
  BY <1>1, <1>4, <1>6, <1>7, <1>8 DEF RedemptionInv, Safe, INV!SupersededGrantsNothing
<1>12. KnownOnly'
  BY <1>1, <1>4, <1>7, <1>8 DEF RedemptionInv, Safe, KnownOnly
<1> QED
  BY <1>4, <1>5, <1>9, <1>10, <1>11, <1>12 DEF RedemptionInv, Safe

-----------------------------------------------------------------------------
(* The steps that make or redeem a claim, and those of createInvitation.    *)
LEMMA ClaimStep ==
  ASSUME RedemptionInv, NEW h \in Handler, INV!Claim(h)
  PROVE  RedemptionInv'
<1>1. /\ INV!Busy(h) /\ req[h].pc = "claim" /\ WellFormed(req[h]) /\ req[h] \in INV!Request
      /\ UNCHANGED <<account, created, freshest, superseded, redeemed>>
  BY Busily DEF INV!Claim, INV!At
<1>2. PICK i \in Invitation : i = req[h].invitation /\ req[h].op \in {"setup", "accept"}
  BY <1>1 DEF WellFormed, Path, INV!Request
<1>3. CASE invitation[i].status # "PENDING"
  BY <1>1, <1>2, <1>3, InvitationReads DEF INV!Claim, INV!tables
<1>4. CASE invitation[i].status = "PENDING"
  <2> DEFINE pc == IF req[h].op = "setup" THEN "createUser" ELSE "promote"
  <2>1. INV!SetStatus(i, "ACCEPTED") /\ "ACCEPTED" \in INV!InvitationStatus /\ INV!Goto(h, pc)
    BY <1>2, <1>4 DEF INV!Claim, INV!InvitationStatus
  <2>2. pc \in INV!Pc /\ pc \in Path(req[h].op) /\ pc # "supersede" /\ pc # "upsert"
    BY <1>2 DEF INV!Pc, Path
  <2> HIDE DEF pc
  <2>3. /\ req' \in [Handler -> INV!Request \cup {INV!Idle}] /\ RequestsOK'
        /\ \A g \in Handler, j \in Invitation : g # h => (INV!Holds(g, j)' <=> INV!Holds(g, j))
        /\ \A j \in Invitation : INV!Holds(h, j)' => j = i
    BY <1>1, <1>2, <2>1, <2>2, GoesOn
  <2>4. INV!TypeOK'
    BY <1>1, <2>1, <2>3, StatusTyped DEF RedemptionInv, INV!TypeOK
  <2>5. /\ i \notin redeemed /\ i \notin superseded
        /\ \A g \in Handler : ~INV!Holds(g, i)
    BY <1>4 DEF RedemptionInv, Safe, INV!OneHolder, INV!RedeemedOnce,
       INV!SupersededGrantsNothing
  <2>6. superseded \subseteq Invitation /\ redeemed \subseteq Invitation
    BY DEF RedemptionInv, INV!TypeOK
  <2>7. /\ \A j \in Invitation :
              invitation'[j].status = IF j = i THEN "ACCEPTED" ELSE invitation[j].status
        /\ \A j \in Invitation : INV!Sent(j) \/ j = i => INV!Sent(j)'
    BY <2>1, StatusTyped
  <2>8. INV!OneHolder'
    BY <2>3, <2>5, <2>7 DEF RedemptionInv, Safe, INV!OneHolder
  <2>9. INV!RedeemedOnce'
    BY <1>1, <2>3, <2>5, <2>6, <2>7 DEF RedemptionInv, Safe, INV!RedeemedOnce
  <2>10. INV!SupersededGrantsNothing'
    BY <1>1, <2>3, <2>5, <2>6, <2>7 DEF RedemptionInv, Safe, INV!SupersededGrantsNothing
  <2>11. KnownOnly'
    BY <1>1, <2>3, <2>6, <2>7 DEF RedemptionInv, Safe, KnownOnly
  <2> QED
    BY <2>3, <2>4, <2>8, <2>9, <2>10, <2>11 DEF RedemptionInv, Safe
<1> QED
  BY <1>3, <1>4

(* The role of the held invitation i is written and the request is done.    *)
LEMMA RedeemStep ==
  ASSUME RedemptionInv, NEW h \in Handler, NEW i \in Invitation, INV!Holds(h, i), INV!Stop(h),
         UNCHANGED <<invitation, created, freshest, superseded>>,
         account' \in INV!Account, account'.role \in {account.role, i, "OTHER"},
         redeemed' = redeemed \cup {i}
  PROVE  RedemptionInv'
<1>1. /\ req' \in [Handler -> INV!Request \cup {INV!Idle}] /\ RequestsOK'
      /\ \A g \in Handler, j \in Invitation : INV!Holds(g, j)' <=> g # h /\ INV!Holds(g, j)
  BY Ends
<1>2. superseded \subseteq Invitation /\ redeemed \subseteq Invitation
  BY DEF RedemptionInv, INV!TypeOK
<1>3. /\ i \notin superseded /\ invitation[i].status # "PENDING" /\ INV!Sent(i)
      /\ \A g \in Handler : INV!Holds(g, i) => g = h
  BY DEF RedemptionInv, Safe, INV!OneHolder, INV!SupersededGrantsNothing, KnownOnly
<1>4. INV!TypeOK'
  BY <1>1 DEF RedemptionInv, INV!TypeOK, INV!Sent
<1>5. INV!OneHolder'
  BY <1>1 DEF RedemptionInv, Safe, INV!OneHolder
<1>6. INV!RedeemedOnce'
  BY <1>1, <1>2, <1>3 DEF RedemptionInv, Safe, INV!RedeemedOnce
<1>7. INV!SupersededGrantsNothing'
  BY <1>1, <1>2, <1>3, NamesDiffer DEF RedemptionInv, Safe, INV!SupersededGrantsNothing
<1>8. KnownOnly'
  BY <1>1, <1>2, <1>3 DEF RedemptionInv, Safe, KnownOnly, INV!Sent
<1> QED
  BY <1>1, <1>4, <1>5, <1>6, <1>7, <1>8 DEF RedemptionInv, Safe

(* acceptInvitation writes the role. *)
LEMMA PromoteStep ==
  ASSUME RedemptionInv, NEW h \in Handler, INV!Promote(h)
  PROVE  RedemptionInv'
<1>1. INV!Busy(h) /\ req[h].pc = "promote" /\ WellFormed(req[h]) /\ req[h] \in INV!Request
  BY Busily DEF INV!Promote, INV!At
<1>2. PICK i \in Invitation : i = req[h].invitation /\ INV!Holds(h, i)
  BY <1>1 DEF WellFormed, Path, INV!Request, INV!Holds
<1>3. req[h].account # 0
  BY <1>1 DEF WellFormed, Path, INV!Request
<1>4. account' \in INV!Account /\ account'.role \in {account.role, i}
  <2>1. CASE account.id = req[h].account
    BY <1>2, <1>3, <2>1 DEF INV!Promote, RedemptionInv, INV!TypeOK, INV!Account,
       INV!NoAccount, INV!Roles
  <2>2. CASE account.id # req[h].account
    BY <2>2 DEF INV!Promote, RedemptionInv, INV!TypeOK
  <2> QED
    BY <2>1, <2>2
<1> QED
  BY <1>2, <1>4, RedeemStep DEF INV!Promote

(* setup and adminCreateUser write the role. *)
LEMMA UpsertStep ==
  ASSUME RedemptionInv, NEW h \in Handler, INV!Upsert(h)
  PROVE  RedemptionInv'
<1>1. INV!Busy(h) /\ req[h].pc = "upsert" /\ WellFormed(req[h]) /\ req[h] \in INV!Request
  BY Busily DEF INV!Upsert, INV!At
<1>2. req[h].account \in 1 .. MaxAccounts
  BY <1>1, MaxAccountsIsNatural DEF WellFormed, INV!Request
<1>3. CASE req[h].op = "setup"
  <2>1. PICK i \in Invitation : i = req[h].invitation /\ INV!Holds(h, i)
    BY <1>1, <1>3 DEF WellFormed, Path, INV!Request, INV!Holds
  <2>2. account' = [id |-> req[h].account, role |-> i] /\ redeemed' = redeemed \cup {i}
    BY <1>3, <2>1 DEF INV!Upsert
  <2>3. account' \in INV!Account
    BY <1>2, <2>2 DEF INV!Account, INV!Roles
  <2> QED
    BY <1>3, <2>1, <2>2, <2>3, RedeemStep DEF INV!Upsert
<1>4. CASE req[h].op # "setup"
  <2>1. /\ INV!Goto(h, "mail") /\ UNCHANGED <<invitation, created, freshest, superseded, redeemed>>
        /\ account' = [id |-> req[h].account, role |-> "OTHER"]
    BY <1>4 DEF INV!Upsert
  <2>2. account' \in INV!Account
    BY <1>2, <2>1 DEF INV!Account, INV!Roles
  <2>3. req[h].op = "adminCreate"
    BY <1>1, <1>4 DEF WellFormed, Path, INV!Request
  <2>4. /\ req' \in [Handler -> INV!Request \cup {INV!Idle}] /\ RequestsOK'
        /\ \A g \in Handler, i \in Invitation : INV!Holds(g, i)' => INV!Holds(g, i)
    BY <1>1, <2>1, <2>3, GoesOn DEF INV!Pc, Path
  <2>5. INV!TypeOK'
    BY <2>1, <2>2, <2>4 DEF RedemptionInv, INV!TypeOK, INV!Sent
  <2>6. Quiet
    BY <2>1, <2>4 DEF Quiet
  <2> QED
    BY <2>4, <2>5, <2>6, QuietIsSafe DEF RedemptionInv
<1> QED
  BY <1>3, <1>4

(* createInvitation inserts its row. *)
LEMMA InsertStep ==
  ASSUME RedemptionInv, NEW h \in Handler, INV!Insert(h)
  PROVE  RedemptionInv'
<1>1. /\ INV!Busy(h) /\ req[h].pc = "insert" /\ WellFormed(req[h]) /\ req[h] \in INV!Request
      /\ UNCHANGED <<account, created, superseded, redeemed>>
  BY Busily DEF INV!Insert, INV!At
<1>2. PICK i \in Invitation :
          /\ ~INV!Sent(i) /\ INV!SetStatus(i, "PENDING") /\ freshest' = i
          /\ req' = [req EXCEPT ![h].pc = "supersede", ![h].invitation = i]
  BY DEF INV!Insert
<1> DEFINE r == [req[h] EXCEPT !.pc = "supersede", !.invitation = i]
<1>3. /\ r \in INV!Request /\ r.pc = "supersede" /\ r.op = req[h].op /\ r.invitation = i
      /\ r.account = req[h].account
  BY <1>1 DEF INV!Request, INV!Pc
<1>4. WellFormed(r) /\ r.op = "create"
  BY <1>1, <1>3 DEF WellFormed, Path, INV!Request
<1>5. req' = [req EXCEPT ![h] = r]
  BY <1>2 DEF RedemptionInv, INV!TypeOK
<1>6. req'[h] = r
  BY <1>5 DEF RedemptionInv, INV!TypeOK
<1> HIDE DEF r
<1>7. \A j \in Invitation : ~INV!Holds(h, j)'
  BY <1>4, <1>6 DEF INV!Holds
<1>8. /\ req' \in [Handler -> INV!Request \cup {INV!Idle}] /\ RequestsOK'
      /\ \A g \in Handler, j \in Invitation : INV!Holds(g, j)' => INV!Holds(g, j)
  BY <1>3, <1>4, <1>5, <1>7, InvitationMoves
<1>9. /\ invitation' \in [Invitation -> INV!Row]
      /\ \A j \in Invitation :
            invitation'[j].status = IF j = i THEN "PENDING" ELSE invitation[j].status
      /\ \A j \in Invitation : INV!Sent(j) \/ j = i => INV!Sent(j)'
  BY <1>2, StatusTyped DEF INV!InvitationStatus
<1>10. INV!TypeOK'
  BY <1>1, <1>2, <1>8, <1>9 DEF RedemptionInv, INV!TypeOK
<1>11. /\ i \notin redeemed /\ i \notin superseded
       /\ \A g \in Handler : ~INV!Holds(g, i)
  BY <1>2 DEF RedemptionInv, Safe, KnownOnly, INV!SupersededGrantsNothing, INV!Sent
<1>12. superseded \subseteq Invitation /\ redeemed \subseteq Invitation
  BY DEF RedemptionInv, INV!TypeOK
<1>13. INV!OneHolder'
  BY <1>8, <1>9, <1>11 DEF RedemptionInv, Safe, INV!OneHolder
<1>14. INV!RedeemedOnce'
  BY <1>1, <1>8, <1>9, <1>11, <1>12 DEF RedemptionInv, Safe, INV!RedeemedOnce
<1>15. INV!SupersededGrantsNothing'
  BY <1>1, <1>8, <1>9, <1>11, <1>12 DEF RedemptionInv, Safe, INV!SupersededGrantsNothing
<1>16. KnownOnly'
  BY <1>1, <1>8, <1>9, <1>12 DEF RedemptionInv, Safe, KnownOnly
<1> QED
  BY <1>8, <1>10, <1>13, <1>14, <1>15, <1>16 DEF RedemptionInv, Safe

(* Only PENDING invitations are superseded: nobody holds them, they are not *)
(* redeemed, so the account does not have their role.                       *)
LEMMA SupersedeStep ==
  ASSUME RedemptionInv, NEW h \in Handler, INV!Supersede(h)
  PROVE  RedemptionInv'
<1> DEFINE others ==
      {i \in Invitation \ {req[h].invitation} : invitation[i].status = "PENDING"}
<1>1. /\ INV!Stop(h) /\ UNCHANGED <<account, created, freshest, redeemed>>
      /\ superseded' = superseded \cup others
      /\ invitation' = [i \in Invitation |->
            IF i \in others THEN [invitation[i] EXCEPT !.status = "REVOKED"]
            ELSE invitation[i]]
  BY DEF INV!Supersede
<1>2. /\ req' \in [Handler -> INV!Request \cup {INV!Idle}] /\ RequestsOK'
      /\ \A g \in Handler, j \in Invitation : INV!Holds(g, j)' => INV!Holds(g, j)
  BY <1>1, Ends
<1>3. \A i \in others :
          /\ i \in Invitation /\ i \notin redeemed /\ i # account.role
          /\ \A g \in Handler : ~INV!Holds(g, i)
  BY NamesDiffer DEF RedemptionInv, Safe, INV!OneHolder, INV!RedeemedOnce, KnownOnly
<1>4. /\ invitation' \in [Invitation -> INV!Row]
      /\ \A i \in Invitation :
            invitation'[i].status = IF i \in others THEN "REVOKED" ELSE invitation[i].status
  BY <1>1 DEF RedemptionInv, INV!TypeOK, INV!Row, INV!InvitationStatus
<1>5. superseded \subseteq Invitation /\ redeemed \subseteq Invitation
  BY DEF RedemptionInv, INV!TypeOK
<1> HIDE DEF others
<1>6. \A i \in Invitation : INV!Sent(i) => INV!Sent(i)'
  BY <1>4 DEF INV!Sent
<1>7. INV!TypeOK'
  BY <1>1, <1>2, <1>3, <1>4, <1>6 DEF RedemptionInv, INV!TypeOK
<1>8. INV!OneHolder'
  BY <1>2, <1>4 DEF RedemptionInv, Safe, INV!OneHolder
<1>9. INV!RedeemedOnce'
  BY <1>1, <1>2, <1>4, <1>5 DEF RedemptionInv, Safe, INV!RedeemedOnce
<1>10. INV!SupersededGrantsNothing'
  BY <1>1, <1>2, <1>3, <1>4, <1>5 DEF RedemptionInv, Safe, INV!SupersededGrantsNothing
<1>11. KnownOnly'
  BY <1>1, <1>2, <1>5, <1>6 DEF RedemptionInv, Safe, KnownOnly
<1> QED
  BY <1>2, <1>7, <1>8, <1>9, <1>10, <1>11 DEF RedemptionInv, Safe

-----------------------------------------------------------------------------
(* Every step keeps the inductive invariant. *)
LEMMA NextRedemptionInv == RedemptionInv /\ [INV!Next]_INV!vars => RedemptionInv'
<1> SUFFICES ASSUME RedemptionInv, [INV!Next]_INV!vars PROVE RedemptionInv'
  OBVIOUS
<1>1. ASSUME NEW h \in Handler, INV!Arrive(h) PROVE RedemptionInv'
  BY <1>1, InvitationArrives
<1>2. ASSUME NEW h \in Handler, INV!Step(h) PROVE RedemptionInv'
  BY <1>2, InvitationsRead, ExpireStep, CreateUserStep, DeleteUserStep, RevertStep, ClaimStep,
     PromoteStep, UpsertStep, InsertStep, SupersedeStep DEF INV!Step
<1>3. ASSUME NEW h \in Handler, INV!Fail(h) PROVE RedemptionInv'
  BY <1>3, InvitationsRead
<1>4. CASE (\E i \in Invitation : INV!Revoke(i) \/ INV!Elapse(i)) \/ INV!DeleteAccount \/ UNCHANGED INV!vars
  BY <1>4, OutsideStep
<1> QED
  BY <1>1, <1>2, <1>3, <1>4 DEF INV!Next

(* The inductive invariant: the properties, together with what a request    *)
(* still in flight may rely on.                                             *)
THEOREM RedemptionInvariant == INV!Spec => []RedemptionInv
<1> QED
  BY InitRedemptionInv, NextRedemptionInv, PTL DEF INV!Spec

(* Every row, request and history variable keeps its type.                  *)
THEOREM InvitationTypes == INV!Spec => []INV!TypeOK
<1>1. RedemptionInv => INV!TypeOK
  BY DEF RedemptionInv
<1> QED
  BY RedemptionInvariant, <1>1, PTL

(* No two requests ever hold a claim on the same invitation, and no claimed *)
(* invitation is PENDING, for any number of setups, accepts and revokes.    *)
THEOREM ClaimsAreExclusive == INV!Spec => []OneHolder
<1>1. RedemptionInv => OneHolder
  BY DEF RedemptionInv, Safe, INV!OneHolder, OneHolder, INV!Holds, Holds
<1> QED
  BY RedemptionInvariant, <1>1, PTL

(* No invitation is redeemed twice, although failed setups reopen theirs.   *)
THEOREM RedemptionIsFinal == INV!Spec => []RedeemedOnce
<1>1. RedemptionInv => RedeemedOnce
  BY DEF RedemptionInv, Safe, INV!RedeemedOnce, RedeemedOnce, INV!Holds, Holds
<1> QED
  BY RedemptionInvariant, <1>1, PTL

(* No interleaving of rollbacks and revocations revives a superseded link.  *)
THEOREM SupersededIsDead == INV!Spec => []SupersededGrantsNothing
<1>1. RedemptionInv => SupersededGrantsNothing
  BY DEF RedemptionInv, Safe, INV!SupersededGrantsNothing, SupersededGrantsNothing, INV!Holds,
     Holds
<1> QED
  BY RedemptionInvariant, <1>1, PTL

-----------------------------------------------------------------------------
(* SuperAdmins *)

(* The instance counts as this module does.                                 *)
LEMMA SameCardinality == \A S : SA!Cardinality(S) = Cardinality(S)
  BY DEF SA!Cardinality, Cardinality

(* A request that calls its target the only super admin is right about it.  *)
SoleIsTrue ==
    \A c \in Change : SA!UnderWay(c) /\ changes[c].sole => SA!SuperAdmins(users) = {changes[c].target}

SoleInv == SA!TypeOK /\ SoleIsTrue /\ SA!SoleIsSafe

-----------------------------------------------------------------------------
(* The initial state satisfies the inductive invariant. *)
LEMMA InitSoleInv == SA!Init => SoleInv
<1> SUFFICES ASSUME SA!Init PROVE SoleInv
  OBVIOUS
<1>1. SA!TypeOK
  BY DEF SA!Init, SA!TypeOK, SA!User
<1>2. SoleIsTrue /\ SA!SoleIsSafe
  BY DEF SA!Init, SoleIsTrue, SA!SoleIsSafe, SA!UnderWay
<1> QED
  BY <1>1, <1>2 DEF SoleInv

(* A step of one request that leaves the table alone: the request it makes  *)
(* must itself be right, the others still are.                              *)
LEMMA ChangeStep ==
  ASSUME SoleInv, NEW c \in Change, NEW r, changes' = [changes EXCEPT ![c] = r], UNCHANGED users,
         \/ r = SA!NoChange
         \/ /\ r \in SA!Request
            /\ r.sole => SA!SuperAdmins(users) = {r.target}
            /\ r.sole /\ r.pc = "write" => r.skipped \/ r.op \in {"promote", "activate"}
  PROVE  SoleInv'
<1>1. changes'[c] = r /\ \A g \in Change : g # c => changes'[g] = changes[g]
  BY DEF SoleInv, SA!TypeOK
<1>2. SA!TypeOK'
  BY DEF SoleInv, SA!TypeOK
<1>3. SoleIsTrue' /\ SA!SoleIsSafe'
  BY <1>1 DEF SoleInv, SoleIsTrue, SA!SoleIsSafe, SA!UnderWay, SA!SuperAdmins
<1> QED
  BY <1>2, <1>3 DEF SoleInv

(* A busy handler's request. *)
LEMMA ChangeUnderWay ==
  ASSUME SoleInv, NEW c \in Change, SA!UnderWay(c)
  PROVE  /\ changes[c] \in SA!Request
         /\ changes[c].sole => SA!SuperAdmins(users) = {changes[c].target}
  BY DEF SoleInv, SA!TypeOK, SoleIsTrue, SA!UnderWay

(* Moving on to the next statement, with the same target.                   *)
LEMMA ChangeGoesOn ==
  ASSUME SoleInv, NEW c \in Change, SA!UnderWay(c), NEW pc \in {"lock", "count", "write"}, SA!Goto(c, pc),
         pc = "write" /\ changes[c].sole => FALSE
  PROVE  SoleInv'
<1> DEFINE r == [changes[c] EXCEPT !.pc = pc]
<1>1. changes[c] \in SA!Request /\ (changes[c].sole => SA!SuperAdmins(users) = {changes[c].target})
  BY ChangeUnderWay
<1>2. /\ r \in SA!Request /\ r.pc = pc /\ r.sole = changes[c].sole /\ r.target = changes[c].target
  BY <1>1 DEF SA!Request
<1>3. changes' = [changes EXCEPT ![c] = r] /\ UNCHANGED users
  BY DEF SA!Goto
<1> HIDE DEF r
<1> QED
  BY <1>1, <1>2, <1>3, ChangeStep

(* A request comes in. *)
LEMMA AdminArrives ==
  ASSUME SoleInv, NEW c \in Change, NEW op \in SA!Op, NEW actor \in Person,
         NEW target \in Person, SA!Arrive(c, op, actor, target)
  PROVE  SoleInv'
<1> DEFINE r == [op |-> op, target |-> target, pc |-> "load", sole |-> FALSE,
                 skipped |-> FALSE]
<1>1. r \in SA!Request /\ r.sole = FALSE
  BY DEF SA!Request
<1>2. changes' = [changes EXCEPT ![c] = r] /\ UNCHANGED users
  BY DEF SA!Arrive
<1> HIDE DEF r
<1> QED
  BY <1>1, <1>2, ChangeStep

(* A sole super admin is one, so each operation that would remove it is     *)
(* guarded.                                                                 *)
LEMMA TargetLoads ==
  ASSUME SoleInv, NEW c \in Change, SA!Load(c)
  PROVE  SoleInv'
<1> DEFINE pc == IF SA!Guarded(c) THEN "lock" ELSE "write"
           sole == SA!SuperAdmins(users) = {changes[c].target}
           r == [changes[c] EXCEPT !.pc = pc, !.sole = sole]
<1>1. changes[c] \in SA!Request /\ UNCHANGED users
  BY ChangeUnderWay DEF SA!Load, SA!At
<1>2. /\ r \in SA!Request /\ r.pc = pc /\ (r.sole <=> sole) /\ r.target = changes[c].target
      /\ r.op = changes[c].op /\ r.op \in SA!Op
  BY <1>1 DEF SA!Request
<1>3. changes' = [changes EXCEPT ![c] = SA!NoChange] \/ changes' = [changes EXCEPT ![c] = r]
  BY DEF SA!Load, SA!Done, SoleInv, SA!TypeOK
<1>4. sole /\ pc = "write" => changes[c].op \in {"promote", "activate"}
  <2> SUFFICES ASSUME sole, ~SA!Guarded(c) PROVE changes[c].op \in {"promote", "activate"}
    OBVIOUS
  <2>1. users[changes[c].target].role = "SUPER_ADMIN"
    BY DEF SA!SuperAdmins
  <2> QED
    BY <1>2, <2>1 DEF SA!Guarded, SA!Op
<1> HIDE DEF r, pc, sole
<1>5. sole => SA!SuperAdmins(users) = {changes[c].target}
  BY DEF sole
<1> QED
  BY <1>1, <1>2, <1>3, <1>4, <1>5, ChangeStep

(* The guard's first query. *)
LEMMA LockStep ==
  ASSUME SoleInv, NEW c \in Change, SA!Lock(c)
  PROVE  SoleInv'
<1>1. SA!UnderWay(c)
  BY DEF SA!Lock, SA!At
<1>2. changes[c].sole => changes[c].target \in SA!SuperAdmins(users)
  BY <1>1, ChangeUnderWay
<1> QED
  BY <1>1, <1>2, ChangeGoesOn DEF SA!Lock

(* The guard's first query fails. *)
LEMMA LockFailsStep ==
  ASSUME SoleInv, NEW c \in Change, SA!LockFails(c)
  PROVE  SoleInv'
<1> DEFINE r == [changes[c] EXCEPT !.pc = "write", !.skipped = TRUE]
<1>1. changes[c] \in SA!Request /\ (changes[c].sole => SA!SuperAdmins(users) = {changes[c].target})
  BY ChangeUnderWay DEF SA!LockFails, SA!At
<1>2. r \in SA!Request /\ r.skipped = TRUE /\ r.sole = changes[c].sole /\ r.target = changes[c].target
  BY <1>1 DEF SA!Request
<1>3. changes' = [changes EXCEPT ![c] = r] /\ UNCHANGED users
  BY DEF SA!LockFails, SoleInv, SA!TypeOK
<1> HIDE DEF r
<1> QED
  BY <1>1, <1>2, <1>3, ChangeStep

(* The sole super admin has no peer, so the guard refuses.                  *)
LEMMA CountStep ==
  ASSUME SoleInv, NEW c \in Change, SA!Count(c)
  PROVE  SoleInv'
<1>1. SA!UnderWay(c)
  BY DEF SA!Count, SA!At
<1>2. CASE SA!Done(c) /\ UNCHANGED users
  BY <1>2, ChangeStep DEF SA!Done
<1>3. CASE ~(SA!Cardinality(SA!Peers(changes[c].target)) < 1) /\ SA!Goto(c, "write")
  <2>1. changes[c].sole => SA!Peers(changes[c].target) = {}
    BY <1>1, ChangeUnderWay DEF SA!Peers
  <2>2. SA!Cardinality({}) = 0
    BY SameCardinality, FS_EmptySet
  <2>3. ~changes[c].sole
    BY <1>3, <2>1, <2>2
  <2> QED
    BY <1>1, <1>3, <2>3, ChangeGoesOn
<1> QED
  BY <1>2, <1>3 DEF SA!Count

(* The write of one request re-evaluates what the others call sole.         *)
LEMMA AdminWrites ==
  ASSUME SoleInv, NEW c \in Change, SA!Write(c)
  PROVE  SoleInv'
<1> DEFINE aged(g) == [changes[g] EXCEPT !.sole = @ /\ SA!SuperAdmins(users)' = {changes[g].target}]
<1>1. SA!UnderWay(c) /\ changes[c] \in SA!Request
  BY ChangeUnderWay DEF SA!Write, SA!At
<1>2. changes' = [g \in Change |-> IF g = c \/ ~SA!UnderWay(g) THEN SA!NoChange ELSE aged(g)]
  BY DEF SA!Write, SA!SuperAdmins
<1>3. ASSUME NEW g \in Change, SA!UnderWay(g)
      PROVE  /\ aged(g) \in SA!Request
             /\ aged(g).sole <=> changes[g].sole /\ SA!SuperAdmins(users)' = {changes[g].target}
             /\ aged(g).target = changes[g].target /\ aged(g).pc = changes[g].pc
             /\ aged(g).op = changes[g].op /\ aged(g).skipped = changes[g].skipped
  BY <1>3, ChangeUnderWay DEF SA!Request
<1>4. users' \in [Person -> SA!User \cup {SA!Gone}]
  <2>1. ASSUME NEW row \in SA!User, NEW op \in SA!Op PROVE SA!Written(row, op) \in SA!User \cup {SA!Gone}
    BY <2>1 DEF SA!Written, SA!User, SA!Op
  <2> QED
    BY <1>1, <2>1 DEF SA!Write, SoleInv, SA!TypeOK, SA!Exists, SA!Request
<1> HIDE DEF aged
<1>5. SA!TypeOK'
  BY <1>2, <1>3, <1>4 DEF SA!TypeOK
<1>6. SoleIsTrue' /\ SA!SoleIsSafe'
  <2> SUFFICES ASSUME NEW g \in Change, changes'[g] # SA!NoChange, changes'[g].sole
               PROVE  /\ SA!SuperAdmins(users)' = {changes'[g].target}
                      /\ changes'[g].pc = "write" =>
                            changes'[g].skipped \/ changes'[g].op \in {"promote", "activate"}
    BY DEF SoleIsTrue, SA!SoleIsSafe, SA!UnderWay
  <2>1. SA!UnderWay(g) /\ changes'[g] = aged(g)
    BY <1>2
  <2> QED
    BY <1>3, <2>1 DEF SoleInv, SA!SoleIsSafe
<1> QED
  BY <1>5, <1>6 DEF SoleInv

(* Every step keeps the inductive invariant. *)
LEMMA NextSoleInv == SoleInv /\ [SA!Next]_SA!vars => SoleInv'
<1> SUFFICES ASSUME SoleInv, [SA!Next]_SA!vars PROVE SoleInv'
  OBVIOUS
<1>1. ASSUME NEW c \in Change, SA!Fail(c) PROVE SoleInv'
  BY <1>1, ChangeStep DEF SA!Fail, SA!Done
<1>2. CASE UNCHANGED SA!vars
  BY <1>2 DEF SA!vars, SoleInv, SA!TypeOK, SoleIsTrue, SA!SoleIsSafe, SA!UnderWay,
     SA!SuperAdmins
<1> QED
  BY <1>1, <1>2, AdminArrives, TargetLoads, LockStep, LockFailsStep, CountStep,
     AdminWrites DEF SA!Next

(* The inductive invariant: whoever is called the sole super admin is it,   *)
(* and no unskipped request is about to change that.                        *)
THEOREM SoleInvariant == SA!Spec => []SoleInv
<1> QED
  BY InitSoleInv, NextSoleInv, PTL DEF SA!Spec

(* Every row and request keeps its type.                                    *)
THEOREM AdminTypes == SA!Spec => []SA!TypeOK
<1>1. SoleInv => SA!TypeOK
  BY DEF SoleInv
<1> QED
  BY SoleInvariant, <1>1, PTL

(* For any number of accounts and concurrent requests, none whose guard     *)
(* could run its query is about to take the only super admin away.          *)
THEOREM SoleAdminIsSafe == SA!Spec => []SoleIsSafe
<1>1. SoleInv => SoleIsSafe
  BY DEF SoleInv, SA!SoleIsSafe, SA!UnderWay, SA!NoChange, SoleIsSafe, UnderWay, NoChange
<1> QED
  BY SoleInvariant, <1>1, PTL
=============================================================================
