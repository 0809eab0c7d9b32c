-------------------------- MODULE RegistryControlProofs --------------------------
(***************************************************************************)
(* Proofs about RegistryControl for every value of its constants: what a   *)
(* seeding achieves, when it fails, and what commands do to the default    *)
(* domains afterwards.                                                     *)
(*                                                                         *)
(* A seeding is a long sequence of statements, and what one of them needs  *)
(* was done by others before it, perhaps in a process that died since.     *)
(* The invariant therefore says of the statements that are left: whatever  *)
(* one of them relies on is true already or comes before it, and whatever  *)
(* is not among them is true already.  When none is left, all is true.     *)
(*                                                                         *)
(* The lemmas about sequences are those of EppFramingProofs.               *)
(***************************************************************************)
EXTENDS RegistryControl, EppFramingProofs

-------------------------------------------------------------------------------
(* The invariant.                                                          *)

Do(task, of) == [task |-> task, of |-> of]

\* The statements of a seeding.
Statements ==
  {Do(task, d) : task \in {"contact", "sponsor", "register", "complete"}, d \in Defaults}
    \cup {Do(task, h) : task \in {"hostSponsor", "host"}, h \in Hosts}

\* What is true from a statement on.
IsDone(t) ==
  /\ t.task = "contact" => t.of \in contacts
  /\ t.task = "sponsor" => (domains[t.of] # None => domains[t.of].registrarId = Admin)
  /\ t.task = "register" => domains[t.of] # None
  /\ t.task = "hostSponsor" => (hosts[t.of] # None => hosts[t.of].registrarId = Admin)
  /\ t.task = "host" => HasConfiguredGlue(t.of)
  /\ t.task = "complete" => domains[t.of] # None /\ LacksNothing(t.of)

DoneStatements == {t \in Statements : IsDone(t)}

\* Statement t relies on what statement a does.
Needs(t, a) ==
  \/ \E d \in Defaults, role \in Range(Roles) :
       /\ t = Do("host", <<d, role>>)
       /\ a \in {Do("sponsor", d), Do("register", d), Do("hostSponsor", <<d, role>>)}
  \/ \E d \in Defaults :
       /\ t = Do("complete", d)
       /\ \/ a \in {Do("sponsor", d), Do("register", d)}
          \/ \E role \in Range(Roles) : a = Do("host", <<d, role>>)

Occurs(q, t) == \E i \in 1..Len(q) : q[i] = t

\* Whatever a statement of q relies on is done, or comes before it in q.
Covered(q, done) ==
  \A i \in 1..Len(q) : \A a \in Statements :
    Needs(q[i], a) => a \in done \/ \E j \in 1..(i - 1) : q[j] = a

\* A seeding that has q left does all of its statements.
Runs(q, done) ==
  /\ q \in Seq(Statements)
  /\ Covered(q, done)
  /\ \A t \in Statements : t \in done \/ Occurs(q, t)

TablesOK ==
  /\ domains \in [Defaults -> DomainRow \cup {None}]
  /\ hosts \in [Hosts -> HostRow \cup {None}]
  /\ \A h \in Hosts : hosts[h] # None => hosts[h].addresses \subseteq Usable
  /\ config \in Glue \cup {Torn}

\* A default domain no command can purge or hand over on a new request.
IsProtected(d) ==
  /\ domains[d] # None
  /\ SeededStatuses \subseteq domains[d].statuses
  /\ domains[d].registrarId = Admin \/ domains[d].requestedBy # None

JobOK ==
  IsSeeding =>
    /\ job # <<>>
    /\ \/ \E g \in Glue : job = <<Do("save", g)>> \o SeedingWork
       \/ Runs(job, DoneStatements)

SeededOK == seeded => phase = "up" /\ \A d \in Defaults : IsProtected(d)

IInv == TablesOK /\ JobOK /\ SeededOK

-------------------------------------------------------------------------------
(* What a seeding does, in what order.                                     *)

LEMMA StatementFacts ==
  /\ \A d \in Defaults : \A task \in {"contact", "sponsor", "register", "complete"} :
       Do(task, d) \in Statements
  /\ \A d \in Defaults, role \in Range(Roles) : \A task \in {"hostSponsor", "host"} :
       Do(task, <<d, role>>) \in Statements
BY DEF Statements, Hosts

\* What a statement relies on, by its task.
LEMMA NeedsFacts ==
  ASSUME NEW t, NEW a, Needs(t, a)
  PROVE  \/ \E d \in Defaults, role \in Range(Roles) :
              /\ t = Do("host", <<d, role>>)
              /\ a \in {Do("sponsor", d), Do("register", d), Do("hostSponsor", <<d, role>>)}
         \/ \E d \in Defaults :
              /\ t = Do("complete", d)
              /\ \/ a \in {Do("sponsor", d), Do("register", d)}
                 \/ \E role \in Range(Roles) : a = Do("host", <<d, role>>)
BY DEF Needs

LEMMA CoveredGrows ==
  ASSUME NEW q, NEW done, NEW more, Covered(q, done), done \subseteq more
  PROVE  Covered(q, more)
BY DEF Covered

LEMMA CoveredConcat ==
  ASSUME NEW p \in Seq(Statements), NEW q \in Seq(Statements), NEW done,
         Covered(p, done), Covered(q, done \cup {a \in Statements : Occurs(p, a)})
  PROVE  p \o q \in Seq(Statements) /\ Covered(p \o q, done)
<1> DEFINE z == p \o q
<1>1. /\ z \in Seq(Statements) /\ Len(z) = Len(p) + Len(q)
      /\ \A i \in 1..Len(p) : z[i] = p[i]
      /\ \A i \in 1..Len(q) : z[Len(p) + i] = q[i]
      /\ Len(p) \in Nat /\ Len(q) \in Nat
  BY ConcatFacts, ElementsOf
<1> HIDE DEF z
<1>2. ASSUME NEW i \in 1..Len(z), NEW a \in Statements, Needs(z[i], a), a \notin done
      PROVE  \E j \in 1..(i - 1) : z[j] = a
  <2>1. CASE i =< Len(p)
    <3>1. i \in 1..Len(p) /\ z[i] = p[i]
      BY <1>1, <2>1
    <3>2. PICK j \in 1..(i - 1) : p[j] = a
      BY <1>2, <3>1 DEF Covered
    <3>3. j \in 1..Len(p)
      BY <1>1, <3>1
    <3>4. QED
      BY <1>1, <3>2, <3>3
  <2>2. CASE i > Len(p)
    <3> DEFINE n == i - Len(p)
    <3>1. n \in 1..Len(q) /\ Len(p) + n = i
      BY <1>1, <2>2
    <3> HIDE DEF n
    <3>2. Needs(q[n], a)
      BY <1>1, <1>2, <3>1
    <3>3. a \in done \cup {b \in Statements : Occurs(p, b)} \/ \E j \in 1..(n - 1) : q[j] = a
      BY <3>1, <3>2 DEF Covered
    <3>4. CASE Occurs(p, a)
      <4>1. PICK j \in 1..Len(p) : p[j] = a
        BY <3>4 DEF Occurs
      <4>2. j \in 1..(i - 1) /\ z[j] = a
        BY <1>1, <2>2, <4>1
      <4>3. QED
        BY <4>2
    <3>5. CASE \E j \in 1..(n - 1) : q[j] = a
      <4>1. PICK j \in 1..(n - 1) : q[j] = a
        BY <3>5
      <4>2. Len(p) + j \in 1..(i - 1) /\ j \in 1..Len(q)
        BY <1>1, <3>1
      <4>3. z[Len(p) + j] = a
        BY <1>1, <4>1, <4>2
      <4>4. QED
        BY <4>2, <4>3
    <3>6. QED
      BY <1>2, <3>3, <3>4, <3>5
  <2>3. QED
    BY <1>1, <2>1, <2>2
<1>3. Covered(z, done)
  BY <1>2 DEF Covered
<1>4. QED
  BY <1>1, <1>3 DEF z

LEMMA CoveredFlatten ==
  ASSUME NEW q \in Seq(Seq(Statements)), NEW done,
         \A i \in 1..Len(q) : Covered(q[i], done)
  PROVE  FlattenSeq(q) \in Seq(Statements) /\ Covered(FlattenSeq(q), done)
<1>1. Len(q) \in Nat /\ \A i \in 1..Len(q) : q[i] \in Seq(Statements)
  BY ElementsOf
<1>2. PICK f : IsFlattening(f, q) /\ FlattenSeq(q) = f[Len(q)]
  BY FlatteningExists
<1>3. \A n \in 0..Len(q) : f[n] \in Seq(Statements)
  BY <1>2, FlatteningRange
<1> DEFINE T == {n \in 0..Len(q) : Covered(f[n], done)}
<1>4. 0 \in T
  <2>1. f[0] = <<>> /\ Len(<<>>) = 0
    BY <1>2 DEF IsFlattening
  <2>2. Covered(f[0], done)
    BY <2>1 DEF Covered
  <2>3. QED
    BY <1>1, <2>2
<1>5. ASSUME NEW n \in 0..(Len(q) - 1), n \in T
      PROVE  n + 1 \in T
  <2>1. n + 1 \in 1..Len(q) /\ n + 1 \in 0..Len(q) /\ n \in 0..Len(q)
    BY <1>1
  <2>2. /\ f[n + 1] = f[n] \o q[n + 1] /\ f[n] \in Seq(Statements)
        /\ q[n + 1] \in Seq(Statements) /\ Covered(f[n], done) /\ Covered(q[n + 1], done)
    BY <1>1, <1>2, <1>3, <1>5, <2>1 DEF IsFlattening
  <2>3. Covered(q[n + 1], done \cup {a \in Statements : Occurs(f[n], a)})
    BY <2>2, CoveredGrows
  <2>4. Covered(f[n] \o q[n + 1], done)
    BY <2>2, <2>3, CoveredConcat
  <2>5. QED
    BY <2>1, <2>2, <2>4
<1> HIDE DEF T
<1>6. \A n \in 0..Len(q) : n \in T
  BY <1>1, <1>4, <1>5, UpTo
<1>7. Len(q) \in T /\ Len(q) \in 0..Len(q)
  BY <1>1, <1>6
<1>8. QED
  BY <1>2, <1>3, <1>7 DEF T

LEMMA OccursConcat ==
  ASSUME NEW p \in Seq(Statements), NEW q \in Seq(Statements), NEW t
  PROVE  Occurs(p \o q, t) <=> Occurs(p, t) \/ Occurs(q, t)
<1> DEFINE z == p \o q
<1>1. /\ Len(z) = Len(p) + Len(q)
      /\ \A i \in 1..Len(p) : z[i] = p[i]
      /\ \A i \in 1..Len(q) : z[Len(p) + i] = q[i]
      /\ Len(p) \in Nat /\ Len(q) \in Nat
  BY ConcatFacts, ElementsOf
<1> HIDE DEF z
<1>2. ASSUME NEW i \in 1..Len(z), z[i] = t
      PROVE  Occurs(p, t) \/ Occurs(q, t)
  <2>1. CASE i =< Len(p)
    BY <1>1, <1>2, <2>1 DEF Occurs
  <2>2. CASE i > Len(p)
    <3>1. i - Len(p) \in 1..Len(q) /\ Len(p) + (i - Len(p)) = i
      BY <1>1, <2>2
    <3>2. QED
      BY <1>1, <1>2, <3>1 DEF Occurs
  <2>3. QED
    BY <1>1, <2>1, <2>2
<1>3. ASSUME Occurs(p, t)
      PROVE  Occurs(z, t)
  BY <1>1, <1>3 DEF Occurs
<1>4. ASSUME NEW i \in 1..Len(q), q[i] = t
      PROVE  Occurs(z, t)
  <2>1. Len(p) + i \in 1..Len(z) /\ z[Len(p) + i] = t
    BY <1>1, <1>4
  <2>2. QED
    BY <2>1 DEF Occurs
<1>5. QED
  BY <1>2, <1>3, <1>4 DEF z, Occurs

LEMMA OccursFlatten ==
  ASSUME NEW q \in Seq(Seq(Statements)), NEW t
  PROVE  Occurs(FlattenSeq(q), t) <=> \E i \in 1..Len(q) : Occurs(q[i], t)
<1>1. \A e : (\E i \in 1..Len(FlattenSeq(q)) : FlattenSeq(q)[i] = e)
                <=> (\E j \in 1..Len(q) : \E i \in 1..Len(q[j]) : q[j][i] = e)
  BY FlattenElements
<1>2. QED
  BY <1>1, Zenon DEF Occurs
LEMMA TripleFacts ==
  ASSUME NEW a \in Statements, NEW b \in Statements, NEW c \in Statements
  PROVE  /\ <<a, b, c>> \in Seq(Statements)
         /\ \A t : Occurs(<<a, b, c>>, t) <=> t \in {a, b, c}
         /\ \A i \in 1..Len(<<a, b, c>>) : <<a, b, c>>[i] \in {a, b, c}
<1> DEFINE q == <<a, b, c>>
<1>1. q \in Seq(Statements) /\ Len(q) = 3 /\ q[1] = a /\ q[2] = b /\ q[3] = c
  OBVIOUS
<1> HIDE DEF q
<1>2. 1..Len(q) = {1, 2, 3}
  BY <1>1
<1>3. QED
  BY <1>1, <1>2 DEF q, Occurs

LEMMA PairFacts ==
  ASSUME NEW a \in Statements, NEW b \in Statements
  PROVE  /\ <<a, b>> \in Seq(Statements)
         /\ Len(<<a, b>>) = 2 /\ <<a, b>>[1] = a /\ <<a, b>>[2] = b
         /\ \A t : Occurs(<<a, b>>, t) <=> t \in {a, b}
<1> DEFINE q == <<a, b>>
<1>1. q \in Seq(Statements) /\ Len(q) = 2 /\ q[1] = a /\ q[2] = b
  OBVIOUS
<1> HIDE DEF q
<1>2. 1..Len(q) = {1, 2}
  BY <1>1
<1>3. QED
  BY <1>1, <1>2 DEF q, Occurs

LEMMA SingleFacts ==
  ASSUME NEW a \in Statements
  PROVE  /\ <<a>> \in Seq(Statements)
         /\ Len(<<a>>) = 1 /\ <<a>>[1] = a
         /\ \A t : Occurs(<<a>>, t) <=> t = a
<1> DEFINE q == <<a>>
<1>1. q \in Seq(Statements) /\ Len(q) = 1 /\ q[1] = a
  OBVIOUS
<1> HIDE DEF q
<1>2. QED
  BY <1>1 DEF q, Occurs

\* The statements of a host, and of all hosts of a domain, once the domain is
\* the registry's.
Sponsored(d) == {Do("sponsor", d), Do("register", d)}

LEMMA HostPairFacts ==
  ASSUME NEW d \in Defaults, NEW role \in Range(Roles)
  PROVE  LET q == <<Do("hostSponsor", <<d, role>>), Do("host", <<d, role>>)>> IN
         /\ q \in Seq(Statements)
         /\ Covered(q, Sponsored(d))
         /\ \A t : Occurs(q, t) <=> t \in {Do("hostSponsor", <<d, role>>), Do("host", <<d, role>>)}
<1> DEFINE a == Do("hostSponsor", <<d, role>>)
           b == Do("host", <<d, role>>)
           q == <<a, b>>
<1>1. a \in Statements /\ b \in Statements
  BY StatementFacts
<1>2. \A s : ~Needs(a, s)
  BY NeedsFacts DEF Do
<1>3. \A s : Needs(b, s) => s \in Sponsored(d) \cup {a}
  BY NeedsFacts DEF Do, Sponsored
<1> HIDE DEF a, b
<1>4. /\ q \in Seq(Statements) /\ Len(q) = 2 /\ q[1] = a /\ q[2] = b
      /\ \A t : Occurs(q, t) <=> t \in {a, b}
  BY <1>1, PairFacts
<1> HIDE DEF q
<1>5. ASSUME NEW i \in 1..Len(q), NEW s \in Statements, Needs(q[i], s), s \notin Sponsored(d)
      PROVE  \E j \in 1..(i - 1) : q[j] = s
  <2>1. i \in {1, 2}
    BY <1>4
  <2>2. i = 2 /\ s = a
    BY <1>2, <1>3, <1>4, <1>5, <2>1
  <2>3. QED
    BY <1>4, <2>2
<1>6. Covered(q, Sponsored(d))
  BY <1>5 DEF Covered
<1>7. QED
  BY <1>4, <1>6 DEF q, a, b

LEMMA RolesFacts ==
  /\ Len(Roles) \in Nat /\ \A i \in 1..Len(Roles) : Roles[i] \in Range(Roles)
  /\ \A role \in Range(Roles) : \E i \in 1..Len(Roles) : Roles[i] = role
<1>1. Roles \in Seq(Range(Roles))
  BY ListAssumption
<1>2. Len(Roles) \in Nat /\ DOMAIN Roles = 1..Len(Roles)
  BY <1>1
<1>3. QED
  BY <1>2 DEF Range

LEMMA DefaultsFacts ==
  /\ Len(DefaultDomains) \in Nat \ {0}
  /\ \A i \in 1..Len(DefaultDomains) : DefaultDomains[i] \in Defaults
  /\ \A d \in Defaults : \E i \in 1..Len(DefaultDomains) : DefaultDomains[i] = d
<1>1. DefaultDomains \in Seq(Defaults) /\ DefaultDomains # <<>>
  BY ListAssumption
<1>2. Len(DefaultDomains) \in Nat \ {0} /\ DOMAIN DefaultDomains = 1..Len(DefaultDomains)
  BY <1>1
<1>3. QED
  BY <1>2 DEF Defaults, Range

LEMMA HostWorkFacts ==
  ASSUME NEW d \in Defaults
  PROVE  /\ HostWork(d) \in Seq(Statements)
         /\ Covered(HostWork(d), Sponsored(d))
         /\ \A role \in Range(Roles) : /\ Occurs(HostWork(d), Do("hostSponsor", <<d, role>>))
                                       /\ Occurs(HostWork(d), Do("host", <<d, role>>))
<1> DEFINE pair(role) == <<Do("hostSponsor", <<d, role>>), Do("host", <<d, role>>)>>
           pairs == [i \in 1..Len(Roles) |-> pair(Roles[i])]
<1>1. HostWork(d) = FlattenSeq(pairs)
  BY DEF HostWork, Do
<1>2. \A role \in Range(Roles) :
        /\ pair(role) \in Seq(Statements)
        /\ Covered(pair(role), Sponsored(d))
        /\ Occurs(pair(role), Do("hostSponsor", <<d, role>>))
        /\ Occurs(pair(role), Do("host", <<d, role>>))
  BY HostPairFacts
<1> HIDE DEF pair
<1>3. pairs \in Seq(Seq(Statements)) /\ Len(pairs) = Len(Roles)
  <2>1. pairs \in [1..Len(Roles) -> Seq(Statements)]
    BY <1>2, RolesFacts
  <2> HIDE DEF pairs
  <2>2. QED
    BY <2>1, RolesFacts, FunctionIsSequence
<1>4. \A i \in 1..Len(pairs) : Roles[i] \in Range(Roles) /\ pairs[i] = pair(Roles[i])
  BY <1>3, RolesFacts
<1> HIDE DEF pairs
<1>5. FlattenSeq(pairs) \in Seq(Statements) /\ Covered(FlattenSeq(pairs), Sponsored(d))
  BY <1>2, <1>3, <1>4, CoveredFlatten
<1>6. ASSUME NEW role \in Range(Roles)
      PROVE  \E i \in 1..Len(pairs) : pairs[i] = pair(role)
  BY <1>3, <1>4, RolesFacts
<1>7. QED
  BY <1>1, <1>2, <1>3, <1>5, <1>6, OccursFlatten

\* The statements of one default domain.
StatementsOf(d) ==
  {Do(task, d) : task \in {"contact", "sponsor", "register", "complete"}}
    \cup {Do(task, <<d, role>>) : task \in {"hostSponsor", "host"}, role \in Range(Roles)}

LEMMA DomainWorkFacts ==
  ASSUME NEW d \in Defaults
  PROVE  /\ DomainWork(d) \in Seq(Statements)
         /\ Covered(DomainWork(d), {})
         /\ \A t \in StatementsOf(d) : Occurs(DomainWork(d), t)
<1> DEFINE front == <<Do("contact", d), Do("sponsor", d), Do("register", d)>>
           last == <<Do("complete", d)>>
           hostwork == HostWork(d)
<1>1. DomainWork(d) = (front \o hostwork) \o last
  BY DEF DomainWork, Do
<1>2. /\ front \in Seq(Statements) /\ Covered(front, {})
      /\ \A t : Occurs(front, t) <=> t \in {Do("contact", d), Do("sponsor", d), Do("register", d)}
  <2>1. \A t \in {Do("contact", d), Do("sponsor", d), Do("register", d)} : \A a : ~Needs(t, a)
    BY NeedsFacts DEF Do
  <2>2. /\ Do("contact", d) \in Statements /\ Do("sponsor", d) \in Statements
        /\ Do("register", d) \in Statements
    BY StatementFacts
  <2>3. /\ front \in Seq(Statements)
        /\ \A t : Occurs(front, t) <=> t \in {Do("contact", d), Do("sponsor", d), Do("register", d)}
        /\ \A i \in 1..Len(front) : front[i] \in {Do("contact", d), Do("sponsor", d), Do("register", d)}
    BY <2>2, TripleFacts
  <2> HIDE DEF front
  <2>4. QED
    BY <2>1, <2>3 DEF Covered
<1>3. /\ last \in Seq(Statements) /\ Len(last) = 1 /\ last[1] = Do("complete", d)
      /\ \A t : Occurs(last, t) <=> t = Do("complete", d)
  BY StatementFacts, SingleFacts
<1>4. /\ hostwork \in Seq(Statements) /\ Covered(hostwork, Sponsored(d))
      /\ \A role \in Range(Roles) : /\ Occurs(hostwork, Do("hostSponsor", <<d, role>>))
                                    /\ Occurs(hostwork, Do("host", <<d, role>>))
  BY HostWorkFacts
<1> HIDE DEF front, last, hostwork
<1>5. Sponsored(d) \subseteq {a \in Statements : Occurs(front, a)}
  BY <1>2, StatementFacts DEF Sponsored
<1>6. front \o hostwork \in Seq(Statements) /\ Covered(front \o hostwork, {})
  <2>1. Covered(hostwork, {} \cup {a \in Statements : Occurs(front, a)})
    BY <1>4, <1>5, CoveredGrows
  <2>2. QED
    BY <1>2, <1>4, <2>1, CoveredConcat
<1>7. \A t : Occurs(front \o hostwork, t) <=> Occurs(front, t) \/ Occurs(hostwork, t)
  BY <1>2, <1>4, OccursConcat
<1> DEFINE begin == front \o hostwork
<1>8. /\ begin \in Seq(Statements) /\ Covered(begin, {}) /\ DomainWork(d) = begin \o last
      /\ \A t : Occurs(begin, t) <=> Occurs(front, t) \/ Occurs(hostwork, t)
  BY <1>1, <1>6, <1>7
<1> HIDE DEF begin
<1>9. Covered(last, {} \cup {a \in Statements : Occurs(begin, a)})
  <2>1. ASSUME NEW a \in Statements, Needs(Do("complete", d), a)
        PROVE  Occurs(begin, a)
    <3>1. a \in Sponsored(d) \/ \E role \in Range(Roles) : a = Do("host", <<d, role>>)
      BY <2>1, NeedsFacts DEF Do, Sponsored
    <3>2. QED
      BY <1>4, <1>5, <1>8, <3>1
  <2>2. QED
    BY <1>3, <2>1 DEF Covered
<1>10. DomainWork(d) \in Seq(Statements) /\ Covered(DomainWork(d), {})
  BY <1>3, <1>8, <1>9, CoveredConcat
<1>11. \A t : Occurs(DomainWork(d), t) <=> Occurs(front, t) \/ Occurs(hostwork, t) \/ Occurs(last, t)
  BY <1>3, <1>8, OccursConcat
<1>12. ASSUME NEW t \in StatementsOf(d)
       PROVE  Occurs(DomainWork(d), t)
  <2>1. CASE \E task \in {"contact", "sponsor", "register", "complete"} : t = Do(task, d)
    <3>1. t \in {Do("contact", d), Do("sponsor", d), Do("register", d)} \/ t = Do("complete", d)
      BY <2>1
    <3>2. QED
      BY <1>2, <1>3, <1>11, <3>1
  <2>2. CASE \E task \in {"hostSponsor", "host"}, role \in Range(Roles) : t = Do(task, <<d, role>>)
    <3>1. PICK role \in Range(Roles) :
            t = Do("hostSponsor", <<d, role>>) \/ t = Do("host", <<d, role>>)
      BY <2>2
    <3>2. Occurs(hostwork, t)
      BY <1>4, <3>1
    <3>3. QED
      BY <1>11, <3>2
  <2>3. QED
    BY <2>1, <2>2 DEF StatementsOf
<1>13. QED
  BY <1>10, <1>12

LEMMA SeedingWorkFacts ==
  /\ SeedingWork \in Seq(Statements) /\ SeedingWork # <<>>
  /\ Covered(SeedingWork, {})
  /\ \A t \in Statements : Occurs(SeedingWork, t)
<1> DEFINE works == [i \in 1..Len(DefaultDomains) |-> DomainWork(DefaultDomains[i])]
<1>1. SeedingWork = FlattenSeq(works)
  BY DEF SeedingWork
<1>2. works \in Seq(Seq(Statements)) /\ Len(works) = Len(DefaultDomains)
  <2>1. works \in [1..Len(DefaultDomains) -> Seq(Statements)]
    BY DefaultsFacts, DomainWorkFacts
  <2> HIDE DEF works
  <2>2. QED
    BY <2>1, DefaultsFacts, FunctionIsSequence
<1>3. \A i \in 1..Len(works) :
        DefaultDomains[i] \in Defaults /\ works[i] = DomainWork(DefaultDomains[i])
  BY <1>2, DefaultsFacts
<1> HIDE DEF works
<1>4. FlattenSeq(works) \in Seq(Statements) /\ Covered(FlattenSeq(works), {})
  BY <1>2, <1>3, DomainWorkFacts, CoveredFlatten
<1>5. ASSUME NEW t \in Statements
      PROVE  Occurs(FlattenSeq(works), t)
  <2>1. PICK d \in Defaults : t \in StatementsOf(d)
    BY DEF Statements, StatementsOf, Hosts
  <2>2. PICK i \in 1..Len(works) : works[i] = DomainWork(d)
    BY <1>2, <1>3, DefaultsFacts
  <2>3. QED
    BY <1>2, <2>1, <2>2, DomainWorkFacts, OccursFlatten
<1>6. FlattenSeq(works) # <<>>
  <2>1. PICK d \in Defaults : TRUE
    BY DefaultsFacts
  <2>2. Occurs(FlattenSeq(works), Do("contact", d))
    BY <1>5, StatementFacts
  <2>3. \A i \in 1..Len(<<>>) : FALSE
    OBVIOUS
  <2>4. QED
    BY <2>2, <2>3 DEF Occurs
<1>7. QED
  BY <1>1, <1>4, <1>5, <1>6

\* A seeding that begins does all of its statements, whatever was done before.
LEMMA SeedingRuns ==
  ASSUME NEW done
  PROVE  Runs(SeedingWork, done)
BY SeedingWorkFacts, CoveredGrows DEF Runs
-------------------------------------------------------------------------------
(* Rows.                                                                   *)

LEMMA NormalizeFacts ==
  ASSUME NEW statuses \in SUBSET ObjectStatuses
  PROVE  /\ NormalizeObjectStatuses(statuses) \in (SUBSET ObjectStatuses) \ {{}}
         /\ \A s : s # "ok" => (s \in NormalizeObjectStatuses(statuses) <=> s \in statuses)
<1> DEFINE n == NormalizeObjectStatuses(statuses)
<1>1. n = IF statuses \subseteq {"ok"} THEN {"ok"} ELSE statuses \ {"ok"}
  BY DEF NormalizeObjectStatuses
<1>2. "ok" \in ObjectStatuses
  BY DEF ObjectStatuses
<1> HIDE DEF n
<1>3. n \subseteq ObjectStatuses /\ \E s : s \in n
  BY <1>1, <1>2
<1>4. \A s : s # "ok" => (s \in n <=> s \in statuses)
  BY <1>1
<1>5. QED
  BY <1>3, <1>4 DEF n

LEMMA SeededStatusesFacts ==
  /\ SeededStatuses \subseteq ObjectStatuses /\ ClientStatuses \subseteq ObjectStatuses
  /\ "ok" \in ObjectStatuses /\ "ok" \notin SeededStatuses
  /\ SeededStatuses \cap ClientStatuses = {}
  /\ {"pendingTransfer", "pendingDelete"} \subseteq ObjectStatuses \ SeededStatuses
BY DEF SeededStatuses, ClientStatuses, ObjectStatuses, DELETE_PROHIBITED, TRANSFER_PROHIBITED,
       UPDATE_PROHIBITED

LEMMA DomainRowFacts ==
  ASSUME NEW row \in DomainRow
  PROVE  /\ row # None
         /\ row.registrarId \in Registrars
         /\ row.statuses \in SUBSET ObjectStatuses
         /\ row.nameservers \in SUBSET Range(Roles)
         /\ row.dsRecords \in BOOLEAN
         /\ row.requestedBy \in Registrars \cup {None}
BY RowAssumption DEF DomainRow

LEMMA HostRowFacts ==
  ASSUME NEW row \in HostRow
  PROVE  /\ row # None
         /\ row.registrarId \in Registrars
         /\ row.statuses \in SUBSET ObjectStatuses
         /\ row.addresses \in SUBSET Glue
BY RowAssumption DEF HostRow

LEMMA FreshRowFacts ==
  ASSUME NEW r \in Registrars, NEW nss \in SUBSET Range(Roles), NEW ds \in BOOLEAN
  PROVE  FreshRow(r, nss, ds) \in DomainRow /\ FreshRow(r, nss, ds).registrarId = r
<1>1. {"ok"} \in (SUBSET ObjectStatuses) \ {{}}
  <2>1. "ok" \in {"ok"} /\ {"ok"} \subseteq ObjectStatuses
    BY SeededStatusesFacts
  <2>2. QED
    BY <2>1
<1>2. QED
  BY <1>1 DEF FreshRow, DomainRow

LEMMA FreshHostFacts ==
  ASSUME NEW r \in Registrars, NEW addrs \in SUBSET Usable
  PROVE  /\ FreshHost(r, addrs) \in HostRow
         /\ FreshHost(r, addrs).registrarId = r /\ FreshHost(r, addrs).addresses = addrs
<1>1. {"ok"} \in (SUBSET ObjectStatuses) \ {{}}
  <2>1. "ok" \in {"ok"} /\ {"ok"} \subseteq ObjectStatuses
    BY SeededStatusesFacts
  <2>2. QED
    BY <2>1
<1>2. QED
  BY <1>1, GlueAssumption DEF FreshHost, HostRow

\* One row of a table is replaced.
DomainSet(d, row) == domains' = [domains EXCEPT ![d] = row]

LEMMA DomainSetTyped ==
  ASSUME TablesOK, NEW d \in Defaults, NEW row \in DomainRow \cup {None}, DomainSet(d, row),
         UNCHANGED hosts, config' \in Glue \cup {Torn}
  PROVE  TablesOK' /\ domains'[d] = row /\ \A e \in Defaults \ {d} : domains'[e] = domains[e]
BY DEF TablesOK, DomainSet

HostSet(h, row) == hosts' = [hosts EXCEPT ![h] = row]

LEMMA HostSetTyped ==
  ASSUME TablesOK, NEW h \in Hosts, NEW row \in HostRow \cup {None}, HostSet(h, row),
         row # None => row.addresses \subseteq Usable, UNCHANGED <<domains, config>>
  PROVE  TablesOK' /\ hosts'[h] = row /\ \A g \in Hosts \ {h} : hosts'[g] = hosts[g]
<1>1. hosts' = [hosts EXCEPT ![h] = row] /\ hosts \in [Hosts -> HostRow \cup {None}]
  BY DEF TablesOK, HostSet
<1>2. hosts'[h] = row /\ \A g \in Hosts \ {h} : hosts'[g] = hosts[g]
  BY <1>1
<1>3. hosts' \in [Hosts -> HostRow \cup {None}]
  BY <1>1
<1>4. \A g \in Hosts : hosts'[g] # None => hosts'[g].addresses \subseteq Usable
  BY <1>2 DEF TablesOK
<1>5. QED
  BY <1>2, <1>3, <1>4 DEF TablesOK

-------------------------------------------------------------------------------
(* What a statement does, and what it leaves.                              *)

DomainKept(old, new) ==
  /\ old # None =>
       /\ new # None
       /\ old.nameservers \subseteq new.nameservers
       /\ old.statuses \cap SeededStatuses \subseteq new.statuses
       /\ old.dsRecords => new.dsRecords
  /\ (old # None => old.registrarId = Admin) => (new # None => new.registrarId = Admin)

HostKept(old, new) ==
  /\ old # None /\ old.addresses = {config} => new # None /\ new.addresses = {config}
  /\ (old # None => old.registrarId = Admin) => (new # None => new.registrarId = Admin)

TablesKept ==
  /\ \A d \in Defaults : DomainKept(domains[d], domains'[d])
  /\ \A h \in Hosts : HostKept(hosts[h], hosts'[h])
  /\ contacts \subseteq contacts'

LEMMA SameKept ==
  /\ \A row : DomainKept(row, row)
  /\ \A row : HostKept(row, row)
BY DEF DomainKept, HostKept

LEMMA DoneStays ==
  ASSUME TablesKept, config' = config, NEW t \in Statements, IsDone(t)
  PROVE  IsDone(t)'
<1>1. \/ t.task \in {"contact", "sponsor", "register", "complete"} /\ t.of \in Defaults
      \/ t.task \in {"hostSponsor", "host"} /\ t.of \in Hosts
  BY DEF Statements, Do
<1>2. CASE t.task \in {"contact", "sponsor", "register", "complete"} /\ t.of \in Defaults
  <2> DEFINE d == t.of
  <2>1. DomainKept(domains[d], domains'[d]) /\ contacts \subseteq contacts'
    BY <1>2 DEF TablesKept
  <2>2. CASE t.task = "contact"
    BY <2>1, <2>2 DEF IsDone
  <2>3. CASE t.task = "sponsor"
    BY <2>1, <2>3 DEF IsDone, DomainKept
  <2>4. CASE t.task = "register"
    BY <2>1, <2>4 DEF IsDone, DomainKept
  <2>5. CASE t.task = "complete"
    <3>1. domains[d] # None /\ LacksNothing(d)
      BY <2>5 DEF IsDone
    <3>2. domains'[d] # None /\ LacksNothing(d)'
      BY <2>1, <3>1 DEF DomainKept, LacksNothing, NameserversToAdd, StatusesToAdd
    <3>3. QED
      BY <2>5, <3>2 DEF IsDone
  <2>6. QED
    BY <1>2, <2>2, <2>3, <2>4, <2>5
<1>3. CASE t.task \in {"hostSponsor", "host"} /\ t.of \in Hosts
  <2>1. HostKept(hosts[t.of], hosts'[t.of])
    BY <1>3 DEF TablesKept
  <2>2. QED
    BY <1>3, <2>1 DEF HostKept, IsDone, HasConfiguredGlue
<1>4. QED
  BY <1>1, <1>2, <1>3

\* What every statement of a seeding achieves.
SeedEffect ==
  /\ TablesOK'
  /\ Advance
  /\ TablesKept
  /\ \A t \in Statements : t = Head(job) => IsDone(t)'

LEMMA ContactEffect ==
  ASSUME TablesOK, NEW d \in Defaults, EnsureContact(d)
  PROVE  SeedEffect
<1>1. /\ Head(job) = Do("contact", d) /\ Advance /\ contacts' = contacts \cup {d}
      /\ UNCHANGED <<domains, hosts>>
  BY DEF EnsureContact, IsNext, Do
<1>2. TablesOK' /\ TablesKept
  BY <1>1, SameKept DEF TablesOK, TablesKept, Advance
<1>3. IsDone(Do("contact", d))'
  BY <1>1 DEF IsDone, Do
<1>4. QED
  BY <1>1, <1>2, <1>3 DEF SeedEffect, Advance

\* A statement that leaves a domain row as it is, or sets it.
LEMMA DomainEffect ==
  ASSUME TablesOK, NEW d \in Defaults, NEW row \in DomainRow \cup {None}, DomainSet(d, row),
         DomainKept(domains[d], row), Advance, UNCHANGED <<hosts, contacts>>
  PROVE  TablesOK' /\ TablesKept /\ domains'[d] = row
<1>1. config' = config /\ config' \in Glue \cup {Torn}
  BY DEF Advance, TablesOK
<1>2. TablesOK' /\ domains'[d] = row /\ \A e \in Defaults \ {d} : domains'[e] = domains[e]
  BY <1>1, DomainSetTyped
<1>3. QED
  BY <1>2, SameKept DEF TablesKept

LEMMA ReclaimDomainEffect ==
  ASSUME TablesOK, NEW d \in Defaults, ReclaimDomain(d)
  PROVE  SeedEffect
<1>1. Head(job) = Do("sponsor", d) /\ Advance /\ UNCHANGED <<hosts, contacts>>
  BY DEF ReclaimDomain, IsNext, Do
<1>2. domains \in [Defaults -> DomainRow \cup {None}]
  BY DEF TablesOK
<1>3. CASE domains[d] = None \/ domains[d].registrarId = Admin
  <2>1. domains' = domains
    BY <1>3 DEF ReclaimDomain
  <2>2. TablesOK' /\ TablesKept
    BY <1>1, <2>1, SameKept DEF TablesOK, TablesKept, Advance
  <2>3. IsDone(Do("sponsor", d))'
    BY <1>3, <2>1 DEF IsDone, Do
  <2>4. QED
    BY <1>1, <2>2, <2>3 DEF SeedEffect, Advance
<1>4. CASE domains[d] # None /\ domains[d].registrarId # Admin
  <2> DEFINE old == domains[d]
             statuses == NormalizeObjectStatuses(old.statuses \ {"pendingTransfer"})
             row == [old EXCEPT !.registrarId = Admin, !.statuses = statuses, !.requestedBy = None]
  <2>1. old \in DomainRow
    BY <1>2, <1>4
  <2>2. domains' = [domains EXCEPT ![d] = row]
    BY <1>2, <1>4 DEF ReclaimDomain
  <2>3. /\ statuses \in (SUBSET ObjectStatuses) \ {{}}
        /\ \A s \in SeededStatuses : s \in statuses <=> s \in old.statuses
    BY <2>1, DomainRowFacts, NormalizeFacts, SeededStatusesFacts
  <2> HIDE DEF old, statuses
  <2>4. /\ row \in DomainRow /\ row.registrarId = Admin /\ row.nameservers = old.nameservers
        /\ row.statuses = statuses /\ row.dsRecords = old.dsRecords
    BY <2>1, <2>3, AdminAssumption DEF DomainRow
  <2> HIDE DEF row
  <2>5. DomainKept(old, row)
    BY <2>3, <2>4, DomainRowFacts DEF DomainKept
  <2>6. TablesOK' /\ TablesKept /\ domains'[d] = row
    BY <1>1, <2>2, <2>4, <2>5, DomainEffect DEF DomainSet, old
  <2>7. IsDone(Do("sponsor", d))'
    BY <2>4, <2>6 DEF IsDone, Do
  <2>8. QED
    BY <1>1, <2>6, <2>7 DEF SeedEffect, Advance
<1>5. QED
  BY <1>3, <1>4

LEMMA RegisterEffect ==
  ASSUME TablesOK, NEW d \in Defaults, EnsureRegistered(d)
  PROVE  SeedEffect
<1>1. Head(job) = Do("register", d) /\ Advance /\ UNCHANGED <<hosts, contacts>>
  BY DEF EnsureRegistered, IsNext, Do
<1>2. CASE domains[d] # None
  <2>1. domains' = domains
    BY <1>2 DEF EnsureRegistered
  <2>2. TablesOK' /\ TablesKept
    BY <1>1, <2>1, SameKept DEF TablesOK, TablesKept, Advance
  <2>3. IsDone(Do("register", d))'
    BY <1>2, <2>1 DEF IsDone, Do
  <2>4. QED
    BY <1>1, <2>2, <2>3 DEF SeedEffect, Advance
<1>3. CASE domains[d] = None
  <2> DEFINE row == FreshRow(Admin, {}, TRUE)
  <2>1. row \in DomainRow /\ row.registrarId = Admin
    BY AdminAssumption, FreshRowFacts
  <2>2. domains' = [domains EXCEPT ![d] = row]
    BY <1>3 DEF EnsureRegistered
  <2> HIDE DEF row
  <2>3. DomainKept(domains[d], row)
    BY <1>3, <2>1 DEF DomainKept
  <2>4. TablesOK' /\ TablesKept /\ domains'[d] = row
    BY <1>1, <2>1, <2>2, <2>3, DomainEffect DEF DomainSet
  <2>5. IsDone(Do("register", d))'
    BY <2>1, <2>4, DomainRowFacts DEF IsDone, Do
  <2>6. QED
    BY <1>1, <2>4, <2>5 DEF SeedEffect, Advance
<1>4. QED
  BY <1>2, <1>3

LEMMA CompleteEffect ==
  ASSUME TablesOK, NEW d \in Defaults, CompleteDomain(d), domains[d] # None
  PROVE  SeedEffect
<1>1. Head(job) = Do("complete", d) /\ Advance /\ UNCHANGED <<hosts, contacts>>
  BY DEF CompleteDomain, IsNext, Do
<1>2. domains \in [Defaults -> DomainRow \cup {None}]
  BY DEF TablesOK
<1>3. CASE LacksNothing(d)
  <2>1. domains' = domains
    BY <1>3 DEF CompleteDomain
  <2>2. TablesOK' /\ TablesKept
    BY <1>1, <2>1, SameKept DEF TablesOK, TablesKept, Advance
  <2>3. IsDone(Do("complete", d))'
    BY <1>3, <2>1 DEF IsDone, Do, LacksNothing, NameserversToAdd, StatusesToAdd
  <2>4. QED
    BY <1>1, <2>2, <2>3 DEF SeedEffect, Advance
<1>4. CASE ~LacksNothing(d)
  <2> DEFINE old == domains[d]
             statuses == NormalizeObjectStatuses((old.statuses \ {}) \cup StatusesToAdd(d))
             nss == (old.nameservers \ {}) \cup NameserversToAdd(d)
             row == [old EXCEPT !.statuses = statuses, !.nameservers = nss, !.dsRecords = TRUE]
  <2>1. old \in DomainRow
    BY <1>2
  <2>2. domains' = [domains EXCEPT ![d] = row]
    BY <1>4 DEF CompleteDomain, NewDomainRow
  <2>3. StatusesToAdd(d) = SeededStatuses \ old.statuses
        /\ NameserversToAdd(d) = Range(Roles) \ old.nameservers
    BY DEF StatusesToAdd, NameserversToAdd
  <2>4. statuses \in (SUBSET ObjectStatuses) \ {{}} /\ SeededStatuses \subseteq statuses
    BY <2>1, <2>3, DomainRowFacts, NormalizeFacts, SeededStatusesFacts
  <2>5. nss = Range(Roles)
    BY <2>1, <2>3, DomainRowFacts
  <2> HIDE DEF old, statuses, nss
  <2>6. /\ row \in DomainRow /\ row.registrarId = old.registrarId /\ row.nameservers = nss
        /\ row.statuses = statuses /\ row.dsRecords = TRUE
    BY <2>1, <2>4, <2>5 DEF DomainRow
  <2> HIDE DEF row
  <2>7. DomainKept(old, row)
    BY <2>1, <2>4, <2>5, <2>6, DomainRowFacts DEF DomainKept
  <2>8. TablesOK' /\ TablesKept /\ domains'[d] = row
    BY <1>1, <2>2, <2>6, <2>7, DomainEffect DEF DomainSet, old
  <2>9. domains'[d] # None /\ LacksNothing(d)'
    BY <2>4, <2>5, <2>6, <2>8, DomainRowFacts DEF LacksNothing, NameserversToAdd, StatusesToAdd
  <2>10. IsDone(Do("complete", d))'
    BY <2>9 DEF IsDone, Do
  <2>11. QED
    BY <1>1, <2>8, <2>10 DEF SeedEffect, Advance
<1>5. QED
  BY <1>3, <1>4

LEMMA HostEffect ==
  ASSUME TablesOK, NEW h \in Hosts, NEW row \in HostRow \cup {None}, HostSet(h, row),
         row # None => row.addresses \subseteq Usable,
         HostKept(hosts[h], row), Advance, UNCHANGED <<domains, contacts>>
  PROVE  TablesOK' /\ TablesKept /\ hosts'[h] = row
<1>1. config' = config
  BY DEF Advance
<1>2. TablesOK' /\ hosts'[h] = row /\ \A g \in Hosts \ {h} : hosts'[g] = hosts[g]
  BY <1>1, HostSetTyped
<1>3. QED
  BY <1>2, SameKept DEF TablesKept

LEMMA ReclaimHostEffect ==
  ASSUME TablesOK, NEW h \in Hosts, ReclaimHost(h)
  PROVE  SeedEffect
<1>1. Head(job) = Do("hostSponsor", h) /\ Advance /\ UNCHANGED <<domains, contacts>>
  BY DEF ReclaimHost, IsNext, Do
<1>2. CASE hosts[h] = None
  <2>1. hosts' = hosts
    BY <1>2 DEF ReclaimHost
  <2>2. TablesOK' /\ TablesKept
    BY <1>1, <2>1, SameKept DEF TablesOK, TablesKept, Advance
  <2>3. IsDone(Do("hostSponsor", h))'
    BY <1>2, <2>1 DEF IsDone, Do
  <2>4. QED
    BY <1>1, <2>2, <2>3 DEF SeedEffect, Advance
<1>3. CASE hosts[h] # None
  <2> DEFINE old == hosts[h]
             row == [old EXCEPT !.registrarId = Admin]
  <2>1. old \in HostRow /\ old.addresses \subseteq Usable
    BY <1>3 DEF TablesOK
  <2>2. hosts' = [hosts EXCEPT ![h] = row]
    BY <1>3 DEF ReclaimHost, TablesOK
  <2> HIDE DEF old
  <2>3. row \in HostRow /\ row.registrarId = Admin /\ row.addresses = old.addresses
    BY <2>1, AdminAssumption DEF HostRow
  <2> HIDE DEF row
  <2>4. HostKept(old, row)
    BY <2>3, HostRowFacts DEF HostKept
  <2>5. TablesOK' /\ TablesKept /\ hosts'[h] = row
    BY <1>1, <2>1, <2>2, <2>3, <2>4, HostEffect DEF HostSet, old
  <2>6. IsDone(Do("hostSponsor", h))'
    BY <2>3, <2>5 DEF IsDone, Do
  <2>7. QED
    BY <1>1, <2>5, <2>6 DEF SeedEffect, Advance
<1>4. QED
  BY <1>2, <1>3

LEMMA EnsureHostEffect ==
  ASSUME TablesOK, NEW h \in Hosts, EnsureHost(h)
  PROVE  SeedEffect
<1>1. Head(job) = Do("host", h) /\ Advance /\ UNCHANGED <<domains, contacts>> /\ MayEnsureHost(h)
  BY DEF EnsureHost, IsNext, Do
<1>2. ASSUME NEW row \in HostRow, HostSet(h, row), row.addresses = {config}, config \in Usable,
             HostKept(hosts[h], row)
      PROVE  SeedEffect
  <2>1. TablesOK' /\ TablesKept /\ hosts'[h] = row
    BY <1>1, <1>2, HostEffect
  <2>2. IsDone(Do("host", h))'
    BY <1>1, <1>2, <2>1, HostRowFacts DEF IsDone, Do, HasConfiguredGlue, Advance
  <2>3. QED
    BY <1>1, <2>1, <2>2 DEF SeedEffect, Advance
<1>3. CASE hosts[h] = None
  <2> DEFINE row == FreshHost(Admin, {config})
  <2>1. config \in Usable
    BY <1>1, <1>3 DEF MayEnsureHost, MayCreateHost
  <2>2. row \in HostRow /\ row.registrarId = Admin /\ row.addresses = {config}
    BY <2>1, AdminAssumption, FreshHostFacts
  <2>3. HostSet(h, row)
    BY <1>3 DEF EnsureHost, HostSet
  <2> HIDE DEF row
  <2>4. HostKept(hosts[h], row)
    BY <1>3, <2>2 DEF HostKept
  <2>5. QED
    BY <1>2, <2>1, <2>2, <2>3, <2>4
<1>4. CASE hosts[h] # None
  <2> DEFINE old == hosts[h]
             row == [old EXCEPT !.addresses = {config}]
  <2>1. old \in HostRow /\ old.addresses \subseteq Usable
    BY <1>4 DEF TablesOK
  <2>2. config \in Usable
    BY <1>1, <1>4, <2>1 DEF MayEnsureHost, HasConfiguredGlue, MayUpdateHost, GlueToAdd
  <2>3. HostSet(h, row)
    BY <1>4 DEF EnsureHost, HostSet, TablesOK
  <2> HIDE DEF old
  <2>4. row \in HostRow /\ row.registrarId = old.registrarId /\ row.addresses = {config}
    BY <2>1, <2>2, GlueAssumption DEF HostRow
  <2> HIDE DEF row
  <2>5. HostKept(old, row)
    BY <2>1, <2>4, HostRowFacts DEF HostKept
  <2>6. QED
    BY <1>2, <2>2, <2>3, <2>4, <2>5 DEF old
<1>5. QED
  BY <1>3, <1>4
-------------------------------------------------------------------------------
(* The statements that are left.                                           *)

LEMMA HeadFacts ==
  ASSUME NEW done, NEW q, Runs(q, done), q # <<>>
  PROVE  /\ Head(q) \in Statements /\ Head(q) = q[1] /\ 1 \in 1..Len(q)
         /\ Tail(q) \in Seq(Statements) /\ Len(Tail(q)) = Len(q) - 1 /\ Len(q) \in Nat
         /\ \A i \in 1..Len(Tail(q)) : Tail(q)[i] = q[i + 1]
<1>1. q \in Seq(Statements)
  BY DEF Runs
<1>2. QED
  BY <1>1

\* What the next statement relies on is done.
LEMMA HeadRelies ==
  ASSUME NEW done, NEW q, Runs(q, done), q # <<>>, NEW a \in Statements, Needs(Head(q), a)
  PROVE  a \in done
<1>1. a \in done \/ \E j \in 1..(1 - 1) : q[j] = a
  BY HeadFacts DEF Runs, Covered
<1>2. QED
  BY <1>1

\* Once the next statement is done, the others still do all that is not done.
LEMMA TailRuns ==
  ASSUME NEW done, NEW more, NEW q, Runs(q, done), q # <<>>,
         done \subseteq more, Head(q) \in more
  PROVE  Runs(Tail(q), more)
<1> DEFINE p == Tail(q)
<1>1. /\ q[1] \in more /\ p \in Seq(Statements) /\ Len(p) = Len(q) - 1 /\ Len(q) \in Nat
      /\ \A i \in 1..Len(p) : p[i] = q[i + 1]
  BY HeadFacts
<1> HIDE DEF p
<1>2. Covered(q, done) /\ \A t \in Statements : t \in done \/ Occurs(q, t)
  BY DEF Runs
<1>3. ASSUME NEW i \in 1..Len(p), NEW a \in Statements, Needs(p[i], a), a \notin more
      PROVE  \E j \in 1..(i - 1) : p[j] = a
  <2>1. i + 1 \in 1..Len(q) /\ Needs(q[i + 1], a)
    BY <1>1, <1>3
  <2>2. PICK j \in 1..((i + 1) - 1) : q[j] = a
    BY <1>2, <1>3, <2>1 DEF Covered
  <2>3. j # 1
    BY <1>1, <1>3, <2>2
  <2>4. j - 1 \in 1..(i - 1) /\ j - 1 \in 1..Len(p) /\ (j - 1) + 1 = j
    BY <1>1, <2>2, <2>3
  <2>5. p[j - 1] = a
    BY <1>1, <2>2, <2>4
  <2>6. QED
    BY <2>4, <2>5
<1>4. ASSUME NEW t \in Statements, t \notin more
      PROVE  Occurs(p, t)
  <2>1. PICK j \in 1..Len(q) : q[j] = t
    BY <1>2, <1>4 DEF Occurs
  <2>2. j # 1
    BY <1>1, <1>4, <2>1
  <2>3. j - 1 \in 1..Len(p) /\ (j - 1) + 1 = j
    BY <1>1, <2>1, <2>2
  <2>4. p[j - 1] = t
    BY <1>1, <2>1, <2>3
  <2>5. QED
    BY <2>3, <2>4 DEF Occurs
<1>5. QED
  BY <1>1, <1>3, <1>4 DEF p, Runs, Covered

\* A request that saves the glue seeds when it is saved.
LEMMA SaveFacts ==
  ASSUME NEW g, job = <<Do("save", g)>> \o SeedingWork
  PROVE  Head(job) = Do("save", g) /\ Tail(job) = SeedingWork
<1> DEFINE first == Do("save", g)
           S == Statements \cup {first}
<1>1. SeedingWork \in Seq(S) /\ first \in S
  BY SeedingWorkFacts
<1>2. job = <<first>> \o SeedingWork
  OBVIOUS
<1> HIDE DEF first, S
<1>3. Head(job) = first /\ Tail(job) = SeedingWork
  BY <1>1, <1>2
<1>4. QED
  BY <1>3 DEF first

LEMMA SeedStepHead ==
  ASSUME SeedStep
  PROVE  IsSeeding /\ Head(job).task # "save"
<1>1. ASSUME NEW task \in Tasks, NEW of, IsNext(task, of)
      PROVE  IsSeeding /\ Head(job).task # "save"
  BY <1>1 DEF IsNext, Tasks
<1>2. \E task \in Tasks : \E of : IsNext(task, of)
  BY DEF SeedStep, EnsureContact, ReclaimDomain, EnsureRegistered, CompleteDomain, ReclaimHost,
         EnsureHost, Tasks
<1>3. QED
  BY <1>1, <1>2

\* A statement can only be next where the others do the rest.
LEMMA NextRuns ==
  ASSUME JobOK, IsSeeding, Head(job).task # "save"
  PROVE  Runs(job, DoneStatements) /\ job # <<>>
<1>1. ASSUME NEW g \in Glue, job = <<Do("save", g)>> \o SeedingWork
      PROVE  FALSE
  <2>1. Head(job) = Do("save", g)
    BY <1>1, SaveFacts
  <2>2. QED
    BY <2>1 DEF Do
<1>2. QED
  BY <1>1 DEF JobOK

LEMMA StepRuns ==
  ASSUME TablesOK, JobOK, SeedStep
  PROVE  SeedEffect /\ Runs(job, DoneStatements) /\ Runs(Tail(job), DoneStatements')
<1>1. IsSeeding /\ Head(job).task # "save"
  BY SeedStepHead
<1>2. Runs(job, DoneStatements) /\ job # <<>>
  BY <1>1, NextRuns
<1>3. SeedEffect
  <2>1. ASSUME NEW d \in Defaults, CompleteDomain(d)
        PROVE  SeedEffect
    <3>1. Head(job) = Do("complete", d)
      BY <2>1 DEF CompleteDomain, IsNext, Do
    <3>2. Do("register", d) \in DoneStatements
      BY <1>2, <3>1, StatementFacts, HeadRelies DEF Needs
    <3>3. domains[d] # None
      BY <3>2 DEF DoneStatements, IsDone, Do
    <3>4. QED
      BY <2>1, <3>3, CompleteEffect
  <2>2. QED
    BY <2>1, ContactEffect, ReclaimDomainEffect, RegisterEffect, ReclaimHostEffect,
       EnsureHostEffect DEF SeedStep
<1>4. DoneStatements \subseteq DoneStatements'
  BY <1>3, DoneStays DEF SeedEffect, Advance, DoneStatements
<1>5. Head(job) \in Statements
  BY <1>2, HeadFacts
<1>6. ASSUME NEW t \in Statements, t = Head(job)
      PROVE  t \in DoneStatements'
  BY <1>3, <1>6 DEF SeedEffect, DoneStatements
<1>7. Runs(Tail(job), DoneStatements')
  <2> DEFINE q == job
             done == DoneStatements
             more == DoneStatements'
  <2>1. Runs(q, done) /\ q # <<>> /\ done \subseteq more /\ Head(q) \in more
    BY <1>2, <1>4, <1>5, <1>6
  <2> HIDE DEF q, done, more
  <2>2. Runs(Tail(q), more)
    BY <2>1, TailRuns
  <2>3. QED
    BY <2>2 DEF q, more
<1>8. QED
  BY <1>2, <1>3, <1>7

\* When everything is done, every default domain is complete.
LEMMA DoneComplete ==
  ASSUME \A t \in Statements : t \in DoneStatements'
  PROVE  AllComplete'
<1> SUFFICES ASSUME NEW d \in Defaults PROVE IsComplete(d)'
  BY DEF AllComplete
<1>1. \A t \in Statements : IsDone(t)'
  BY DEF DoneStatements
<1>2. /\ IsDone(Do("sponsor", d))' /\ IsDone(Do("register", d))' /\ IsDone(Do("complete", d))'
      /\ \A role \in Range(Roles) : /\ IsDone(Do("hostSponsor", <<d, role>>))'
                                    /\ IsDone(Do("host", <<d, role>>))'
  BY <1>1, StatementFacts
<1>3. /\ domains'[d] # None /\ domains'[d].registrarId = Admin /\ LacksNothing(d)'
      /\ \A role \in Range(Roles) :
           HasConfiguredGlue(<<d, role>>)' /\ hosts'[<<d, role>>].registrarId = Admin
  BY <1>2 DEF IsDone, Do, HasConfiguredGlue
<1>4. /\ SeededStatuses \subseteq domains'[d].statuses /\ domains'[d].dsRecords
      /\ Range(Roles) \subseteq domains'[d].nameservers
  BY <1>3 DEF LacksNothing, NameserversToAdd, StatusesToAdd
<1>5. QED
  BY <1>3, <1>4 DEF IsComplete, IsSponsorOf, HasSeededHost

LEMMA SeedStepInv ==
  ASSUME IInv, SeedStep
  PROVE  IInv' /\ (seeded' => AllComplete')
<1>1. /\ SeedEffect /\ Runs(job, DoneStatements) /\ Runs(Tail(job), DoneStatements')
      /\ IsSeeding
  BY StepRuns, SeedStepHead DEF IInv
<1>2. /\ TablesOK' /\ job' = Tail(job)
      /\ phase' = IF Len(job) = 1 THEN "up" ELSE phase
      /\ seeded' = (Len(job) = 1)
  BY <1>1 DEF SeedEffect, Advance
<1>3. /\ Len(Tail(job)) = Len(job) - 1 /\ Len(job) \in Nat /\ Tail(job) \in Seq(Statements)
  BY <1>1, HeadFacts DEF JobOK, IInv
<1>4. JobOK'
  <2>1. ASSUME IsSeeding'
        PROVE  Len(job) # 1
    <3>1. (Len(job) = 1) => phase' = "up"
      BY <1>2
    <3>2. QED
      BY <2>1, <3>1 DEF IsSeeding
  <2>2. ASSUME Len(job) # 1
        PROVE  Tail(job) # <<>>
    <3>1. Len(Tail(job)) # 0 /\ Len(<<>>) = 0
      BY <1>3, <2>2
    <3>2. QED
      BY <3>1, Zenon
  <2>3. Runs(job', DoneStatements') /\ (IsSeeding' => job' # <<>>)
    BY <1>1, <1>2, <2>1, <2>2
  <2>4. Runs(job, DoneStatements)'
    BY <2>3 DEF Runs, Covered, Occurs
  <2>5. QED
    BY <2>3, <2>4 DEF JobOK
<1>5. ASSUME seeded'
      PROVE  AllComplete'
  <2>1. Len(Tail(job)) = 0
    <3>1. Len(job) = 1
      BY <1>2, <1>5, Zenon
    <3>2. QED
      BY <1>3, <3>1
  <2>2. \A t \in Statements : ~Occurs(Tail(job), t)
    BY <2>1 DEF Occurs
  <2>3. \A t \in Statements : t \in DoneStatements'
    BY <1>1, <2>2 DEF Runs
  <2>4. QED
    BY <2>3, DoneComplete
<1>6. SeededOK'
  <2>1. ASSUME seeded'
        PROVE  phase' = "up" /\ \A d \in Defaults : IsProtected(d)'
    <3>1. AllComplete' /\ phase' = "up"
      BY <1>2, <1>5, <2>1
    <3>2. QED
      BY <3>1 DEF AllComplete, IsComplete, IsSponsorOf, IsProtected
  <2>2. QED
    BY <2>1 DEF SeededOK
<1>7. QED
  BY <1>2, <1>4, <1>5, <1>6 DEF IInv

-------------------------------------------------------------------------------
(* When a seeding throws.                                                  *)

LEMMA HostThrows ==
  ASSUME IInv, NEW h \in Hosts, IsNext("host", h), ~MayEnsureHost(h)
  PROVE  SeedingIsBlocked
<1>1. PICK d \in Defaults, role \in Range(Roles) : h = <<d, role>>
  BY DEF Hosts
<1>2. Head(job) = Do("host", <<d, role>>) /\ IsSeeding /\ Head(job).task # "save"
  BY <1>1 DEF IsNext, Do
<1>3. Runs(job, DoneStatements) /\ job # <<>>
  BY <1>2, NextRuns DEF IInv
<1>4. /\ Do("sponsor", d) \in DoneStatements /\ Do("register", d) \in DoneStatements
      /\ Do("hostSponsor", h) \in DoneStatements
  BY <1>1, <1>2, <1>3, StatementFacts, HeadRelies DEF Needs
<1>5. /\ domains[d] # None /\ domains[d].registrarId = Admin
      /\ hosts[h] # None => hosts[h].registrarId = Admin
  BY <1>4 DEF DoneStatements, IsDone, Do
<1>6. CASE config \notin Usable
  BY <1>6 DEF SeedingIsBlocked
<1>7. CASE config \in Usable /\ hosts[h] = None
  <2>1. MayCreateHost(h, Admin, {config})
    BY <1>1, <1>5, <1>7 DEF MayCreateHost, IsSponsorOf
  <2>2. QED
    BY <1>7, <2>1 DEF MayEnsureHost
<1>8. CASE config \in Usable /\ hosts[h] # None
  <2>1. hosts[h] \in HostRow /\ hosts[h].addresses \subseteq Usable
    BY <1>8 DEF IInv, TablesOK
  <2>2. ~HasConfiguredGlue(h) /\ ~MayUpdateHost(h, Admin, {}, {}, GlueToAdd(h), GlueToRemove(h))
    BY <1>8 DEF MayEnsureHost
  <2>3. GlueToAdd(h) \cup GlueToRemove(h) \subseteq Usable
    BY <1>8, <2>1 DEF GlueToAdd, GlueToRemove
  <2>4. \A a \in GlueToRemove(h) : \E b \in hosts[h].addresses : AddressKey[a] = AddressKey[b]
    BY DEF GlueToRemove
  <2>5. IsStatusDelta(hosts[h].statuses, {}, {})
    BY DEF IsStatusDelta
  <2>6. \/ ~CanUpdate(hosts[h].statuses, {}, {}, GlueToAdd(h) \cup GlueToRemove(h) # {})
        \/ \E a \in GlueToAdd(h) : \E b \in hosts[h].addresses : AddressKey[a] = AddressKey[b]
    BY <1>5, <1>8, <2>2, <2>3, <2>4, <2>5 DEF MayUpdateHost
  <2>7. IsBlocked(hosts[h].statuses) \/ IsRespelled(h)
    BY <2>6 DEF CanUpdate, IsBlocked, IsRespelled, GlueToAdd
  <2>8. QED
    BY <1>8, <2>7 DEF SeedingIsBlocked
<1>9. QED
  BY <1>6, <1>7, <1>8

LEMMA CompleteThrows ==
  ASSUME IInv, NEW d \in Defaults, IsNext("complete", d), ~MayComplete(d)
  PROVE  SeedingIsBlocked
<1>1. Head(job) = Do("complete", d) /\ IsSeeding /\ Head(job).task # "save"
  BY DEF IsNext, Do
<1>2. Runs(job, DoneStatements) /\ job # <<>>
  BY <1>1, NextRuns DEF IInv
<1>3. /\ Do("sponsor", d) \in DoneStatements /\ Do("register", d) \in DoneStatements
      /\ \A role \in Range(Roles) : Do("host", <<d, role>>) \in DoneStatements
  BY <1>1, <1>2, StatementFacts, HeadRelies DEF Needs
<1>4. /\ domains[d] # None /\ domains[d].registrarId = Admin
      /\ \A role \in Range(Roles) : hosts[<<d, role>>] # None
  BY <1>3 DEF DoneStatements, IsDone, Do, HasConfiguredGlue
<1>5. /\ NameserversToAdd(d) \subseteq Range(Roles)
      /\ NameserversToAdd(d) \cap domains[d].nameservers = {}
      /\ IsStatusDelta(domains[d].statuses, StatusesToAdd(d), {})
  BY DEF NameserversToAdd, StatusesToAdd, IsStatusDelta
<1>6. ~CanUpdate(domains[d].statuses, StatusesToAdd(d), {},
                 ~domains[d].dsRecords \/ NameserversToAdd(d) \cup {} # {})
  BY <1>4, <1>5 DEF MayComplete, MayUpdateDomain, IsSponsorOf
<1>7. IsBlocked(domains[d].statuses)
  BY <1>6 DEF CanUpdate, IsBlocked
<1>8. QED
  BY <1>4, <1>7 DEF SeedingIsBlocked

LEMMA ThrowsBlocked ==
  ASSUME IInv, SeedThrows
  PROVE  SeedingIsBlocked
BY HostThrows, CompleteThrows DEF SeedThrows
-------------------------------------------------------------------------------
(* Commands.                                                               *)

\* A command that changes the row of a protected domain.
RowStays(old, new) ==
  /\ new # None
  /\ SeededStatuses \subseteq new.statuses
  /\ new.requestedBy \in {old.requestedBy, Admin}
  /\ new.registrarId \in {Admin, old.registrarId, old.requestedBy}
  /\ new.registrarId = Admin \/ new.requestedBy # None

\* The table of domains, and what SeededDefaultsStay says of a step.
CommandEffect ==
  /\ TablesOK'
  /\ \A d \in Defaults : IsProtected(d) => SeededStep(d) /\ IsProtected(d)'

LEMMA SameRowStays ==
  ASSUME NEW d, IsProtected(d), domains'[d] = domains[d]
  PROVE  SeededStep(d) /\ IsProtected(d)'
BY DEF IsProtected, SeededStep

LEMMA QuietEffect ==
  ASSUME TablesOK', domains' = domains
  PROVE  CommandEffect
BY SameRowStays DEF CommandEffect

LEMMA RowEffect ==
  ASSUME TablesOK, NEW d \in Defaults, NEW row \in DomainRow \cup {None}, DomainSet(d, row),
         IsProtected(d) => RowStays(domains[d], row), DomainCommand
  PROVE  CommandEffect
<1>1. /\ UNCHANGED hosts /\ config' \in Glue \cup {Torn}
  BY DEF DomainCommand, OneCommand, TablesOK
<1>2. TablesOK' /\ domains'[d] = row /\ \A e \in Defaults \ {d} : domains'[e] = domains[e]
  BY <1>1, DomainSetTyped
<1>3. ASSUME IsProtected(d)
      PROVE  SeededStep(d) /\ IsProtected(d)'
  BY <1>2, <1>3 DEF RowStays, IsProtected, SeededStep
<1>4. ASSUME NEW e \in Defaults \ {d}, IsProtected(e)
      PROVE  SeededStep(e) /\ IsProtected(e)'
  BY <1>2, <1>4, SameRowStays
<1>5. QED
  BY <1>2, <1>3, <1>4 DEF CommandEffect

LEMMA CreateEffect ==
  ASSUME TablesOK, NEW d \in Defaults, NEW r \in Registrars, NEW nss \in SUBSET Range(Roles),
         DomainCreate(d, r, nss)
  PROVE  CommandEffect
<1>1. /\ domains[d] = None /\ DomainSet(d, FreshRow(r, nss, FALSE)) /\ DomainCommand
  BY DEF DomainCreate, DomainSet
<1>2. FreshRow(r, nss, FALSE) \in DomainRow
  BY FreshRowFacts
<1>3. ~IsProtected(d)
  BY <1>1 DEF IsProtected
<1>4. QED
  BY <1>1, <1>2, <1>3, RowEffect

LEMMA UpdateEffect ==
  ASSUME TablesOK, NEW d \in Defaults, NEW r \in Registrars,
         NEW add \in SUBSET ClientStatuses, NEW rem \in SUBSET ClientStatuses,
         NEW addN \in SUBSET Range(Roles), NEW remN \in SUBSET Range(Roles), NEW ds \in BOOLEAN,
         DomainUpdate(d, r, add, rem, addN, remN, ds)
  PROVE  CommandEffect
<1> DEFINE old == domains[d]
           statuses == NormalizeObjectStatuses((old.statuses \ rem) \cup add)
           nss == (old.nameservers \ remN) \cup addN
           row == [old EXCEPT !.statuses = statuses, !.nameservers = nss, !.dsRecords = ds]
<1>1. domains[d] # None /\ DomainSet(d, row) /\ DomainCommand
  BY DEF DomainUpdate, DomainSet, NewDomainRow
<1>2. old \in DomainRow
  BY <1>1 DEF TablesOK
<1>3. /\ statuses \in (SUBSET ObjectStatuses) \ {{}}
      /\ \A s \in SeededStatuses : s \in old.statuses => s \in statuses
  <2>1. (old.statuses \ rem) \cup add \in SUBSET ObjectStatuses
    BY <1>2, DomainRowFacts, SeededStatusesFacts
  <2>2. QED
    BY <2>1, NormalizeFacts, SeededStatusesFacts
<1>4. nss \in SUBSET Range(Roles)
  BY <1>2, DomainRowFacts
<1> HIDE DEF old, statuses, nss
<1>5. /\ row \in DomainRow /\ row.statuses = statuses /\ row.registrarId = old.registrarId
      /\ row.requestedBy = old.requestedBy
  BY <1>2, <1>3, <1>4 DEF DomainRow
<1> HIDE DEF row
<1>6. ASSUME IsProtected(d)
      PROVE  RowStays(old, row)
  BY <1>3, <1>5, <1>6, DomainRowFacts DEF RowStays, IsProtected, old
<1>7. QED
  BY <1>1, <1>5, <1>6, RowEffect DEF old

\* A protected domain is not deleted.
LEMMA DeleteEffect ==
  ASSUME TablesOK, NEW d \in Defaults, NEW r \in Registrars, NEW inGrace \in BOOLEAN,
         DomainDelete(d, r, inGrace)
  PROVE  CommandEffect
<1>1. domains[d] # None /\ CanDelete(domains[d].statuses) /\ DomainCommand
  BY DEF DomainDelete, IsSponsorOf
<1>2. ~IsProtected(d)
  BY <1>1 DEF IsProtected, CanDelete, HasAnyStatus, SeededStatuses, DELETE_PROHIBITED
<1> DEFINE old == domains[d]
           statuses == NormalizeObjectStatuses(old.statuses \cup {"pendingDelete"})
           row == IF inGrace THEN None ELSE [old EXCEPT !.statuses = statuses]
<1>3. DomainSet(d, row)
  BY <1>1 DEF DomainDelete, DomainSet, TablesOK
<1>4. old \in DomainRow
  BY <1>1 DEF TablesOK
<1>5. statuses \in (SUBSET ObjectStatuses) \ {{}}
  <2>1. old.statuses \cup {"pendingDelete"} \in SUBSET ObjectStatuses
    BY <1>4, DomainRowFacts, SeededStatusesFacts
  <2>2. QED
    BY <2>1, NormalizeFacts
<1> HIDE DEF old, statuses
<1>6. row \in DomainRow \cup {None}
  BY <1>4, <1>5 DEF DomainRow
<1> HIDE DEF row
<1>7. QED
  BY <1>1, <1>2, <1>3, <1>6, RowEffect

LEMMA RestoreEffect ==
  ASSUME TablesOK, NEW d \in Defaults, NEW r \in Registrars, DomainRestore(d, r)
  PROVE  CommandEffect
<1> DEFINE old == domains[d]
           statuses == NormalizeObjectStatuses(old.statuses \ {"pendingDelete"})
           row == [old EXCEPT !.statuses = statuses]
<1>1. domains[d] # None /\ DomainCommand
  BY DEF DomainRestore, IsSponsorOf
<1>2. DomainSet(d, row)
  BY <1>1 DEF DomainRestore, DomainSet, TablesOK
<1>3. old \in DomainRow
  BY <1>1 DEF TablesOK
<1>4. /\ statuses \in (SUBSET ObjectStatuses) \ {{}}
      /\ \A s \in SeededStatuses : s \in old.statuses => s \in statuses
  <2>1. old.statuses \ {"pendingDelete"} \in SUBSET ObjectStatuses
    BY <1>3, DomainRowFacts
  <2>2. QED
    BY <2>1, NormalizeFacts, SeededStatusesFacts
<1> HIDE DEF old, statuses
<1>5. /\ row \in DomainRow /\ row.statuses = statuses /\ row.registrarId = old.registrarId
      /\ row.requestedBy = old.requestedBy
  BY <1>3, <1>4 DEF DomainRow
<1> HIDE DEF row
<1>6. ASSUME IsProtected(d)
      PROVE  RowStays(old, row)
  BY <1>4, <1>5, <1>6, DomainRowFacts DEF RowStays, IsProtected, old
<1>7. QED
  BY <1>1, <1>2, <1>5, <1>6, RowEffect DEF old

\* A transfer of a protected domain is not requested.
LEMMA TransferRequestEffect ==
  ASSUME TablesOK, NEW d \in Defaults, NEW r \in Registrars, TransferRequest(d, r)
  PROVE  CommandEffect
<1>1. domains[d] # None /\ CanTransferRequest(domains[d].statuses) /\ DomainCommand
  BY DEF TransferRequest
<1>2. ~IsProtected(d)
  BY <1>1 DEF IsProtected, CanTransferRequest, HasAnyStatus, SeededStatuses, TRANSFER_PROHIBITED
<1> DEFINE old == domains[d]
           statuses == NormalizeObjectStatuses(old.statuses \cup {"pendingTransfer"})
           requester == Requester(d, r)
           row == [old EXCEPT !.statuses = statuses, !.requestedBy = requester]
<1>3. DomainSet(d, row)
  BY <1>1 DEF TransferRequest, DomainSet, TablesOK
<1>4. old \in DomainRow
  BY <1>1 DEF TablesOK
<1>5. statuses \in (SUBSET ObjectStatuses) \ {{}} /\ requester \in Registrars
  <2>1. old.statuses \cup {"pendingTransfer"} \in SUBSET ObjectStatuses
    BY <1>4, DomainRowFacts, SeededStatusesFacts
  <2>2. requester \in Registrars
    BY <1>4, DomainRowFacts DEF Requester
  <2>3. QED
    BY <2>1, <2>2, NormalizeFacts
<1> HIDE DEF old, statuses, requester
<1>6. row \in DomainRow
  BY <1>4, <1>5 DEF DomainRow
<1> HIDE DEF row
<1>7. QED
  BY <1>1, <1>2, <1>3, <1>6, RowEffect

\* A transfer that ends on a protected domain was requested before, or it is
\* the registry that ends it.
LEMMA TransferEndEffect ==
  ASSUME TablesOK, NEW d \in Defaults, NEW r \in Registrars, NEW approved \in BOOLEAN,
         TransferEnd(d, r, approved)
  PROVE  CommandEffect
<1> DEFINE old == domains[d]
           statuses == NormalizeObjectStatuses(old.statuses \ {"pendingTransfer"})
           requester == Requester(d, r)
           sponsor == IF approved THEN requester ELSE old.registrarId
           row == [old EXCEPT !.statuses = statuses, !.requestedBy = requester,
                              !.registrarId = sponsor]
<1>1. /\ domains[d] # None /\ DomainCommand
      /\ old.registrarId = r \/ old.requestedBy = r
  BY DEF TransferEnd
<1>2. DomainSet(d, row)
  BY <1>1 DEF TransferEnd, DomainSet, TablesOK
<1>3. old \in DomainRow
  BY <1>1 DEF TablesOK
<1>4. /\ statuses \in (SUBSET ObjectStatuses) \ {{}}
      /\ \A s \in SeededStatuses : s \in old.statuses => s \in statuses
  <2>1. old.statuses \ {"pendingTransfer"} \in SUBSET ObjectStatuses
    BY <1>3, DomainRowFacts
  <2>2. QED
    BY <2>1, NormalizeFacts, SeededStatusesFacts
<1>5. /\ requester = IF old.requestedBy = None THEN r ELSE old.requestedBy
      /\ requester \in Registrars /\ requester # None /\ sponsor \in Registrars
  BY <1>3, DomainRowFacts, RowAssumption DEF Requester
<1> HIDE DEF old, statuses, requester
<1>6. /\ row \in DomainRow /\ row.statuses = statuses /\ row.registrarId = sponsor
      /\ row.requestedBy = requester
  BY <1>3, <1>4, <1>5 DEF DomainRow
<1> HIDE DEF row
<1>7. ASSUME IsProtected(d)
      PROVE  RowStays(old, row)
  <2>1. /\ SeededStatuses \subseteq row.statuses /\ row # None
        /\ old.registrarId = Admin \/ old.requestedBy # None
    BY <1>4, <1>6, <1>7, DomainRowFacts DEF IsProtected, old
  <2>2. CASE old.requestedBy = None
    <3>1. requester = Admin
      BY <1>1, <1>5, <2>1, <2>2, RowAssumption
    <3>2. QED
      BY <1>6, <2>1, <3>1, <1>5 DEF RowStays
  <2>3. CASE old.requestedBy # None
    BY <1>5, <1>6, <2>1, <2>3 DEF RowStays
  <2>4. QED
    BY <2>2, <2>3
<1>8. QED
  BY <1>1, <1>2, <1>6, <1>7, RowEffect DEF old

LEMMA HostRowEffect ==
  ASSUME TablesOK, NEW h \in Hosts, NEW row \in HostRow \cup {None}, HostSet(h, row),
         row # None => row.addresses \subseteq Usable, HostCommand
  PROVE  CommandEffect
<1>1. UNCHANGED <<domains, config>>
  BY DEF HostCommand, OneCommand
<1>2. TablesOK'
  BY <1>1, HostSetTyped
<1>3. QED
  BY <1>1, <1>2, QuietEffect

LEMMA HostCommandEffect ==
  ASSUME TablesOK, NEW h \in Hosts, NEW r \in Registrars, HostCommands(h, r)
  PROVE  CommandEffect
<1>1. ASSUME NEW addrs \in SUBSET Usable, HostCreate(h, r, addrs)
      PROVE  CommandEffect
  <2>1. HostSet(h, FreshHost(r, addrs)) /\ HostCommand
    BY <1>1 DEF HostCreate, HostSet
  <2>2. FreshHost(r, addrs) \in HostRow /\ FreshHost(r, addrs).addresses \subseteq Usable
    BY FreshHostFacts
  <2>3. QED
    BY <2>1, <2>2, HostRowEffect
<1>2. ASSUME NEW add \in SUBSET ClientStatuses, NEW rem \in SUBSET ClientStatuses,
             NEW addA \in SUBSET Usable, NEW remA \in SUBSET Usable,
             HostUpdate(h, r, add, rem, addA, remA)
      PROVE  CommandEffect
  <2> DEFINE old == hosts[h]
             statuses == NormalizeObjectStatuses((old.statuses \ rem) \cup add)
             addrs == {a \in old.addresses : \A b \in remA : AddressKey[a] # AddressKey[b]} \cup addA
             row == [old EXCEPT !.statuses = statuses, !.addresses = addrs]
  <2>1. hosts[h] # None /\ HostCommand
    BY <1>2 DEF HostUpdate, MayUpdateHost
  <2>2. HostSet(h, row)
    BY <1>2, <2>1 DEF HostUpdate, HostSet, TablesOK
  <2>3. old \in HostRow /\ old.addresses \subseteq Usable
    BY <2>1 DEF TablesOK
  <2>4. statuses \in (SUBSET ObjectStatuses) \ {{}}
    <3>1. (old.statuses \ rem) \cup add \in SUBSET ObjectStatuses
      BY <2>3, HostRowFacts, SeededStatusesFacts
    <3>2. QED
      BY <3>1, NormalizeFacts
  <2>5. addrs \subseteq Usable /\ addrs \in SUBSET Glue
    BY <2>3, GlueAssumption
  <2> HIDE DEF old, statuses, addrs
  <2>6. row \in HostRow /\ row.addresses = addrs
    BY <2>3, <2>4, <2>5 DEF HostRow
  <2> HIDE DEF row
  <2>7. QED
    BY <2>1, <2>2, <2>5, <2>6, HostRowEffect
<1>3. ASSUME HostDelete(h, r)
      PROVE  CommandEffect
  <2>1. HostSet(h, None) /\ HostCommand
    BY <1>3 DEF HostDelete, HostSet
  <2>2. QED
    BY <2>1, HostRowEffect
<1>4. QED
  BY <1>1, <1>2, <1>3 DEF HostCommands

LEMMA DomainCommandEffect ==
  ASSUME TablesOK, NEW d \in Defaults, NEW r \in Registrars, DomainCommands(d, r)
  PROVE  CommandEffect
BY CreateEffect, UpdateEffect, DeleteEffect, RestoreEffect, TransferRequestEffect,
   TransferEndEffect DEF DomainCommands

LEMMA AnyCommandEffect ==
  ASSUME TablesOK, Command
  PROVE  /\ CommandEffect /\ UNCHANGED <<config, phase, job, seeded>> /\ ~IsSeeding
<1>1. UNCHANGED <<config, phase, job, seeded>>
  <2>1. ASSUME NEW d \in Defaults, NEW r \in Registrars, DomainCommands(d, r)
        PROVE  OneCommand
    BY <2>1, Zenon DEF DomainCommands, DomainCreate, DomainUpdate, DomainDelete,
         DomainRestore, TransferRequest, TransferEnd, DomainCommand
  <2>2. ASSUME NEW h \in Hosts, NEW r \in Registrars, HostCommands(h, r)
        PROVE  OneCommand
    BY <2>2, Zenon DEF HostCommands, HostCreate, HostUpdate, HostDelete, HostCommand
  <2>3. ASSUME NEW d \in Defaults, ContactDelete(d)
        PROVE  OneCommand
    BY <2>3, Zenon DEF ContactDelete
  <2>4. OneCommand
    BY <2>1, <2>2, <2>3, Zenon DEF Command
  <2>5. QED
    BY <2>4 DEF OneCommand
<1>2. ~IsSeeding
  BY DEF Command, Listens, IsSeeding
<1>3. ASSUME NEW d \in Defaults, ContactDelete(d)
      PROVE  CommandEffect
  <2>1. UNCHANGED <<domains, hosts, config>>
    BY <1>1, <1>3 DEF ContactDelete
  <2>2. TablesOK'
    BY <2>1 DEF TablesOK
  <2>3. QED
    BY <2>1, <2>2, QuietEffect
<1>4. QED
  BY <1>1, <1>2, <1>3, DomainCommandEffect, HostCommandEffect DEF Command
-------------------------------------------------------------------------------
(* The life of the process.                                                *)

LEMMA SeedingWorkNotEmpty ==
  SeedingWork # <<>>
<1>1. PICK d \in Defaults : TRUE
  BY DefaultsFacts, ListAssumption DEF Defaults
<1>2. Do("contact", d) \in Statements
  BY StatementFacts
<1>3. Occurs(SeedingWork, Do("contact", d))
  BY <1>2, SeedingRuns DEF Runs
<1>4. PICK i \in 1..Len(SeedingWork) : TRUE
  BY <1>3 DEF Occurs
<1>5. Len(SeedingWork) \in Nat
  BY SeedingRuns, ElementsOf DEF Runs
<1>6. Len(SeedingWork) # 0 /\ Len(<<>>) = 0
  BY <1>4, <1>5
<1>7. QED
  BY <1>6, Zenon

LEMMA SeedingStarts ==
  ASSUME job' = SeedingWork
  PROVE  JobOK'
<1>1. Runs(job', DoneStatements') /\ job' # <<>>
  BY SeedingRuns, SeedingWorkNotEmpty
<1>2. Runs(job, DoneStatements)'
  BY <1>1 DEF Runs, Covered, Occurs
<1>3. QED
  BY <1>1, <1>2 DEF JobOK

LEMMA NoSeeding ==
  ASSUME phase' \notin {"starting", "serving"}
  PROVE  JobOK'
BY DEF JobOK, IsSeeding

LEMMA SaveStarts ==
  ASSUME NEW g \in Glue, job' = <<[task |-> "save", of |-> g]>> \o SeedingWork
  PROVE  JobOK'
<1>1. job' = <<Do("save", g)>> \o SeedingWork
  BY DEF Do
<1> DEFINE save == Do("save", g)
           S == Statements \cup {save}
           first == <<save>>
<1>2. SeedingWork \in Seq(S) /\ save \in S
  BY SeedingWorkFacts
<1> HIDE DEF S, save
<1>3. first \in Seq(S) /\ Len(first) = 1
  BY <1>2
<1> HIDE DEF first
<1>4. Len(first \o SeedingWork) = Len(first) + Len(SeedingWork) /\ Len(SeedingWork) \in Nat
  BY <1>2, <1>3, ConcatFacts, ElementsOf
<1>5. Len(job') # 0 /\ Len(<<>>) = 0
  BY <1>1, <1>3, <1>4 DEF first, save
<1>6. job' # <<>>
  BY <1>5, Zenon
<1>7. QED
  BY <1>1, <1>6 DEF JobOK

LEMMA SaveNext ==
  ASSUME JobOK, NEW g \in Glue, IsNext("save", g)
  PROVE  Tail(job) = SeedingWork
<1>1. IsSeeding /\ Head(job) = Do("save", g)
  BY DEF IsNext, Do
<1>2. ASSUME Runs(job, DoneStatements), job # <<>>
      PROVE  FALSE
  <2>1. Head(job) \in Statements
    BY <1>2, HeadFacts
  <2>2. Head(job).task = "save"
    BY <1>1 DEF Do
  <2>3. QED
    BY <2>1, <2>2 DEF Statements, Do
<1>3. PICK b \in Glue : job = <<Do("save", b)>> \o SeedingWork
  BY <1>1, <1>2 DEF JobOK
<1>4. QED
  BY <1>3, SaveFacts

LEMMA Initially == Init => IInv
<1>1. Init => TablesOK
  BY GlueAssumption DEF Init, TablesOK
<1>2. Init => JobOK /\ SeededOK
  BY DEF Init, JobOK, SeededOK, IsSeeding
<1>3. QED
  BY <1>1, <1>2 DEF IInv

LEMMA RequestInv ==
  ASSUME IInv, Request
  PROVE  IInv'
<1>1. ASSUME NEW work, OperatorRequest(work)
      PROVE  ~seeded' /\ SeededOK' /\ hosts' = hosts
  BY <1>1 DEF OperatorRequest, SeededOK
<1>2. ASSUME NEW g \in Glue, PutNameservers(g)
      PROVE  IInv'
  <2>1. JobOK'
    BY <1>2, SaveStarts DEF PutNameservers, OperatorRequest
  <2>2. TablesOK'
    BY <1>1, <1>2 DEF PutNameservers, TablesOK, IInv
  <2>3. QED
    BY <1>1, <1>2, <2>1, <2>2 DEF PutNameservers, IInv
<1>3. ASSUME NEW rows \in [Defaults -> DomainRow \cup {None}], Reset(rows)
      PROVE  IInv'
  <2>1. job' = <<>> \o SeedingWork /\ SeedingWork \in Seq(Statements)
    BY <1>3, SeedingRuns DEF Reset, OperatorRequest, Runs
  <2>2. job' = SeedingWork
    BY <2>1
  <2>3. TablesOK'
    BY <1>1, <1>3 DEF Reset, TablesOK, IInv
  <2>4. QED
    BY <1>1, <1>3, <2>2, <2>3, SeedingStarts DEF Reset, IInv
<1>4. [Defaults -> ImportedRows \cup {None}] \subseteq [Defaults -> DomainRow \cup {None}]
  BY RowAssumption
<1>5. domains \in [Defaults -> DomainRow \cup {None}]
  BY DEF IInv, TablesOK
<1>6. QED
  BY <1>2, <1>3, <1>4, <1>5 DEF Request, SeedBulk

LEMMA ProcessInv ==
  ASSUME IInv, Start \/ BeginSeeding \/ End \/ SeedThrows
  PROVE  IInv'
<1>1. UNCHANGED <<domains, hosts, config>>
  BY DEF Start, BeginSeeding, End, SeedThrows, Throw
<1>2. TablesOK'
  BY <1>1 DEF TablesOK, IInv
<1>3. ~seeded'
  BY DEF Start, BeginSeeding, End, SeedThrows, Throw, IInv, SeededOK
<1>4. JobOK'
  <2>1. phase' \notin {"starting", "serving"} \/ job' = SeedingWork
    BY DEF Start, BeginSeeding, End, SeedThrows, Throw
  <2>2. QED
    BY <2>1, NoSeeding, SeedingStarts
<1>5. QED
  BY <1>2, <1>3, <1>4 DEF IInv, SeededOK

LEMMA CommandInv ==
  ASSUME IInv, Command
  PROVE  IInv'
<1>1. CommandEffect /\ UNCHANGED <<phase, seeded>> /\ ~IsSeeding
  BY AnyCommandEffect DEF IInv
<1>2. JobOK'
  BY <1>1, NoSeeding DEF IsSeeding
<1>3. SeededOK'
  BY <1>1 DEF SeededOK, CommandEffect, IInv
<1>4. QED
  BY <1>1, <1>2, <1>3 DEF IInv, CommandEffect

LEMMA SaveInv ==
  ASSUME IInv, NEW g \in Glue, SaveConfig(g)
  PROVE  IInv'
<1>1. JobOK'
  BY SaveNext, SeedingStarts DEF SaveConfig, IInv
<1>2. TablesOK'
  BY DEF SaveConfig, IInv, TablesOK
<1>3. ~seeded
  BY DEF SaveConfig, IsNext, IsSeeding, IInv, SeededOK
<1>4. ~seeded'
  BY <1>3 DEF SaveConfig
<1>5. QED
  BY <1>1, <1>2, <1>4 DEF IInv, SeededOK

LEMMA StutterInv ==
  ASSUME IInv, UNCHANGED vars
  PROVE  IInv'
<1>1. UNCHANGED <<domains, hosts, contacts, config, phase, job, seeded>>
  BY DEF vars
<1>2. TablesOK'
  BY <1>1 DEF IInv, TablesOK
<1>3. SeededOK'
  BY <1>1 DEF IInv, SeededOK, IsProtected
<1>4. JobOK'
  <2>1. DoneStatements' = DoneStatements
    BY <1>1 DEF DoneStatements, IsDone, HasConfiguredGlue, LacksNothing, NameserversToAdd,
       StatusesToAdd
  <2>2. ASSUME Runs(job, DoneStatements)
        PROVE  Runs(job, DoneStatements)'
    <3>1. Runs(job', DoneStatements')
      BY <1>1, <2>1, <2>2
    <3>2. QED
      BY <3>1 DEF Runs, Covered, Occurs
  <2>3. QED
    BY <1>1, <2>2 DEF IInv, JobOK, IsSeeding
<1>5. QED
  BY <1>2, <1>3, <1>4 DEF IInv

LEMMA StepInv == IInv /\ [Running \/ End]_vars => IInv'
BY SeedStepInv, RequestInv, ProcessInv, CommandInv, SaveInv, StutterInv DEF Running, Seeding

\* The invariant holds: of the statements a seeding has left, each one finds
\* what it relies on, whichever process did that, and once a seeding went
\* through the default domains are protected until the next (ensureDefaultRegistry,
\* the commands, reset, the end of the process).
THEOREM AlwaysIInv == Spec => []IInv
<1>1. Init => IInv
  BY Initially
<1>2. IInv /\ [Running \/ End]_vars => IInv'
  BY StepInv
<1>3. QED
  BY <1>1, <1>2, PTL DEF Spec
-------------------------------------------------------------------------------
(* What a seeding achieves.                                                *)

\* The steps that end a seeding that went through, and the reasons of others.
LEMMA SeededSteps ==
  ASSUME IInv, [Running \/ End]_vars
  PROVE  /\ ~seeded /\ seeded' => AllComplete'
         /\ seeded /\ seeded' => \A d \in Defaults : SeededStep(d)
<1>1. CASE SeedStep
  <2>1. IsSeeding
    BY <1>1, SeedStepHead
  <2>2. ~seeded
    BY <2>1 DEF IInv, SeededOK, IsSeeding
  <2>3. QED
    BY <1>1, <2>2, SeedStepInv
<1>2. CASE Command
  <2>1. CommandEffect /\ UNCHANGED seeded
    BY <1>2, AnyCommandEffect DEF IInv
  <2>2. QED
    BY <2>1 DEF CommandEffect, IInv, SeededOK
<1>3. CASE Request
  <2>1. ~seeded'
    BY <1>3 DEF Request, PutNameservers, SeedBulk, Reset, OperatorRequest
  <2>2. QED
    BY <2>1
<1>4. CASE Start \/ BeginSeeding \/ End \/ SeedThrows
  <2>1. ~seeded'
    BY <1>4 DEF Start, BeginSeeding, End, SeedThrows, Throw, IInv, SeededOK
  <2>2. QED
    BY <2>1
<1>5. CASE \E g \in Glue : SaveConfig(g)
  <2>1. ~seeded /\ ~seeded'
    BY <1>5 DEF SaveConfig, IsNext, IsSeeding, IInv, SeededOK
  <2>2. QED
    BY <2>1
<1>6. CASE UNCHANGED vars
  <2>1. UNCHANGED <<domains, seeded>>
    BY <1>6 DEF vars
  <2>2. ASSUME seeded, NEW d \in Defaults
        PROVE  SeededStep(d)
    BY <2>1, <2>2, SameRowStays DEF IInv, SeededOK
  <2>3. QED
    BY <2>1, <2>2
<1>7. QED
  BY <1>1, <1>2, <1>3, <1>4, <1>5, <1>6 DEF Running, Seeding

\* A seeding that ends without a throw leaves every default domain with the
\* registry, protected, signed and delegated to hosts with the configured glue,
\* whatever came before it (ensureDefaultRegistry, its four passes in order).
THEOREM SeedingAlwaysCompletes == Spec => SeedingCompletes
<1>1. IInv /\ [Running \/ End]_vars => [~seeded /\ seeded' => AllComplete']_vars
  BY SeededSteps
<1>2. QED
  BY <1>1, AlwaysIInv, PTL DEF Spec, SeedingCompletes

\* No EPP command purges a seeded default domain, takes its protection away or
\* moves it on a request made after it was protected (the status checks of
\* delete, transfer and update in the domain service).
THEOREM SeededDefaultsAlwaysStay == Spec => SeededDefaultsStay
<1>1. IInv /\ [Running \/ End]_vars =>
        [seeded /\ seeded' => \A d \in Defaults : SeededStep(d)]_vars
  BY SeededSteps
<1>2. QED
  BY <1>1, AlwaysIInv, PTL DEF Spec, SeededDefaultsStay

LEMMA CompleteFacts ==
  ASSUME IInv, AllComplete, NEW d \in Defaults
  PROVE  /\ domains[d] \in DomainRow /\ domains[d] # None
         /\ domains[d].registrarId = Admin /\ LacksNothing(d)
<1>1. IsComplete(d)
  BY DEF AllComplete
<1>2. QED
  BY <1>1 DEF IsComplete, IsSponsorOf, HasSeededHost, LacksNothing, NameserversToAdd,
     StatusesToAdd, IInv, TablesOK

LEMMA CompleteHostFacts ==
  ASSUME IInv, AllComplete, NEW h \in Hosts
  PROVE  /\ hosts[h] \in HostRow /\ hosts[h] # None
         /\ hosts[h].registrarId = Admin /\ HasConfiguredGlue(h)
<1>1. PICK d \in Defaults, role \in Range(Roles) : h = <<d, role>>
  BY DEF Hosts
<1>2. HasSeededHost(d, role)
  BY <1>1 DEF AllComplete, IsComplete
<1>3. QED
  BY <1>1, <1>2 DEF HasSeededHost, HasConfiguredGlue, IInv, TablesOK

LEMMA NothingToSeed ==
  ASSUME IInv, AllComplete, SeedStep
  PROVE  UNCHANGED <<domains, hosts>>
<1>1. domains \in [Defaults -> DomainRow \cup {None}] /\ hosts \in [Hosts -> HostRow \cup {None}]
  BY DEF IInv, TablesOK
<1>2. ASSUME NEW d \in Defaults, \/ EnsureContact(d) \/ ReclaimDomain(d)
                                 \/ EnsureRegistered(d) \/ CompleteDomain(d)
      PROVE  UNCHANGED <<domains, hosts>>
  BY <1>2, CompleteFacts DEF EnsureContact, ReclaimDomain, EnsureRegistered, CompleteDomain
<1>3. ASSUME NEW h \in Hosts, ReclaimHost(h) \/ EnsureHost(h)
      PROVE  UNCHANGED <<domains, hosts>>
  <2>1. /\ hosts[h] \in HostRow /\ hosts[h] # None
        /\ hosts[h].registrarId = Admin /\ hosts[h].addresses = {config}
    BY CompleteHostFacts DEF HasConfiguredGlue
  <2>2. /\ [hosts[h] EXCEPT !.registrarId = Admin] = hosts[h]
        /\ [hosts[h] EXCEPT !.addresses = {config}] = hosts[h]
    BY <2>1 DEF HostRow
  <2>3. /\ [hosts EXCEPT ![h].registrarId = Admin] = hosts
        /\ [hosts EXCEPT ![h].addresses = {config}] = hosts
    BY <1>1, <2>2
  <2>4. QED
    BY <1>3, <2>1, <2>3 DEF ReclaimHost, EnsureHost
<1>4. QED
  BY <1>2, <1>3 DEF SeedStep

LEMMA NothingThrows ==
  ASSUME IInv, AllComplete
  PROVE  ~SeedThrows
<1>1. \A d \in Defaults : MayComplete(d)
  BY CompleteFacts DEF MayComplete
<1>2. \A h \in Hosts : MayEnsureHost(h)
  BY CompleteHostFacts DEF MayEnsureHost
<1>3. QED
  BY <1>1, <1>2 DEF SeedThrows

\* Seeding default domains that are complete changes none of their rows and
\* cannot fail, not even under an update prohibition (the early returns of
\* ensureDefaultRegistry's passes).
THEOREM SeedingIsAlwaysIdempotent == Spec => SeedingIsIdempotent
<1> DEFINE Idle == IsSeeding /\ AllComplete =>
                     UNCHANGED <<domains, hosts>> /\ phase' # "aborted"
<1>1. ASSUME IInv, [Running \/ End]_vars, IsSeeding, AllComplete
      PROVE  UNCHANGED <<domains, hosts>> /\ phase' # "aborted"
  <2>1. CASE SeedStep
    <3>1. phase' # "aborted"
      BY <1>1, <2>1 DEF SeedStep, EnsureContact, ReclaimDomain, EnsureRegistered,
         CompleteDomain, ReclaimHost, EnsureHost, Advance, IsSeeding
    <3>2. QED
      BY <1>1, <2>1, <3>1, NothingToSeed
  <2>2. CASE SeedThrows
    BY <1>1, <2>2, NothingThrows
  <2>3. CASE \E g \in Glue : SaveConfig(g)
    BY <1>1, <2>3 DEF SaveConfig, IsSeeding
  <2>4. CASE Start \/ BeginSeeding \/ Command \/ Request
    BY <1>1, <2>4 DEF Start, BeginSeeding, Command, Listens, Request, PutNameservers,
       SeedBulk, Reset, OperatorRequest, IsSeeding
  <2>5. CASE End
    BY <2>5 DEF End
  <2>6. CASE UNCHANGED vars
    BY <1>1, <2>6 DEF vars, IsSeeding
  <2>7. QED
    BY <1>1, <2>1, <2>2, <2>3, <2>4, <2>5, <2>6 DEF Running, Seeding
<1>2. IInv /\ [Running \/ End]_vars => [Idle]_vars
  BY <1>1
<1>3. QED
  BY <1>2, AlwaysIInv, PTL DEF Spec, SeedingIsIdempotent

\* A seeding fails for three reasons only: the configured glue is unreadable or
\* not acceptable for a host, an update prohibition is set, or an address is
\* configured in another spelling (the exceptions of the host and domain
\* services, and of loadNameserverConfig).  No race, crash or reset is one.
THEOREM SeedingFailsOnlyWhenBlocked == Spec => SeedingFailsOnlyIfBlocked
<1>1. ASSUME IInv, [Running \/ End]_vars, Throws
      PROVE  SeedingIsBlocked
  <2>1. CASE SeedStep
    <3>1. phase' \in {"up", phase} /\ (phase' = "up" /\ phase # "up" => seeded')
      BY <2>1 DEF SeedStep, EnsureContact, ReclaimDomain, EnsureRegistered,
         CompleteDomain, ReclaimHost, EnsureHost, Advance
    <3>2. QED
      BY <1>1, <3>1 DEF Throws
  <2>2. CASE SeedThrows
    BY <1>1, <2>2, ThrowsBlocked
  <2>3. CASE BeginSeeding
    <3>1. config = Torn
      BY <1>1, <2>3 DEF BeginSeeding, Throws
    <3>2. QED
      BY <3>1, GlueAssumption, RowAssumption DEF SeedingIsBlocked
  <2>4. CASE Command
    <3>1. phase' = phase
      BY <1>1, <2>4, AnyCommandEffect DEF IInv
    <3>2. QED
      BY <1>1, <3>1 DEF Throws
  <2>5. CASE Start \/ End \/ Request \/ (\E g \in Glue : SaveConfig(g)) \/ UNCHANGED vars
    <3>1. phase' \in {"listening", "down", "serving", phase}
      BY <2>5 DEF Start, End, Request, PutNameservers, SeedBulk, Reset, OperatorRequest,
         SaveConfig, vars
    <3>2. QED
      BY <1>1, <3>1 DEF Throws
  <2>6. QED
    BY <1>1, <2>1, <2>2, <2>3, <2>4, <2>5 DEF Running, Seeding
<1>2. IInv /\ [Running \/ End]_vars => [Throws => SeedingIsBlocked]_vars
  BY <1>1
<1>3. QED
  BY <1>2, AlwaysIInv, PTL DEF Spec, SeedingFailsOnlyIfBlocked
===============================================================================
