--------------------------- MODULE MetadataPlanProofs ---------------------------
(***************************************************************************)
(* That the connections of a metadata call come back, whatever its adapter *)
(* does and wherever it fails: every list of instructions closes what it   *)
(* opens, and has few connections open at any of them.                     *)
(***************************************************************************)
EXTENDS MetadataProofs

\* What an instruction does to the number of open connections.
Delta(i) == IF i.do = "open" THEN 1 ELSE IF i.do = "close" THEN 0 - 1 ELSE 0

\* d says how many are open before the first instruction and after each of them.
Follows(s, d, m) ==
  /\ d \in [0 .. Len(s) -> 0 .. m]
  /\ \A i \in 1 .. Len(s) : d[i] = d[i - 1] + Delta(s[i])

\* From a open connections to b, never more than m.
Leads(s, a, b, m) ==
  /\ s \in Seq(Instructions)
  /\ \E d : Follows(s, d, m) /\ d[0] = a /\ d[Len(s)] = b

LEMMA LeadsNowhere ==
  ASSUME NEW m \in Nat, NEW a \in 0 .. m
  PROVE  /\ Leads(<< >>, a, a, m)
         /\ \A b : Leads(<< >>, a, b, m) => a = b
<1> DEFINE d == [i \in 0 .. 0 |-> a]
<1>1. << >> \in Seq(Instructions) /\ Len(<< >>) = 0
  BY EmptySeq
<1>2. Follows(<< >>, d, m) /\ d[0] = a
  BY <1>1 DEF Follows
<1> HIDE DEF d
<1> QED
  BY <1>1, <1>2 DEF Leads

LEMMA LeadsOne ==
  ASSUME NEW m \in Nat, NEW a \in 0 .. m, NEW i \in Instructions,
         a + Delta(i) \in 0 .. m
  PROVE  Leads(<< i >>, a, a + Delta(i), m)
<1> DEFINE b == a + Delta(i)
           d == [k \in 0 .. 1 |-> IF k = 0 THEN a ELSE b]
           s == << i >>
<1>1. s \in Seq(Instructions) /\ Len(s) = 1 /\ s[1] = i
  OBVIOUS
<1>2. d \in [0 .. 1 -> 0 .. m] /\ d[0] = a /\ d[1] = b
  OBVIOUS
<1> HIDE DEF d, s
<1>3. Follows(s, d, m)
  BY <1>1, <1>2 DEF Follows
<1>4. Leads(s, a, b, m)
  BY <1>1, <1>2, <1>3 DEF Leads
<1> QED
  BY <1>4 DEF s

LEMMA LeadsOn ==
  ASSUME NEW m \in Nat, NEW a, NEW b, NEW c, NEW s, NEW t,
         Leads(s, a, b, m), Leads(t, b, c, m)
  PROVE  Leads(s \o t, a, c, m)
<1>1. PICK d : Follows(s, d, m) /\ d[0] = a /\ d[Len(s)] = b
  BY DEF Leads
<1>2. PICK e : Follows(t, e, m) /\ e[0] = b /\ e[Len(t)] = c
  BY DEF Leads
<1> DEFINE n == Len(s)
           k == Len(t)
           u == s \o t
           f == [i \in 0 .. n + k |-> IF i <= n THEN d[i] ELSE e[i - n]]
<1>3. /\ s \in Seq(Instructions) /\ t \in Seq(Instructions)
      /\ n \in Nat /\ k \in Nat
  BY LenProperties DEF Leads
<1>4. /\ u \in Seq(Instructions) /\ Len(u) = n + k
      /\ \A i \in 1 .. n + k : u[i] = IF i <= n THEN s[i] ELSE t[i - n]
  BY <1>3, ConcatProperties
<1>5. /\ d \in [0 .. n -> 0 .. m] /\ e \in [0 .. k -> 0 .. m]
      /\ \A i \in 1 .. n : d[i] = d[i - 1] + Delta(s[i])
      /\ \A i \in 1 .. k : e[i] = e[i - 1] + Delta(t[i])
      /\ d[0] = a /\ d[n] = b /\ e[0] = b /\ e[k] = c
  BY <1>1, <1>2 DEF Follows
<1> HIDE DEF n, k, u
<1>6. f \in [0 .. n + k -> 0 .. m]
  BY <1>3, <1>5
<1>7. ASSUME NEW i \in 1 .. n + k PROVE f[i] = f[i - 1] + Delta(u[i])
  <2>1. CASE i <= n
    <3>1. i \in 1 .. n /\ f[i] = d[i] /\ f[i - 1] = d[i - 1] /\ u[i] = s[i]
      BY <1>3, <1>4, <2>1
    <3> QED
      BY <1>5, <3>1
  <2>2. CASE i = n + 1
    <3>1. /\ i \in 0 .. n + k /\ i - 1 = n /\ i - n = 1 /\ ~(i <= n)
          /\ n \in 0 .. n + k /\ 1 \in 1 .. k
      BY <1>3, <2>2
    <3>2. f[i] = e[1] /\ u[i] = t[1]
      BY <1>4, <3>1
    <3>3. f[i - 1] = d[n]
      BY <1>3, <3>1
    <3>4. e[1] = e[0] + Delta(t[1])
      <4>1. e[1] = e[1 - 1] + Delta(t[1])
        BY <1>5, <3>1
      <4> QED
        BY <4>1
    <3> QED
      BY <1>5, <3>2, <3>3, <3>4
  <2>3. CASE i > n + 1
    <3> DEFINE j == i - n
    <3>1. j \in 1 .. k /\ f[i] = e[j] /\ f[i - 1] = e[j - 1] /\ u[i] = t[j]
      BY <1>3, <1>4, <2>3
    <3> QED
      BY <1>5, <3>1
  <2> QED
    BY <1>3, <2>1, <2>2, <2>3
<1>8. f[0] = a /\ f[n + k] = c
  BY <1>3, <1>5
<1> HIDE DEF f
<1>9. Follows(u, f, m)
  BY <1>4, <1>6, <1>7 DEF Follows
<1>10. Leads(u, a, c, m)
  BY <1>4, <1>8, <1>9 DEF Leads
<1> QED
  BY <1>10 DEF u

\* The first instruction is carried out.
LEMMA LeadsAfterFirst ==
  ASSUME NEW m \in Nat, NEW a, NEW b, NEW s, Leads(s, a, b, m), s # << >>
  PROVE  /\ a + Delta(s[1]) \in 0 .. m /\ s[1] \in Instructions
         /\ Leads(Tail(s), a + Delta(s[1]), b, m)
<1>1. PICK d : Follows(s, d, m) /\ d[0] = a /\ d[Len(s)] = b
  BY DEF Leads
<1> DEFINE n == Len(s)
           t == Tail(s)
           e == [i \in 0 .. n - 1 |-> d[i + 1]]
<1>2. s \in Seq(Instructions) /\ n \in Nat \ {0}
  BY EmptySeq DEF Leads
<1>3. /\ t \in Seq(Instructions) /\ Len(t) = n - 1
      /\ \A i \in 1 .. n - 1 : t[i] = s[i + 1]
  BY <1>2, HeadTailProperties
<1>4. /\ d \in [0 .. n -> 0 .. m]
      /\ \A i \in 1 .. n : d[i] = d[i - 1] + Delta(s[i])
      /\ d[0] = a /\ d[n] = b
  BY <1>1 DEF Follows
<1> HIDE DEF n, t
<1>5. e \in [0 .. n - 1 -> 0 .. m] /\ e[0] = d[1] /\ e[n - 1] = b
  BY <1>2, <1>4
<1>6. ASSUME NEW i \in 1 .. n - 1 PROVE e[i] = e[i - 1] + Delta(t[i])
  <2> DEFINE j == i + 1
  <2>1. j \in 1 .. n /\ j - 1 = i /\ e[i] = d[j] /\ e[i - 1] = d[i] /\ t[i] = s[j]
    BY <1>2, <1>3
  <2> QED
    BY <1>4, <2>1
<1>7. 1 \in 1 .. n /\ d[1] = a + Delta(s[1]) /\ d[1] \in 0 .. m
  BY <1>2, <1>4
<1> HIDE DEF e
<1>8. Follows(t, e, m)
  BY <1>3, <1>5, <1>6 DEF Follows
<1>9. Leads(t, a + Delta(s[1]), b, m)
  BY <1>3, <1>5, <1>7, <1>8 DEF Leads
<1>10. s[1] \in Instructions
  BY <1>2, <1>7, ElementOfSeq DEF n
<1> QED
  BY <1>7, <1>9, <1>10 DEF t
------------------------------------------------------------------------------
\* The lists of instructions the adapters follow.

What   == {"name", "schemas", "tables", "table", "columns", "keys"}
Source == {"server", "system", "session", "catalog", "show"}

LEMMA Single ==
  /\ Open \in Instructions /\ Delta(Open) = 1
  /\ Close \in Instructions /\ Delta(Close) = 0 - 1
  /\ \A w \in What, o \in Source :
       Ask(w, o) \in Instructions /\ Delta(Ask(w, o)) = 0
BY DEF Open, Close, Ask, Instructions, Delta, What, Source

LEMMA Parts ==
  /\ \A i, j \in Instructions : << i, j >> = << i >> \o << j >>
  /\ \A i, j, k \in Instructions : << i, j, k >> = << i >> \o << j, k >>
<1>1. ASSUME NEW i \in Instructions, NEW j \in Instructions
      PROVE  << i, j >> = << i >> \o << j >>
  <2> DEFINE a == << i >>
             b == << j >>
             s == << i, j >>
  <2>1. /\ a \in Seq(Instructions) /\ Len(a) = 1 /\ a[1] = i
        /\ b \in Seq(Instructions) /\ Len(b) = 1 /\ b[1] = j
    OBVIOUS
  <2>2. s \in Seq(Instructions) /\ Len(s) = 2 /\ s[1] = i /\ s[2] = j
    OBVIOUS
  <2> HIDE DEF a, b, s
  <2>3. /\ a \o b \in Seq(Instructions) /\ Len(a \o b) = 2
        /\ (a \o b)[1] = i /\ (a \o b)[2] = j
    BY <2>1, ConcatProperties
  <2>4. \A x \in 1 .. 2 : s[x] = (a \o b)[x]
    BY <2>2, <2>3
  <2>5. s = a \o b
    BY <2>2, <2>3, <2>4, SeqEqual
  <2> QED
    BY <2>5 DEF a, b, s
<1>2. ASSUME NEW i \in Instructions, NEW j \in Instructions, NEW k \in Instructions
      PROVE  << i, j, k >> = << i >> \o << j, k >>
  <2> DEFINE a == << i >>
             b == << j, k >>
             s == << i, j, k >>
  <2>1. /\ a \in Seq(Instructions) /\ Len(a) = 1 /\ a[1] = i
        /\ b \in Seq(Instructions) /\ Len(b) = 2 /\ b[1] = j /\ b[2] = k
    OBVIOUS
  <2>2. s \in Seq(Instructions) /\ Len(s) = 3 /\ s[1] = i /\ s[2] = j /\ s[3] = k
    OBVIOUS
  <2> HIDE DEF a, b, s
  <2>3. /\ a \o b \in Seq(Instructions) /\ Len(a \o b) = 3
        /\ (a \o b)[1] = i /\ (a \o b)[2] = j /\ (a \o b)[3] = k
    BY <2>1, ConcatProperties
  <2>4. \A x \in 1 .. 3 : s[x] = (a \o b)[x]
    BY <2>2, <2>3
  <2>5. s = a \o b
    BY <2>2, <2>3, <2>4, SeqEqual
  <2> QED
    BY <2>5 DEF a, b, s
<1> QED
  BY <1>1, <1>2

\* A statement where a connections are open, and the instructions around it.
LEMMA LeadsStatement ==
  ASSUME NEW m \in Nat, NEW a \in 0 .. m, NEW w \in What, NEW o \in Source
  PROVE  /\ Leads(<< Ask(w, o) >>, a, a, m)
         /\ a + 1 \in 0 .. m => Leads(<< Open >>, a, a + 1, m)
         /\ a - 1 \in 0 .. m => Leads(<< Ask(w, o), Close >>, a, a - 1, m)
         /\ a + 1 \in 0 .. m => Leads(Query(w, o), a, a, m)
<1>1. ASSUME NEW b \in 0 .. m PROVE Leads(<< Ask(w, o) >>, b, b, m)
  <2>1. b + Delta(Ask(w, o)) = b
    BY Single
  <2> QED
    BY <2>1, Single, LeadsOne
<1>2. ASSUME NEW b \in 0 .. m, b + 1 \in 0 .. m PROVE Leads(<< Open >>, b, b + 1, m)
  <2>1. b + Delta(Open) = b + 1
    BY Single
  <2> QED
    BY <1>2, <2>1, Single, LeadsOne
<1>3. ASSUME NEW b \in 0 .. m, b - 1 \in 0 .. m
      PROVE  Leads(<< Ask(w, o), Close >>, b, b - 1, m)
  <2>1. b + Delta(Close) = b - 1
    BY Single
  <2>2. Leads(<< Close >>, b, b - 1, m)
    BY <1>3, <2>1, Single, LeadsOne
  <2>3. Leads(<< Ask(w, o) >> \o << Close >>, b, b - 1, m)
    BY <1>1, <2>2, LeadsOn
  <2> QED
    BY <2>3, Single, Parts
<1>4. ASSUME a + 1 \in 0 .. m PROVE Leads(Query(w, o), a, a, m)
  <2> DEFINE b == a + 1
  <2>1. b \in 0 .. m /\ b - 1 = a
    BY <1>4
  <2> HIDE DEF b
  <2>2. Leads(<< Ask(w, o), Close >>, b, a, m)
    BY <1>3, <2>1
  <2>3. Leads(<< Open >>, a, b, m)
    BY <1>2, <1>4 DEF b
  <2>4. Leads(<< Open >> \o << Ask(w, o), Close >>, a, a, m)
    BY <2>2, <2>3, LeadsOn
  <2> QED
    BY <2>4, Single, Parts DEF Query
<1> QED
  BY <1>1, <1>2, <1>3, <1>4

\* One statement after the other, each on a connection of its own.
LEMMA LeadsRepeated ==
  ASSUME NEW m \in Nat \ {0}, NEW w \in What, NEW o \in Source, NEW n \in Nat
  PROVE  Leads(repeated(Query(w, o), n), 0, 0, m)
<1> DEFINE q == Query(w, o)
           k == n * 3
           s == repeated(q, n)
           d == [i \in 0 .. k |-> IF i % 3 = 0 THEN 0 ELSE 1]
<1>1. /\ q \in Seq(Instructions) /\ Len(q) = 3
      /\ q[1] = Open /\ q[2] = Ask(w, o) /\ q[3] = Close
  BY Single DEF Query
<1>2. k \in Nat /\ k % 3 = 0
  OBVIOUS
<1> HIDE DEF q, k
<1>3. s = [i \in 1 .. k |-> q[((i - 1) % 3) + 1]]
  BY <1>1 DEF repeated, k
<1>4. \A i \in 1 .. k : ((i - 1) % 3) + 1 \in 1 .. 3
  BY <1>2
<1>5. \A j \in 1 .. 3 : q[j] \in Instructions
  BY <1>1, ElementOfSeq
<1>6. s \in Seq(Instructions) /\ Len(s) = k
  BY <1>2, <1>3, <1>4, <1>5
<1>7. ASSUME NEW i \in 1 .. k PROVE d[i] = d[i - 1] + Delta(s[i])
  <2>1. i \in 0 .. k /\ i - 1 \in 0 .. k
    BY <1>2
  <2>2. s[i] = q[((i - 1) % 3) + 1]
    BY <1>3
  <2>3. CASE i % 3 = 1
    <3>1. (i - 1) % 3 = 0
      BY <1>2, <2>3
    <3> QED
      BY <1>1, <2>1, <2>2, <2>3, <3>1, Single
  <2>4. CASE i % 3 = 2
    <3>1. (i - 1) % 3 = 1
      BY <1>2, <2>4
    <3> QED
      BY <1>1, <2>1, <2>2, <2>4, <3>1, Single
  <2>5. CASE i % 3 = 0
    <3>1. (i - 1) % 3 = 2
      BY <1>2, <2>5
    <3> QED
      BY <1>1, <2>1, <2>2, <2>5, <3>1, Single
  <2>6. i % 3 \in {0, 1, 2}
    BY <1>2
  <2> QED
    BY <2>3, <2>4, <2>5, <2>6
<1>8. d \in [0 .. k -> 0 .. m] /\ d[0] = 0 /\ d[k] = 0
  BY <1>2
<1> HIDE DEF d, s
<1>9. Follows(s, d, m)
  BY <1>6, <1>7, <1>8 DEF Follows
<1>10. Leads(s, 0, 0, m)
  BY <1>6, <1>8, <1>9 DEF Leads
<1> QED
  BY <1>10 DEF s, q

LEMMA LeadsQuery ==
  ASSUME NEW m \in Nat \ {0}, NEW w \in What, NEW o \in Source
  PROVE  Leads(Query(w, o), 0, 0, m)
<1>1. m \in Nat /\ 0 \in 0 .. m /\ 0 + 1 \in 0 .. m
  OBVIOUS
<1> QED
  BY <1>1, LeadsStatement

\* SQL Server's lists need two connections at most.
LEMMA SqlServerLists ==
  ASSUME NEW catalog
  PROVE  /\ Leads(sqlserver_list_schemas, 0, 0, 2)
         /\ Leads(sqlserver_list_tables(catalog), 0, 0, 2)
         /\ Leads(sqlserver_describe_table(catalog), 0, 0, 2)
<1> DEFINE prefix == information_schema_prefix(catalog)
           ask(w) == << Ask(w, "server") >>
           last(w) == << Ask(w, "server"), Close >>
<1>1. /\ 2 \in Nat /\ 2 \in Nat \ {0} /\ 0 \in 0 .. 2 /\ 1 \in 0 .. 2
      /\ 0 + 1 = 1 /\ 1 + 1 \in 0 .. 2 /\ 1 - 1 = 0
  OBVIOUS
<1>2. "server" \in Source /\ {"name", "schemas", "tables", "columns", "keys"} \subseteq What
  BY DEF Source, What
<1>3. Leads(<< Open >>, 0, 1, 2)
  BY <1>1, <1>2, LeadsStatement
<1>4. Leads(CurrentCatalog, 1, 1, 2) /\ Leads(CurrentCatalog, 0, 0, 2)
  BY <1>1, <1>2, LeadsStatement DEF CurrentCatalog
<1>5. Leads(prefix, 1, 1, 2)
  BY <1>1, <1>4, LeadsNowhere DEF information_schema_prefix
<1>6. /\ Leads(last("schemas"), 1, 0, 2) /\ Leads(last("tables"), 1, 0, 2)
      /\ Leads(last("keys"), 1, 0, 2)
      /\ Leads(ask("columns"), 1, 1, 2) /\ Leads(ask("keys"), 1, 1, 2)
  BY <1>1, <1>2, LeadsStatement
<1> HIDE DEF prefix, ask, last
<1>7. Leads(((<< Open >> \o CurrentCatalog) \o last("schemas")) \o CurrentCatalog, 0, 0, 2)
  <2>1. Leads(<< Open >> \o CurrentCatalog, 0, 1, 2)
    BY <1>1, <1>3, <1>4, LeadsOn
  <2>2. Leads((<< Open >> \o CurrentCatalog) \o last("schemas"), 0, 0, 2)
    BY <1>1, <1>6, <2>1, LeadsOn
  <2> QED
    BY <1>1, <1>4, <2>2, LeadsOn
<1>8. Leads(<< Open >> \o prefix, 0, 1, 2)
  BY <1>1, <1>3, <1>5, LeadsOn
<1>9. Leads((<< Open >> \o prefix) \o last("tables"), 0, 0, 2)
  BY <1>1, <1>6, <1>8, LeadsOn
<1>10. Leads((((((<< Open >> \o prefix) \o ask("columns")) \o prefix) \o ask("keys"))
               \o prefix) \o last("keys"), 0, 0, 2)
  <2>1. Leads((<< Open >> \o prefix) \o ask("columns"), 0, 1, 2)
    BY <1>1, <1>6, <1>8, LeadsOn
  <2>2. Leads(((<< Open >> \o prefix) \o ask("columns")) \o prefix, 0, 1, 2)
    BY <1>1, <1>5, <2>1, LeadsOn
  <2>3. Leads((((<< Open >> \o prefix) \o ask("columns")) \o prefix) \o ask("keys"), 0, 1, 2)
    BY <1>1, <1>6, <2>2, LeadsOn
  <2>4. Leads(((((<< Open >> \o prefix) \o ask("columns")) \o prefix) \o ask("keys"))
                \o prefix, 0, 1, 2)
    BY <1>1, <1>5, <2>3, LeadsOn
  <2> QED
    BY <1>1, <1>6, <2>4, LeadsOn
<1> QED
  BY <1>7, <1>9, <1>10
     DEF sqlserver_list_schemas, sqlserver_list_tables, sqlserver_describe_table,
         prefix, ask, last

\* Snowflake's need one.
LEMMA SnowflakeLists ==
  ASSUME NEW catalog, NEW home, NEW w \in What
  PROVE  /\ Leads(snowflake_list(w, catalog, home), 0, 0, 1)
         /\ Leads(snowflake_describe_table(catalog, home), 0, 0, 1)
<1>1. 1 \in Nat /\ 1 \in Nat \ {0} /\ 0 \in 0 .. 1
  OBVIOUS
<1>2. "server" \in Source /\ {"name", "table", "columns", "keys"} \subseteq What
  BY DEF Source, What
<1>3. Leads(database_name(catalog, home), 0, 0, 1)
  BY <1>1, <1>2, LeadsNowhere, LeadsQuery DEF database_name
<1>4. Leads(Query(w, "server"), 0, 0, 1)
  BY <1>1, <1>2, LeadsQuery
<1> DEFINE s == << Open, Ask("table", "server"), Ask("columns", "server"),
                   Ask("keys", "server"), Close >>
           d == [i \in 0 .. 5 |-> IF i \in {0, 5} THEN 0 ELSE 1]
<1>5. Leads(s, 0, 0, 1)
  <2>1. /\ s \in Seq(Instructions) /\ Len(s) = 5
        /\ Delta(s[1]) = 1 /\ Delta(s[2]) = 0 /\ Delta(s[3]) = 0
        /\ Delta(s[4]) = 0 /\ Delta(s[5]) = 0 - 1
    BY <1>2, Single
  <2>2. /\ d \in [0 .. 5 -> 0 .. 1]
        /\ d[0] = 0 /\ d[1] = 1 /\ d[2] = 1 /\ d[3] = 1 /\ d[4] = 1 /\ d[5] = 0
    OBVIOUS
  <2> HIDE DEF s, d
  <2>3. \A i \in 1 .. 5 : d[i] = d[i - 1] + Delta(s[i])
    <3> SUFFICES ASSUME NEW i \in 1 .. 5 PROVE d[i] = d[i - 1] + Delta(s[i])
      OBVIOUS
    <3>1. /\ (i = 1 => i - 1 = 0) /\ (i = 2 => i - 1 = 1) /\ (i = 3 => i - 1 = 2)
          /\ (i = 4 => i - 1 = 3) /\ (i = 5 => i - 1 = 4)
      OBVIOUS
    <3>2. i = 1 \/ i = 2 \/ i = 3 \/ i = 4 \/ i = 5
      OBVIOUS
    <3> QED
      BY <2>1, <2>2, <3>1, <3>2
  <2>4. Follows(s, d, 1)
    BY <2>1, <2>2, <2>3 DEF Follows
  <2> QED
    BY <2>1, <2>2, <2>4 DEF Leads
<1> HIDE DEF s
<1>6. Leads(database_name(catalog, home) \o s, 0, 0, 1)
  BY <1>1, <1>3, <1>5, LeadsOn
<1>7. Leads(database_name(catalog, home) \o Query(w, "server"), 0, 0, 1)
  BY <1>1, <1>3, <1>4, LeadsOn
<1> QED
  BY <1>6, <1>7 DEF snowflake_list, snowflake_describe_table, s

\* Alternatives each of which closes what it opens.
Alternatives(t, m) ==
  /\ t \in Seq(Seq(Instructions)) /\ t # << >>
  /\ \A j \in 1 .. Len(t) : Leads(t[j], 0, 0, m)

LEMMA OneAlternative ==
  ASSUME NEW m \in Nat, NEW s, Leads(s, 0, 0, m)
  PROVE  Alternatives(<< s >>, m)
<1>1. s \in Seq(Instructions)
  BY DEF Leads
<1> DEFINE t == << s >>
<1>2. t \in Seq(Seq(Instructions)) /\ Len(t) = 1 /\ t[1] = s
  BY <1>1
<1>3. t # << >>
  BY <1>2, EmptySeq
<1> HIDE DEF t
<1>4. Alternatives(t, m)
  BY <1>2, <1>3 DEF Alternatives
<1> QED
  BY <1>4 DEF t

LEMMA MoreAlternatives ==
  ASSUME NEW m \in Nat, NEW t, NEW u, Alternatives(t, m), Alternatives(u, m)
  PROVE  Alternatives(t \o u, m)
<1>1. /\ t \in Seq(Seq(Instructions)) /\ u \in Seq(Seq(Instructions))
      /\ Len(t) \in Nat /\ Len(u) \in Nat /\ Len(t) # 0
  BY EmptySeq, LenProperties DEF Alternatives
<1>2. /\ t \o u \in Seq(Seq(Instructions)) /\ Len(t \o u) = Len(t) + Len(u)
      /\ \A i \in 1 .. Len(t) + Len(u) :
           (t \o u)[i] = IF i <= Len(t) THEN t[i] ELSE u[i - Len(t)]
  BY <1>1, ConcatProperties
<1>3. t \o u # << >>
  BY <1>1, <1>2, EmptySeq
<1>4. ASSUME NEW j \in 1 .. Len(t) + Len(u) PROVE Leads((t \o u)[j], 0, 0, m)
  <2>1. CASE j <= Len(t)
    <3>1. j \in 1 .. Len(t) /\ (t \o u)[j] = t[j]
      BY <1>1, <1>2, <2>1
    <3> QED
      BY <3>1 DEF Alternatives
  <2>2. CASE j > Len(t)
    <3>1. j - Len(t) \in 1 .. Len(u) /\ (t \o u)[j] = u[j - Len(t)]
      BY <1>1, <1>2, <2>2
    <3> QED
      BY <3>1 DEF Alternatives
  <2> QED
    BY <1>1, <2>1, <2>2
<1> QED
  BY <1>2, <1>3, <1>4 DEF Alternatives

\* The information schemas Databricks tries.
LEMMA DatabricksAlternatives ==
  ASSUME NEW w \in What, NEW catalog
  PROVE  Alternatives(run_metadata_query(w, catalog), 1)
<1> DEFINE q == metadata_sources(catalog)
           r == run_metadata_query(w, catalog)
<1>1. \A o \in Source : Query(w, o) \in Seq(Instructions) /\ Leads(Query(w, o), 0, 0, 1)
  BY LeadsQuery DEF Leads
<1>2. \E n \in {1, 2} : DOMAIN q = 1 .. n /\ \A i \in 1 .. n : q[i] \in Source
  BY DEF metadata_sources, Source
<1> HIDE DEF q
<1>3. PICK n \in {1, 2} : DOMAIN q = 1 .. n /\ \A i \in 1 .. n : q[i] \in Source
  BY <1>2
<1>4. r = [i \in 1 .. n |-> Query(w, q[i])]
  BY <1>3 DEF run_metadata_query, q
<1> HIDE DEF r
<1>5. r \in Seq(Seq(Instructions)) /\ Len(r) = n
  BY <1>1, <1>3, <1>4
<1>6. \A j \in 1 .. n : Leads(r[j], 0, 0, 1)
  BY <1>1, <1>3, <1>4
<1>7. r # << >>
  BY <1>5, EmptySeq
<1>8. Alternatives(r, 1)
  BY <1>5, <1>6, <1>7 DEF Alternatives
<1> QED
  BY <1>8 DEF r

LEMMA ShowAlternative ==
  ASSUME NEW catalog, NEW schema
  PROVE  /\ Alternatives(<< show_tables(catalog, schema) >>, 1)
         /\ Alternatives(<< Query("schemas", "show") >>, 1)
<1>1. /\ Leads(Query("schemas", "show"), 0, 0, 1)
      /\ Leads(Query("tables", "show"), 0, 0, 1)
  BY LeadsQuery DEF What, Source
<1>2. Leads(show_tables(catalog, schema), 0, 0, 1)
  BY <1>1 DEF show_tables
<1> QED
  BY <1>1, <1>2, OneAlternative
------------------------------------------------------------------------------
\* The plan, of which the adapter is at the first alternative of the first
\* task with h connections open.
PlanFrom(p, h, m) ==
  /\ p \in Seq(Seq(Seq(Instructions))) /\ p # << >>
  /\ \A i \in 1 .. Len(p) : p[i] # << >>
  /\ Leads(p[1][1], h, 0, m)
  /\ \A i \in 1 .. Len(p) : \A j \in 1 .. Len(p[i]) :
       i # 1 \/ j # 1 => Leads(p[i][j], 0, 0, m)

\* A plan none of which has been carried out.
LEMMA Tasks ==
  ASSUME NEW m \in Nat, NEW p \in Seq(Seq(Seq(Instructions))), p # << >>,
         \A i \in 1 .. Len(p) : Alternatives(p[i], m)
  PROVE  PlanFrom(p, 0, m)
<1>1. 1 \in 1 .. Len(p)
  BY EmptySeq, LenProperties
<1>2. p[1] \in Seq(Seq(Instructions)) /\ p[1] # << >>
  BY <1>1 DEF Alternatives
<1>3. 1 \in 1 .. Len(p[1])
  BY <1>2, EmptySeq, LenProperties
<1>4. Leads(p[1][1], 0, 0, m)
  BY <1>1, <1>3 DEF Alternatives
<1> QED
  BY <1>1, <1>4 DEF PlanFrom, Alternatives

LEMMA OneTask ==
  ASSUME NEW m \in Nat, NEW t, Alternatives(t, m)
  PROVE  PlanFrom(<< t >>, 0, m)
<1> DEFINE p == << t >>
<1>1. t \in Seq(Seq(Instructions))
  BY DEF Alternatives
<1>2. p \in Seq(Seq(Seq(Instructions))) /\ Len(p) = 1 /\ p[1] = t
  BY <1>1
<1>3. p # << >>
  BY <1>2, EmptySeq
<1> HIDE DEF p
<1>4. \A i \in 1 .. 1 : i = 1
  OBVIOUS
<1>5. PlanFrom(p, 0, m)
  BY <1>2, <1>3, <1>4, Tasks
<1> QED
  BY <1>5 DEF p

LEMMA TwoTasks ==
  ASSUME NEW m \in Nat, NEW t, NEW u, Alternatives(t, m), Alternatives(u, m)
  PROVE  PlanFrom(<< t, u >>, 0, m)
<1> DEFINE p == << t, u >>
<1>1. t \in Seq(Seq(Instructions)) /\ u \in Seq(Seq(Instructions))
  BY DEF Alternatives
<1>2. p \in Seq(Seq(Seq(Instructions))) /\ Len(p) = 2 /\ p[1] = t /\ p[2] = u
  BY <1>1
<1>3. p # << >>
  BY <1>2, EmptySeq
<1> HIDE DEF p
<1>4. \A i \in 1 .. 2 : i = 1 \/ i = 2
  OBVIOUS
<1>5. PlanFrom(p, 0, m)
  BY <1>2, <1>3, <1>4, Tasks
<1> QED
  BY <1>5 DEF p

\* Connections an adapter may have open at once.
Needs(type) == IF type = "sqlserver" THEN 2 ELSE 1

LEMMA AdapterPlans ==
  ASSUME NEW type \in {"sqlserver", "snowflake", "databricks"},
         NEW r \in Requests, r.tool # "list_connections", NEW home
  PROVE  PlanFrom(adapter_plan(type, r, home), 0, Needs(type))
<1>1. r.tool \in {"test_connection", "list_schemas", "list_tables", "describe_table"}
  BY MetadataAssumption DEF Request
<1>2. /\ "server" \in Source
      /\ {"name", "schemas", "tables", "table", "columns"} \subseteq What
  BY DEF Source, What
<1>3. 1 \in Nat /\ 2 \in Nat /\ 1 \in Nat \ {0} /\ 2 \in Nat \ {0}
  OBVIOUS
<1>4. Leads(Query("name", "server"), 0, 0, 1) /\ Leads(Query("name", "server"), 0, 0, 2)
  BY <1>2, <1>3, LeadsQuery
<1>5. CASE type = "sqlserver"
  <2>1. \E s : sqlserver_plan(r) = << << s >> >> /\ Leads(s, 0, 0, 2)
    BY <1>1, <1>4, SqlServerLists DEF sqlserver_plan
  <2>2. PICK s : sqlserver_plan(r) = << << s >> >> /\ Leads(s, 0, 0, 2)
    BY <2>1
  <2>3. PlanFrom(sqlserver_plan(r), 0, 2)
    BY <1>3, <2>2, OneAlternative, OneTask
  <2> QED
    BY <1>5, <2>3 DEF adapter_plan, Needs
<1>6. CASE type = "snowflake"
  <2>1. \E s : snowflake_plan(r, home) = << << s >> >> /\ Leads(s, 0, 0, 1)
    BY <1>1, <1>2, <1>4, SnowflakeLists DEF snowflake_plan
  <2>2. PICK s : snowflake_plan(r, home) = << << s >> >> /\ Leads(s, 0, 0, 1)
    BY <2>1
  <2>3. PlanFrom(snowflake_plan(r, home), 0, 1)
    BY <1>3, <2>2, OneAlternative, OneTask
  <2> QED
    BY <1>6, <2>3 DEF adapter_plan, Needs
<1>7. CASE type = "databricks"
  <2>1. CASE r.tool = "test_connection"
    <3>1. PlanFrom(<< << Query("name", "server") >> >>, 0, 1)
      BY <1>3, <1>4, OneAlternative, OneTask
    <3> QED
      BY <1>7, <2>1, <3>1 DEF adapter_plan, databricks_plan, Needs
  <2>2. CASE r.tool = "list_schemas"
    <3>1. Alternatives(run_metadata_query("schemas", home.catalog)
                         \o << Query("schemas", "show") >>, 1)
      BY <1>2, <1>3, DatabricksAlternatives, ShowAlternative, MoreAlternatives
    <3>2. PlanFrom(<< run_metadata_query("schemas", home.catalog)
                        \o << Query("schemas", "show") >> >>, 0, 1)
      BY <1>3, <3>1, OneTask
    <3> QED
      BY <1>7, <2>2, <3>2 DEF adapter_plan, databricks_plan, Needs
  <2>3. CASE r.tool = "list_tables"
    <3> DEFINE c == Or(r.catalog, home.catalog)
               s == Or(r.schema, home.schema)
    <3>1. Alternatives(run_metadata_query("tables", c) \o << show_tables(c, s) >>, 1)
      BY <1>2, <1>3, DatabricksAlternatives, ShowAlternative, MoreAlternatives
    <3>2. PlanFrom(databricks_list_tables(c, s), 0, 1)
      BY <1>3, <3>1, OneTask DEF databricks_list_tables
    <3> QED
      BY <1>7, <2>3, <3>2 DEF adapter_plan, databricks_plan, Needs
  <2>4. CASE r.tool = "describe_table"
    <3> DEFINE c == Or(r.catalog, home.catalog)
    <3>1. PlanFrom(<< run_metadata_query("table", c), run_metadata_query("columns", c) >>, 0, 1)
      BY <1>2, <1>3, DatabricksAlternatives, TwoTasks
    <3> QED
      BY <1>7, <2>4, <3>1 DEF adapter_plan, databricks_plan, Needs
  <2> QED
    BY <1>1, <2>1, <2>2, <2>3, <2>4
<1> QED
  BY <1>5, <1>6, <1>7

LEMMA FirstAlternative ==
  ASSUME NEW m \in Nat, NEW h, NEW p, PlanFrom(p, h, m)
  PROVE  /\ p \in Seq(Seq(Seq(Instructions))) /\ Len(p) \in Nat \ {0}
         /\ \A i \in 1 .. Len(p) : p[i] \in Seq(Seq(Instructions)) /\ Len(p[i]) \in Nat \ {0}
         /\ p[1][1] \in Seq(Instructions)
<1>1. p \in Seq(Seq(Seq(Instructions))) /\ Len(p) \in Nat \ {0}
  BY EmptySeq, LenProperties DEF PlanFrom
<1>2. ASSUME NEW i \in 1 .. Len(p)
      PROVE  p[i] \in Seq(Seq(Instructions)) /\ Len(p[i]) \in Nat \ {0}
  <2>1. p[i] \in Seq(Seq(Instructions)) /\ p[i] # << >>
    BY <1>1, ElementOfSeq DEF PlanFrom
  <2> QED
    BY <2>1, EmptySeq, LenProperties
<1>3. p[1][1] \in Seq(Instructions)
  BY DEF PlanFrom, Leads
<1> QED
  BY <1>1, <1>2, <1>3

\* What is left of the first alternative is replaced.
LEMMA Continue ==
  ASSUME NEW m \in Nat, NEW h, NEW p, PlanFrom(p, h, m),
         NEW g, NEW s, Leads(s, g, 0, m)
  PROVE  PlanFrom([p EXCEPT ![1][1] = s], g, m)
<1> DEFINE u == [p[1] EXCEPT ![1] = s]
           q == [p EXCEPT ![1] = u]
<1>1. /\ p \in Seq(Seq(Seq(Instructions))) /\ Len(p) \in Nat \ {0}
      /\ \A i \in 1 .. Len(p) : p[i] \in Seq(Seq(Instructions)) /\ Len(p[i]) \in Nat \ {0}
  BY FirstAlternative
<1>2. s \in Seq(Instructions)
  BY DEF Leads
<1>3. /\ u \in Seq(Seq(Instructions)) /\ Len(u) = Len(p[1]) /\ u[1] = s
      /\ \A j \in 1 .. Len(p[1]) : j # 1 => u[j] = p[1][j]
  BY <1>1, <1>2, ExceptSeq
<1> HIDE DEF u
<1>4. /\ q \in Seq(Seq(Seq(Instructions))) /\ Len(q) = Len(p) /\ q[1] = u
      /\ \A i \in 1 .. Len(p) : i # 1 => q[i] = p[i]
  BY <1>1, <1>3, ExceptSeq
<1> HIDE DEF q
<1>5. q # << >> /\ \A i \in 1 .. Len(q) : q[i] # << >>
  BY <1>1, <1>3, <1>4, EmptySeq
<1>6. ASSUME NEW i \in 1 .. Len(q), NEW j \in 1 .. Len(q[i]), i # 1 \/ j # 1
      PROVE  Leads(q[i][j], 0, 0, m)
  <2>1. CASE i = 1
    BY <1>1, <1>3, <1>4, <1>6, <2>1 DEF PlanFrom
  <2>2. CASE i # 1
    BY <1>1, <1>4, <1>6, <2>2 DEF PlanFrom
  <2> QED
    BY <2>1, <2>2
<1>7. PlanFrom(q, g, m)
  BY <1>3, <1>4, <1>5, <1>6 DEF PlanFrom
<1>8. q = [p EXCEPT ![1][1] = s]
  BY DEF q, u
<1> QED
  BY <1>7, <1>8

\* The first alternative has failed, and its task has another.
LEMMA FallBack ==
  ASSUME NEW m \in Nat, NEW h, NEW p, PlanFrom(p, h, m), Len(p[1]) > 1
  PROVE  PlanFrom([p EXCEPT ![1] = Tail(@)], 0, m)
<1> DEFINE u == Tail(p[1])
           q == [p EXCEPT ![1] = u]
<1>1. /\ p \in Seq(Seq(Seq(Instructions))) /\ Len(p) \in Nat \ {0}
      /\ \A i \in 1 .. Len(p) : p[i] \in Seq(Seq(Instructions)) /\ Len(p[i]) \in Nat \ {0}
  BY FirstAlternative
<1>2. /\ u \in Seq(Seq(Instructions)) /\ Len(u) = Len(p[1]) - 1
      /\ \A j \in 1 .. Len(p[1]) - 1 : u[j] = p[1][j + 1]
      /\ 1 \in 1 .. Len(p) /\ Len(p[1]) \in Nat /\ Len(u) \in Nat \ {0}
  <2>1. 1 \in 1 .. Len(p)
    BY <1>1
  <2>2. p[1] \in Seq(Seq(Instructions)) /\ Len(p[1]) \in Nat \ {0}
    BY <1>1, <2>1
  <2>3. p[1] # << >>
    BY <2>2, EmptySeq
  <2>4. /\ u \in Seq(Seq(Instructions)) /\ Len(u) = Len(p[1]) - 1
        /\ \A j \in 1 .. Len(p[1]) - 1 : u[j] = p[1][j + 1]
    BY <2>2, <2>3, HeadTailProperties
  <2> HIDE DEF u
  <2>5. Len(u) \in Nat \ {0}
    <3>1. \A k \in Nat : k > 1 => k - 1 \in Nat \ {0}
      OBVIOUS
    <3>2. Len(p[1]) - 1 \in Nat \ {0}
      BY <2>2, <3>1
    <3> QED
      BY <2>4, <3>2
  <2> QED
    BY <2>1, <2>2, <2>4, <2>5
<1> HIDE DEF u
<1>3. /\ q \in Seq(Seq(Seq(Instructions))) /\ Len(q) = Len(p) /\ q[1] = u
      /\ \A i \in 1 .. Len(p) : i # 1 => q[i] = p[i]
  BY <1>1, <1>2, ExceptSeq
<1>4. q = [p EXCEPT ![1] = Tail(@)]
  BY DEF u
<1> HIDE DEF q
<1>5. q # << >> /\ \A i \in 1 .. Len(q) : q[i] # << >>
  BY <1>1, <1>2, <1>3, EmptySeq
<1>6. ASSUME NEW i \in 1 .. Len(q), NEW j \in 1 .. Len(q[i])
      PROVE  Leads(q[i][j], 0, 0, m)
  <2>1. CASE i = 1
    <3>1. q[i] = u /\ j \in 1 .. Len(u)
      BY <1>3, <2>1
    <3>2. j \in 1 .. Len(p[1]) - 1 /\ j + 1 \in 1 .. Len(p[1]) /\ j + 1 # 1
      BY <1>2, <3>1
    <3>3. q[i][j] = p[1][j + 1]
      BY <1>2, <3>1, <3>2
    <3> QED
      BY <1>2, <3>2, <3>3 DEF PlanFrom
  <2>2. CASE i # 1
    BY <1>1, <1>3, <2>2 DEF PlanFrom
  <2> QED
    BY <2>1, <2>2
<1>7. 1 \in 1 .. Len(q) /\ 1 \in 1 .. Len(q[1])
  BY <1>1, <1>2, <1>3
<1>8. PlanFrom(q, 0, m)
  BY <1>3, <1>5, <1>6, <1>7 DEF PlanFrom
<1> QED
  BY <1>4, <1>8

\* The first task is done.
LEMMA NextTask ==
  ASSUME NEW m \in Nat, NEW h, NEW p, PlanFrom(p, h, m), p[1][1] = << >>
  PROVE  h = 0 /\ (Len(p) # 1 => PlanFrom(Tail(p), 0, m))
<1>1. h = 0
  <2>1. Leads(<< >>, h, 0, m)
    BY DEF PlanFrom
  <2>2. h \in 0 .. m
    BY <2>1, EmptySeq DEF Leads, Follows
  <2> QED
    BY <2>1, <2>2, LeadsNowhere
<1>2. ASSUME Len(p) # 1 PROVE PlanFrom(Tail(p), 0, m)
  <2> DEFINE q == Tail(p)
  <2>1. p \in Seq(Seq(Seq(Instructions))) /\ Len(p) \in Nat \ {0} /\ p # << >>
    BY FirstAlternative DEF PlanFrom
  <2>2. /\ q \in Seq(Seq(Seq(Instructions))) /\ Len(q) = Len(p) - 1
        /\ \A i \in 1 .. Len(p) - 1 : q[i] = p[i + 1]
    BY <2>1, HeadTailProperties
  <2> HIDE DEF q
  <2>3. q # << >>
    BY <1>2, <2>1, <2>2, EmptySeq
  <2>4. ASSUME NEW i \in 1 .. Len(q) PROVE Alternatives(q[i], m)
    <3>1. i + 1 \in 1 .. Len(p) /\ i + 1 # 1 /\ q[i] = p[i + 1]
      BY <2>1, <2>2
    <3>2. q[i] \in Seq(Seq(Instructions))
      BY <3>1, FirstAlternative
    <3> QED
      BY <3>1, <3>2 DEF PlanFrom, Alternatives
  <2>5. PlanFrom(q, 0, m)
    BY <2>2, <2>3, <2>4, Tasks
  <2> QED
    BY <2>5 DEF q
<1> QED
  BY <1>1, <1>2
------------------------------------------------------------------------------
\* While an adapter asks, its plan closes what it has opened; otherwise nothing
\* is open.
PlanInv ==
  /\ stage # "asking" => held = 0
  /\ stage = "asking" => PlanFrom(plan, held, Needs(Target.type))

\* list_connections asks for no adapter.
ToolInv ==
  stage \in {"validating", "resolving", "building", "asking"} =>
    Call.tool # "list_connections"

LEMMA ToolStep ==
  ASSUME CallTypes, ToolInv, [Next]_vars
  PROVE  ToolInv'
<1>1. ASSUME UNCHANGED calls PROVE Call' = Call
  BY <1>1 DEF Call, Current
<1>2. ASSUME NEW r \in Requests, Receive(r) PROVE ToolInv'
  <2>1. Call' = r
    BY <1>2, ReceivedCall DEF Call
  <2> QED
    BY <1>2, <2>1 DEF Receive, ToolInv
<1>3. CASE UNCHANGED vars \/ Finished
  BY <1>1, <1>3 DEF Finished, vars, ToolInv
<1>4. CASE Accept \/ Refuse \/ ResolveSecrets \/ BuildAdapter \/ BuildFails
  BY <1>1, <1>4
     DEF Accept, Refuse, ResolveSecrets, BuildAdapter, BuildFails, Fail, ToolInv
<1>5. CASE OpenConnection \/ CloseConnection \/ StatementReturns \/ TaskDone
  BY <1>1, <1>5
     DEF OpenConnection, CloseConnection, StatementReturns, TaskDone, Asking, ToolInv
<1>6. CASE NoDatabase \/ StatementRefused \/ BackendFails
  <2>1. stage = "asking" /\ UNCHANGED calls
    BY <1>6 DEF NoDatabase, StatementRefused, BackendFails, Asking
  <2> QED
    BY <1>1, <2>1 DEF ToolInv
<1>7. CASE AuditSuccess \/ Return \/ AuditFailure \/ Crash
  BY <1>7 DEF AuditSuccess, Return, AuditFailure, Crash, Forget, ToolInv
<1> QED
  BY <1>2, <1>3, <1>4, <1>5, <1>6, <1>7 DEF Next, ServerStep, BackendStep

LEMMA PlanHolds ==
  ASSUME PlanInv, stage = "asking"
  PROVE  /\ Needs(Target.type) \in Nat \ {0} /\ held \in 0 .. Needs(Target.type)
         /\ PlanFrom(plan, held, Needs(Target.type))
         /\ Leads(plan[1][1], held, 0, Needs(Target.type))
<1>1. Leads(plan[1][1], held, 0, Needs(Target.type))
  BY DEF PlanInv, PlanFrom
<1>2. plan[1][1] \in Seq(Instructions) /\ Len(plan[1][1]) \in Nat
  BY <1>1, LenProperties DEF Leads
<1>3. held \in 0 .. Needs(Target.type)
  BY <1>1, <1>2 DEF Leads, Follows
<1> QED
  BY <1>1, <1>3 DEF PlanInv, Needs

\* An instruction is carried out, and what a statement has shown to be
\* necessary comes after the others.
LEMMA InstructionDone ==
  ASSUME PlanInv, stage = "asking", plan[1][1] # << >>,
         NEW s, Leads(s, 0, 0, Needs(Target.type))
  PROVE  LET g == held + Delta(Instruction)
         IN  /\ PlanFrom([plan EXCEPT ![1][1] = Tail(plan[1][1])], g, Needs(Target.type))
             /\ PlanFrom([plan EXCEPT ![1][1] = Tail(plan[1][1]) \o s], g, Needs(Target.type))
<1> DEFINE m == Needs(Target.type)
           g == held + Delta(Instruction)
<1>1. /\ m \in Nat /\ PlanFrom(plan, held, m) /\ Leads(plan[1][1], held, 0, m)
      /\ Leads(s, 0, 0, m)
  BY PlanHolds
<1> HIDE DEF m
<1>2. Leads(Tail(plan[1][1]), g, 0, m)
  BY <1>1, LeadsAfterFirst DEF Instruction
<1> HIDE DEF g
<1>3. Leads(Tail(plan[1][1]) \o s, g, 0, m)
  BY <1>1, <1>2, LeadsOn
<1>4. /\ PlanFrom([plan EXCEPT ![1][1] = Tail(plan[1][1])], g, m)
      /\ PlanFrom([plan EXCEPT ![1][1] = Tail(plan[1][1]) \o s], g, m)
  BY <1>1, <1>2, <1>3, Continue
<1> QED
  BY <1>4 DEF m, g

\* An alternative fails: every connection is closed, and the next one closes
\* what it opens.
LEMMA FailStep ==
  ASSUME PlanInv, stage = "asking", NEW exc, FailAlternative(exc),
         UNCHANGED << config, calls >>
  PROVE  PlanInv'
<1> DEFINE m == Needs(Target.type)
<1>1. m \in Nat /\ PlanFrom(plan, held, m) /\ m' = m
  BY PlanHolds DEF Target, Call, Current
<1> HIDE DEF m
<1>2. held' = 0
  BY DEF FailAlternative
<1>3. CASE Len(plan[1]) > 1
  <2>1. plan' = [plan EXCEPT ![1] = Tail(@)] /\ stage' = stage
    BY <1>3 DEF FailAlternative
  <2>2. PlanFrom([plan EXCEPT ![1] = Tail(@)], 0, m)
    BY <1>1, <1>3, FallBack
  <2>3. PlanFrom(plan', held', m')
    BY <1>1, <1>2, <2>1, <2>2
  <2> QED
    BY <2>1, <2>3 DEF PlanInv, m
<1>4. CASE ~(Len(plan[1]) > 1)
  <2>1. stage' \in {"auditing", "failing"}
    BY <1>4 DEF FailAlternative, Fail
  <2> QED
    BY <1>2, <2>1 DEF PlanInv
<1> QED
  BY <1>3, <1>4

LEMMA PlanStep ==
  ASSUME CallTypes, CallFacts, ToolInv, PlanInv, [Next]_vars
  PROVE  PlanInv'
<1> DEFINE m == Needs(Target.type)
<1>1. ASSUME UNCHANGED << config, calls >> PROVE m' = m
  BY <1>1 DEF Target, Call, Current
<1>2. CASE UNCHANGED vars
  BY <1>1, <1>2 DEF vars, PlanInv
<1>3. CASE Finished
  BY <1>1, <1>3 DEF Finished, vars, PlanInv
<1>4. ASSUME NEW r \in Requests, Receive(r) PROVE PlanInv'
  BY <1>4 DEF Receive, PlanInv
<1>5. CASE Accept \/ Refuse \/ ResolveSecrets \/ BuildFails \/ AuditSuccess
  <2>1. stage # "asking" /\ stage' # "asking" /\ held' = held
    BY <1>5 DEF Accept, Refuse, ResolveSecrets, BuildFails, AuditSuccess, Fail
  <2> QED
    BY <2>1 DEF PlanInv
<1>6. CASE Return \/ AuditFailure
  <2>1. stage # "asking" /\ stage' # "asking" /\ held' = held
    BY <1>6 DEF Return, AuditFailure, Forget
  <2> QED
    BY <2>1 DEF PlanInv
<1>7. CASE Crash
  BY <1>7 DEF Crash, Forget, PlanInv
<1>8. CASE BuildAdapter
  <2>1. /\ stage = "building" /\ held' = held /\ stage' = "asking"
        /\ plan' = adapter_plan(Target.type, Call, Home)
        /\ UNCHANGED << config, calls >>
    BY <1>8 DEF BuildAdapter
  <2>2. held = 0 /\ Known(Call) /\ Current # 0
    BY <2>1 DEF PlanInv, CallFacts
  <2>3. Call \in Requests /\ config \in Configs
    BY <2>2, ElementOfSeq, LenProperties DEF CallTypes, Call, Current
  <2>4. Target.type \in {"sqlserver", "snowflake", "databricks"}
    BY <2>2, <2>3, MetadataAssumption DEF IsConfig, Known, Target, Connection
  <2>5. Call.tool # "list_connections"
    BY <2>1 DEF ToolInv
  <2>6. PlanFrom(adapter_plan(Target.type, Call, Home), 0, Needs(Target.type))
    BY <2>3, <2>4, <2>5, AdapterPlans
  <2>7. PlanFrom(plan', held', m')
    BY <1>1, <2>1, <2>2, <2>6
  <2> QED
    BY <2>1, <2>7 DEF PlanInv
<1>9. CASE OpenConnection \/ CloseConnection
  <2>1. /\ stage = "asking" /\ plan[1][1] # << >> /\ stage' = stage
        /\ plan' = [plan EXCEPT ![1][1] = Tail(plan[1][1])]
        /\ UNCHANGED << config, calls >>
    BY <1>9 DEF OpenConnection, CloseConnection, Asking, Proceed
  <2>2. held' = held + Delta(Instruction)
    <3>1. held \in Int
      BY <2>1, PlanHolds
    <3> QED
      BY <1>9, <3>1 DEF OpenConnection, CloseConnection, Asking, Delta
  <2>3. m \in Nat /\ Leads(<< >>, 0, 0, m)
    BY <2>1, PlanHolds, LeadsNowhere
  <2>4. PlanFrom(plan', held', m)
    BY <2>1, <2>2, <2>3, InstructionDone
  <2> QED
    BY <1>1, <2>1, <2>4 DEF PlanInv
<1>10. CASE StatementReturns
  <2>1. PICK n \in RowCounts :
          plan' = [plan EXCEPT ![1][1] = Tail(plan[1][1]) \o followed_by(Instruction, n)]
    BY <1>10 DEF StatementReturns, Proceed
  <2>2. /\ stage = "asking" /\ plan[1][1] # << >> /\ stage' = stage /\ held' = held
        /\ Delta(Instruction) = 0 /\ UNCHANGED << config, calls >>
    BY <1>10 DEF StatementReturns, Asking, Delta
  <2>3. m \in Nat \ {0} /\ held \in 0 .. m
    BY <2>2, PlanHolds
  <2>4. Leads(followed_by(Instruction, n), 0, 0, m)
    <3>1. Leads(<< >>, 0, 0, m) /\ n \in Nat
      BY <2>1, <2>3, LeadsNowhere, MetadataAssumption
    <3>2. Leads(repeated(Query("tables", "show"), n), 0, 0, m)
      BY <2>3, <3>1, LeadsRepeated DEF What, Source
    <3> QED
      BY <3>1, <3>2 DEF followed_by
  <2>5. held + Delta(Instruction) = held
    BY <2>2, <2>3
  <2>6. PlanFrom([plan EXCEPT ![1][1] = Tail(plan[1][1]) \o followed_by(Instruction, n)],
                 held, m)
    BY <2>2, <2>4, <2>5, InstructionDone
  <2> QED
    BY <1>1, <2>1, <2>2, <2>6 DEF PlanInv
<1>11. CASE NoDatabase \/ StatementRefused \/ BackendFails
  <2>1. stage = "asking" /\ UNCHANGED << config, calls >>
    BY <1>11 DEF NoDatabase, StatementRefused, BackendFails, Asking
  <2>2. \E exc : FailAlternative(exc)
    BY <1>11 DEF NoDatabase, StatementRefused, BackendFails
  <2> QED
    BY <2>1, <2>2, FailStep
<1>12. CASE TaskDone
  <2>1. /\ stage = "asking" /\ plan[1][1] = << >> /\ plan' = Tail(plan) /\ held' = held
        /\ stage' = (IF Len(plan) = 1 THEN "auditing" ELSE stage)
        /\ UNCHANGED << config, calls >>
    BY <1>12 DEF TaskDone
  <2>2. held = 0 /\ (Len(plan) # 1 => PlanFrom(Tail(plan), 0, m))
    BY <2>1, PlanHolds, NextTask
  <2> QED
    BY <1>1, <2>1, <2>2 DEF PlanInv
<1> QED
  BY <1>2, <1>3, <1>4, <1>5, <1>6, <1>7, <1>8, <1>9, <1>10, <1>11, <1>12
     DEF Next, ServerStep, BackendStep
------------------------------------------------------------------------------
\* Whatever fails in it, no connection stays open when a metadata call ends or
\* falls back, and SQL Server never needs more than two, the others one.
THEOREM MetadataConnectionsComeBack == Spec => []ConnectionsComeBack
<1>1. Init => ToolInv /\ PlanInv
  BY DEF Init, ToolInv, PlanInv
<1>2. MetadataInv /\ ToolInv /\ PlanInv /\ [Next]_vars => ToolInv' /\ PlanInv'
  BY ToolStep, PlanStep DEF MetadataInv
<1>3. PlanInv => ConnectionsComeBack
  <2> SUFFICES ASSUME PlanInv PROVE ConnectionsComeBack
    OBVIOUS
  <2>1. stage # "asking" => held = 0
    BY DEF PlanInv
  <2>2. ASSUME stage = "asking" PROVE held <= Needs(Target.type)
    BY <2>2, PlanHolds
  <2>3. ASSUME stage = "asking", plan[1][1] = << >> PROVE held = 0
    BY <2>3, PlanHolds, NextTask
  <2> QED
    BY <2>1, <2>2, <2>3 DEF ConnectionsComeBack, Needs
<1> QED
  BY MetadataInvariant, <1>1, <1>2, <1>3, PTL DEF Spec
------------------------------------------------------------------------------
\* What test_connection says, and whether the backend has answered it.

Reached(c) == \E i \in DOMAIN tried : tried[i].call = c /\ tried[i].outcome # None
Test       == Call.tool = "test_connection"

\* What is left of the one query of a test.
Left(n) == CASE n = 3 -> Query("name", "server")
             [] n = 2 -> << Ask("name", "server"), Close >>
             [] n = 1 -> << Close >>
             [] n = 0 -> << >>

\* The statement has returned when its connection is all that is left to close.
TestFacts ==
  /\ stage \in {"validating", "resolving", "building"} => ~Reached(Current)
  /\ stage = "asking" /\ Test =>
       \E n \in 0 .. 3 :
         plan = << << Left(n) >> >> /\ (Reached(Current) <=> n <= 1)
  /\ stage \in {"auditing", "returning"} /\ Test =>
       /\ rows # None <=> Reached(Current)
       /\ ~Reached(Current) => Target.type # "databricks"

LEMMA LeftOf ==
  /\ Left(3)[1] = Open /\ Left(2)[1] = Ask("name", "server") /\ Left(1)[1] = Close
  /\ Tail(Left(3)) = Left(2) /\ Tail(Left(2)) = Left(1) /\ Tail(Left(1)) = Left(0)
  /\ \A n \in 0 .. 3 : Left(n) = << >> <=> n = 0
BY DEF Left, Query

\* Only a statement that returns makes a difference, to the call in progress.
LEMMA ReachedAfter ==
  ASSUME tried \in Seq({tried[i] : i \in DOMAIN tried}),
         UNCHANGED calls, NEW ask, NEW outcome, Try(ask, outcome), NEW c
  PROVE  Reached(c)' <=> Reached(c) \/ (c = Current /\ outcome # None)
<1> DEFINE t == [ call |-> Current, what |-> ask.what, source |-> ask.source,
                  outcome |-> outcome ]
           S == {tried[i] : i \in DOMAIN tried} \cup {t}
           n == Len(tried)
<1>1. tried \in Seq(S) /\ t \in S /\ n \in Nat /\ DOMAIN tried = 1 .. n
  BY SeqMonotonic, LenProperties
<1>2. tried' = Append(tried, t)
  BY DEF Try
<1>3. t.call = Current /\ t.outcome = outcome
  OBVIOUS
<1> HIDE DEF S, t
<1>4. /\ DOMAIN tried' = 1 .. n + 1 /\ tried'[n + 1] = t
      /\ \A i \in 1 .. n : tried'[i] = tried[i]
  BY <1>1, <1>2, AppendProperties, LenProperties
<1> HIDE DEF n
<1>5. \A i : i \in 1 .. n + 1 <=> i \in 1 .. n \/ i = n + 1
  BY <1>1
<1> QED
  BY <1>1, <1>3, <1>4, <1>5 DEF Reached

LEMMA TestPlans ==
  ASSUME NEW type \in {"sqlserver", "snowflake", "databricks"},
         NEW r, r.tool = "test_connection", NEW home
  PROVE  adapter_plan(type, r, home) = << << Left(3) >> >>
BY DEF adapter_plan, sqlserver_plan, snowflake_plan, databricks_plan, Left

LEMMA TestFactsStep ==
  ASSUME MetadataInv, TestFacts, [Next]_vars
  PROVE  TestFacts'
<1>1. /\ CallTypes /\ CallFacts /\ TriedFacts
      /\ tried \in Seq({tried[i] : i \in DOMAIN tried})
  BY DEF MetadataInv
<1>2. ASSUME UNCHANGED calls
      PROVE  /\ Call' = Call /\ Current' = Current /\ (Test' <=> Test)
             /\ UNCHANGED config => Target' = Target
  BY <1>2 DEF Call, Current, Test, Target
<1>3. ASSUME UNCHANGED tried, NEW c PROVE Reached(c)' <=> Reached(c)
  BY <1>3 DEF Reached
<1>4. ASSUME NEW r \in Requests, Receive(r) PROVE TestFacts'
  <2>1. ~Reached(Current + 1)
    <3>1. Current + 1 \notin touched
      BY <1>1, Histories DEF CallTypes
    <3> QED
      BY <1>1, <3>1 DEF TriedFacts, Reached
  <2>2. /\ Current' = Current + 1 /\ UNCHANGED tried /\ Call' = r
        /\ stage' \in {"validating", "auditing"}
        /\ stage' = "auditing" => r.tool = "list_connections"
    BY <1>1, <1>4, ReceivedCall DEF Receive, Call
  <2>3. ~Reached(Current)'
    BY <2>1, <2>2 DEF Reached
  <2> QED
    BY <2>2, <2>3 DEF TestFacts, Test
<1>5. CASE UNCHANGED vars \/ Finished
  <2>1. UNCHANGED vars
    BY <1>5 DEF Finished
  <2> QED
    BY <1>2, <1>3, <2>1 DEF vars, TestFacts
<1>6. CASE Accept \/ Refuse \/ ResolveSecrets \/ BuildFails
  <2>1. /\ stage' \in {"resolving", "building", "failing"} /\ UNCHANGED << calls, tried >>
        /\ stage \in {"validating", "resolving", "building"}
    BY <1>6 DEF Accept, Refuse, ResolveSecrets, BuildFails, Fail
  <2> QED
    BY <1>2, <1>3, <2>1 DEF TestFacts
<1>7. CASE BuildAdapter
  <2>1. /\ stage = "building" /\ stage' = "asking" /\ UNCHANGED << calls, tried >>
        /\ plan' = adapter_plan(Target.type, Call, Home)
    BY <1>7 DEF BuildAdapter
  <2>2. Target.type \in {"sqlserver", "snowflake", "databricks"}
    <3>1. config \in Configs /\ Known(Call)
      BY <1>1, <2>1 DEF CallTypes, CallFacts
    <3> QED
      BY <3>1, MetadataAssumption DEF IsConfig, Known, Target, Connection
  <2>3. ~Reached(Current)
    BY <2>1 DEF TestFacts
  <2>4. Test => plan' = << << Left(3) >> >>
    BY <2>1, <2>2, TestPlans DEF Test
  <2> QED
    BY <1>2, <1>3, <2>1, <2>3, <2>4 DEF TestFacts
<1>8. ASSUME stage = "asking", Test
      PROVE  /\ plan[1] = << plan[1][1] >> /\ Len(plan[1]) = 1 /\ Len(plan) = 1
             /\ \E n \in 0 .. 3 : /\ plan = << << Left(n) >> >>
                                  /\ plan[1][1] = Left(n)
                                  /\ Reached(Current) <=> n <= 1
             /\ \A s : [plan EXCEPT ![1][1] = s] = << << s >> >>
  <2>1. PICK n \in 0 .. 3 : plan = << << Left(n) >> >> /\ (Reached(Current) <=> n <= 1)
    BY <1>8 DEF TestFacts
  <2> QED
    BY <2>1
<1>9. CASE OpenConnection \/ CloseConnection
  <2>1. /\ stage = "asking" /\ stage' = stage /\ UNCHANGED << calls, tried >>
        /\ plan' = [plan EXCEPT ![1][1] = Tail(plan[1][1])] /\ plan[1][1] # << >>
        /\ Instruction.do \in {"open", "close"}
    BY <1>9 DEF OpenConnection, CloseConnection, Asking, Proceed
  <2>2. ASSUME Test
        PROVE  \E n \in 0 .. 3 :
                 plan' = << << Left(n) >> >> /\ (Reached(Current) <=> n <= 1)
    <3>1. PICK n \in 0 .. 3 : plan[1][1] = Left(n) /\ (Reached(Current) <=> n <= 1)
      BY <1>8, <2>1, <2>2
    <3>2. n = 3 \/ n = 1
      BY <2>1, <3>1, LeftOf DEF Instruction, Ask
    <3>3. Tail(plan[1][1]) = Left(n - 1) /\ n - 1 \in 0 .. 3 /\ (n - 1 <= 1 <=> n <= 1)
      BY <3>1, <3>2, LeftOf
    <3> QED
      BY <1>8, <2>1, <2>2, <3>1, <3>3
  <2> QED
    BY <1>2, <1>3, <2>1, <2>2 DEF TestFacts
<1>10. CASE StatementReturns
  <2>1. PICK n \in RowCounts :
          /\ Try(Instruction, n)
          /\ plan' = [plan EXCEPT ![1][1] = Tail(plan[1][1]) \o followed_by(Instruction, n)]
    BY <1>10 DEF StatementReturns, Proceed
  <2>2. /\ stage = "asking" /\ stage' = stage /\ UNCHANGED calls /\ plan[1][1] # << >>
        /\ Instruction.do = "ask"
    BY <1>10 DEF StatementReturns, Asking
  <2>3. n # None
    BY <2>1, MetadataAssumption, MetadataNoneAssumption
  <2>4. Reached(Current)'
    BY <1>1, <1>2, <2>1, <2>2, <2>3, ReachedAfter
  <2>5. ASSUME Test PROVE plan' = << << Left(1) >> >>
    <3>1. PICK k \in 0 .. 3 : plan[1][1] = Left(k)
      BY <1>8, <2>2, <2>5
    <3>2. k = 2
      BY <2>2, <3>1, LeftOf DEF Instruction, Open, Close
    <3>3. Tail(plan[1][1]) = Left(1) /\ followed_by(Instruction, n) = << >>
      BY <2>5, <3>1, <3>2, LeftOf DEF followed_by, Test
    <3>4. Left(1) \o << >> = Left(1)
      BY DEF Left
    <3> QED
      BY <1>8, <2>1, <2>2, <2>5, <3>3, <3>4
  <2> QED
    BY <1>2, <2>2, <2>4, <2>5 DEF TestFacts
<1>11. CASE BackendFails
  <2>1. PICK exc \in BackendErrors : FailAlternative(exc)
    BY <1>11 DEF BackendFails
  <2>2. /\ stage = "asking" /\ UNCHANGED << config, calls >> /\ plan[1][1] # << >>
        /\ Instruction.do \in {"open", "ask"} /\ Try(NextAsk, None)
    BY <1>11 DEF BackendFails, Asking
  <2>3. \A c : Reached(c)' <=> Reached(c)
    BY <1>1, <2>2, ReachedAfter
  <2>4. ASSUME Test
        PROVE  /\ ~Reached(Current) /\ ~(Len(plan[1]) > 1)
    <3>1. PICK k \in 0 .. 3 : plan[1][1] = Left(k) /\ (Reached(Current) <=> k <= 1)
      BY <1>8, <2>2, <2>4
    <3>2. k = 2 \/ k = 3
      BY <2>2, <3>1, LeftOf DEF Instruction, Close
    <3>3. ~Reached(Current)
      BY <3>1, <3>2
    <3>4. Len(plan[1]) = 1
      BY <1>8, <2>2, <2>4
    <3> QED
      BY <3>3, <3>4
  <2>5. CASE Len(plan[1]) > 1
    <3>1. stage' = stage
      BY <2>1, <2>5 DEF FailAlternative
    <3> QED
      BY <1>2, <2>2, <2>4, <2>5, <3>1 DEF TestFacts
  <2>6. CASE ~(Len(plan[1]) > 1) /\ catches(Target.type, Call.tool)
    <3>1. stage' = "auditing" /\ rows' = None
      BY <2>1, <2>6 DEF FailAlternative
    <3> QED
      BY <1>2, <2>2, <2>3, <2>4, <2>6, <3>1 DEF TestFacts, catches
  <2>7. CASE ~(Len(plan[1]) > 1) /\ ~catches(Target.type, Call.tool)
    <3>1. stage' = "failing"
      BY <2>1, <2>7 DEF FailAlternative, Fail
    <3> QED
      BY <3>1 DEF TestFacts
  <2> QED
    BY <2>5, <2>6, <2>7
<1>12. CASE NoDatabase \/ StatementRefused
  <2>1. /\ stage = "asking" /\ UNCHANGED calls /\ Instruction.do = "ask"
        /\ stage' \in {"asking", "auditing", "failing"} /\ plan[1][1] # << >>
    BY <1>12 DEF NoDatabase, StatementRefused, Asking, FailAlternative, Fail
  <2>2. ASSUME Test PROVE FALSE
    <3>1. PICK k \in 0 .. 3 : plan[1][1] = Left(k)
      BY <1>8, <2>1, <2>2
    <3>2. Instruction.what = "name"
      BY <2>1, <3>1, LeftOf DEF Instruction, Open, Close, Ask
    <3> QED
      BY <1>12, <2>2, <3>2
         DEF NoDatabase, StatementRefused, nameless, Answerable, Test
  <2> QED
    BY <1>2, <2>1, <2>2 DEF TestFacts
<1>13. CASE TaskDone
  <2>1. /\ stage = "asking" /\ plan[1][1] = << >> /\ UNCHANGED << calls, tried, rows >>
        /\ stage' = (IF Len(plan) = 1 THEN "auditing" ELSE stage)
    BY <1>13 DEF TaskDone
  <2>2. rows # None
    BY <1>1, <2>1, MetadataNoneAssumption DEF CallFacts
  <2>3. Test => Reached(Current) /\ stage' = "auditing"
    BY <1>8, <2>1, LeftOf
  <2> QED
    BY <1>2, <1>3, <2>1, <2>2, <2>3 DEF TestFacts
<1>14. CASE AuditSuccess
  <2>1. /\ stage = "auditing" /\ stage' = "returning"
        /\ UNCHANGED << config, calls, tried, rows >>
    BY <1>14 DEF AuditSuccess
  <2> QED
    BY <1>2, <1>3, <2>1 DEF TestFacts
<1>15. CASE Return \/ AuditFailure \/ Crash
  BY <1>15 DEF Return, AuditFailure, Crash, Forget, TestFacts
<1> QED
  BY <1>4, <1>5, <1>6, <1>7, <1>9, <1>10, <1>11, <1>12, <1>13, <1>14, <1>15
     DEF Next, ServerStep, BackendStep

LEMMA TestsStep ==
  ASSUME MetadataInv, TestFacts, TestsTellTheTruth, [Next]_vars
  PROVE  TestsTellTheTruth'
<1>1. /\ CallTypes /\ CallFacts /\ TriedFacts
      /\ tried \in Seq({tried[i] : i \in DOMAIN tried})
  BY DEF MetadataInv
<1> DEFINE type(c) == config.connections[calls[c].connection_name].type
<1> SUFFICES ASSUME NEW c \in DOMAIN answers', calls'[c].tool = "test_connection",
                    answers'[c].status = "ok"
             PROVE  /\ answers'[c].rows # None <=> Reached(c)'
                    /\ ~Reached(c)' => type(c)' # "databricks"
  BY DEF TestsTellTheTruth, Reached, TriedBy
<1>2. CASE c \in DOMAIN answers /\ answers'[c] = answers[c]
  <2>1. c \in DOMAIN calls /\ config' = config /\ calls'[c] = calls[c]
    BY <1>1, <1>2, CallsKept, Histories
  <2>2. /\ answers[c].rows # None <=> Reached(c)
        /\ ~Reached(c) => type(c) # "databricks"
    BY <1>2, <2>1 DEF TestsTellTheTruth, Reached, TriedBy
  <2>3. Reached(c)' <=> Reached(c)
    <3>1. CASE UNCHANGED tried
      BY <3>1 DEF Reached
    <3>2. CASE StatementReturns \/ NoDatabase \/ StatementRefused \/ BackendFails
      <4>1. UNCHANGED calls /\ stage = "asking"
        BY <3>2 DEF StatementReturns, NoDatabase, StatementRefused, BackendFails, Asking
      <4>2. c # Current
        <5>1. answers[Current].status = "open"
          BY <1>1, <4>1 DEF CallFacts, Unanswered
        <5> QED
          BY <1>2, <5>1
      <4>3. \E ask, outcome : Try(ask, outcome)
        BY <3>2 DEF StatementReturns, NoDatabase, StatementRefused, BackendFails
      <4> QED
        BY <1>1, <4>1, <4>2, <4>3, ReachedAfter
    <3> QED
      BY <3>1, <3>2
         DEF Next, ServerStep, BackendStep, Receive, Accept, Refuse, ResolveSecrets,
             BuildAdapter, BuildFails, OpenConnection, CloseConnection, TaskDone,
             AuditSuccess, Return, AuditFailure, Crash, Finished, vars
  <2> QED
    BY <1>2, <2>1, <2>2, <2>3
<1>3. CASE Closing /\ c = Current /\ c \in DOMAIN answers
  <2>1. stage # "idle" /\ UNCHANGED << config, calls, tried >>
    BY <1>1, <1>3, ClosingStep
  <2>2. stage = "returning" /\ Answer(Answered(rows))
    <3>1. CASE Answer(Lost)
      BY <1>1, <1>3, <2>1, <3>1, AnsweredCall, AnswerTypes
    <3>2. CASE stage = "failing" /\ Answer(Failed(normalize_exception(error)))
      BY <1>1, <1>3, <2>1, <3>2, AnsweredCall, AnswerTypes, FailingError
    <3> QED
      BY <1>1, <1>3, <3>1, <3>2, ClosingStep
  <2>3. answers'[c].rows = rows
    BY <1>1, <1>3, <2>1, <2>2, AnsweredCall, AnswerTypes DEF CallTypes
  <2>4. Test
    BY <1>3, <2>1 DEF Test, Call
  <2>5. /\ rows # None <=> Reached(c)
        /\ ~Reached(c) => type(c) # "databricks"
    BY <1>3, <2>2, <2>4 DEF TestFacts, Target, Call
  <2>6. Reached(c)' <=> Reached(c)
    BY <2>1 DEF Reached
  <2> QED
    BY <2>1, <2>3, <2>5, <2>6
<1> QED
  BY <1>1, <1>2, <1>3, AnswersAfter DEF Unanswered

\* test_connection says ok only if the backend has answered on an opened
\* connection; where it has not, no Databricks connection is called ok=False:
\* its adapter raises.
THEOREM TestsAreTrue == Spec => []TestsTellTheTruth
<1>1. Init => TestFacts /\ TestsTellTheTruth
  BY DEF Init, TestFacts, TestsTellTheTruth
<1>2. MetadataInv /\ TestFacts /\ TestsTellTheTruth /\ [Next]_vars
        => TestFacts' /\ TestsTellTheTruth'
  BY TestFactsStep, TestsStep
<1> QED
  BY MetadataInvariant, <1>1, <1>2, PTL DEF Spec
=============================================================================
