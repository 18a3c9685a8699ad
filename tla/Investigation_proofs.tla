------------------------ MODULE Investigation_proofs -------------------------
(***************************************************************************)
(* Proofs about Investigation, for any reports with finitely many          *)
(* indicators, any answers of the provider and any changes of the key.     *)
(* First the lookups: those of every stored analysis are accounted for.    *)
(* Then what an investigation shows: what nobody checked is nowhere clean, *)
(* scores can be explained, and totals, lists and documents agree.         *)
(***************************************************************************)
EXTENDS Investigation, Sums_proofs

-----------------------------------------------------------------------------
(***************************************************************************)
(* The queue: the indicators of each type, one list after the other        *)
(***************************************************************************)

(* A sequence that names each element of a set once *)
Enumerates(q, S) ==
  /\ q \in Seq(S) /\ Len(q) = Cardinality(S)
  /\ \A i, j \in 1 .. Len(q) : q[i] = q[j] => i = j
  /\ \A x \in S : \E i \in 1 .. Len(q) : q[i] = x

(* SetToSeq names each element of a finite set once.                       *)
LEMMA SetEnumerated ==
  ASSUME NEW S, IsFiniteSet(S)
  PROVE  Enumerates(SetToSeq(S), S)
<1> DEFINE n == Cardinality(S)
           q == SetToSeq(S)
<1>1. n \in Nat /\ ExistsBijection(1 .. n, S)
  BY FS_CardinalityType
<1>2. \E f \in [ 1 .. n -> S ] : IsInjective(f)
  BY <1>1 DEF ExistsBijection, Bijection, Injection
<1>3. q \in [ 1 .. n -> S ] /\ IsInjective(q)
  BY <1>2 DEF SetToSeq
<1>4. q \in Seq(S) /\ Len(q) = n
  BY <1>1, <1>3
<1>5. q \in Injection(1 .. n, S)
  BY <1>3 DEF Injection
<1>6. IsFiniteSet(1 .. n) /\ Cardinality(1 .. n) = n
  BY <1>1, FS_Interval
<1>7. q \in Surjection(1 .. n, S)
  BY <1>5, <1>6, FS_Injection
<1>8. \A x \in S : \E i \in 1 .. n : q[i] = x
  BY <1>7 DEF Surjection
<1>9. \A i, j \in 1 .. n : q[i] = q[j] => i = j
  BY <1>3 DEF IsInjective
<1> QED
  BY <1>4, <1>8, <1>9 DEF Enumerates

(* Two lists without a common element, one after the other *)
LEMMA Concatenated ==
  ASSUME NEW S, NEW T, IsFiniteSet(S), IsFiniteSet(T), S \cap T = {},
         NEW a, NEW b, Enumerates(a, S), Enumerates(b, T)
  PROVE  LET q == a \o b IN
         /\ Enumerates(q, S \cup T) /\ IsFiniteSet(S \cup T)
         /\ Len(q) = Cardinality(S) + Cardinality(T)
         /\ \A i \in 1 .. Len(q) : /\ i <= Cardinality(S) => q[i] = a[i]
                                   /\ q[i] \in S <=> i <= Cardinality(S)
<1> DEFINE m == Len(a)
           n == Len(b)
           q == a \o b
<1>1. /\ a \in Seq(S \cup T) /\ b \in Seq(S \cup T)
      /\ m = Cardinality(S) /\ n = Cardinality(T) /\ m \in Nat /\ n \in Nat
      /\ \A i \in 1 .. m : a[i] \in S
      /\ \A i \in 1 .. n : b[i] \in T
  BY DEF Enumerates
<1>2. /\ q \in Seq(S \cup T) /\ Len(q) = m + n
      /\ \A i \in 1 .. m : q[i] = a[i]
      /\ \A i \in 1 .. n : q[m + i] = b[i]
  BY <1>1
<1>3. \A i \in 1 .. m + n : i > m => i - m \in 1 .. n /\ q[i] = b[i - m]
  <2> SUFFICES ASSUME NEW i \in 1 .. m + n, i > m
               PROVE  i - m \in 1 .. n /\ q[i] = b[i - m]
    OBVIOUS
  <2>1. i - m \in 1 .. n /\ m + (i - m) = i
    BY <1>1
  <2> HIDE DEF m, n, q
  <2> QED
    BY <1>2, <2>1
<1>4. /\ IsFiniteSet(S \cup T)
      /\ Cardinality(S \cup T) = Cardinality(S) + Cardinality(T)
  <2>1. Cardinality(S \cap T) = 0
    BY FS_EmptySet
  <2>2. /\ IsFiniteSet(S \cup T)
        /\ Cardinality(S \cup T)
             = Cardinality(S) + Cardinality(T) - Cardinality(S \cap T)
    BY FS_Union, Zenon
  <2>3. Cardinality(S) \in Nat /\ Cardinality(T) \in Nat
    BY FS_CardinalityType
  <2> QED
    BY <2>1, <2>2, <2>3
<1> HIDE DEF m, n, q
<1>5. \A i \in 1 .. Len(q) : q[i] \in S <=> i <= m
  <2> SUFFICES ASSUME NEW i \in 1 .. Len(q)
               PROVE  q[i] \in S <=> i <= m
    OBVIOUS
  <2>1. i <= m => q[i] \in S
    BY <1>1, <1>2
  <2>2. i > m => q[i] \in T
    BY <1>1, <1>2, <1>3
  <2> QED
    BY <1>1, <1>2, <2>1, <2>2
<1>6. \A i, j \in 1 .. Len(q) : q[i] = q[j] => i = j
  <2> SUFFICES ASSUME NEW i \in 1 .. Len(q), NEW j \in 1 .. Len(q), q[i] = q[j]
               PROVE  i = j
    OBVIOUS
  <2>1. /\ \A k, l \in 1 .. m : a[k] = a[l] => k = l
        /\ \A k, l \in 1 .. n : b[k] = b[l] => k = l
    BY DEF Enumerates, m, n
  <2>2. CASE i <= m
    BY <1>1, <1>2, <1>5, <2>1, <2>2
  <2>3. CASE i > m
    <3>1. j > m
      BY <1>1, <1>2, <1>5, <2>3
    <3>2. i - m = j - m
      BY <1>2, <1>3, <2>1, <2>3, <3>1
    <3> QED
      BY <1>1, <1>2, <3>2
  <2> QED
    BY <1>1, <1>2, <2>2, <2>3
<1>7. \A x \in S \cup T : \E i \in 1 .. Len(q) : q[i] = x
  <2>1. ASSUME NEW x \in S PROVE \E i \in 1 .. Len(q) : q[i] = x
    <3>1. PICK i \in 1 .. m : a[i] = x
      BY <2>1 DEF Enumerates, m
    <3>2. i \in 1 .. Len(q) /\ q[i] = a[i]
      BY <1>1, <1>2
    <3> QED
      BY <3>1, <3>2
  <2>2. ASSUME NEW x \in T PROVE \E i \in 1 .. Len(q) : q[i] = x
    <3>1. PICK i \in 1 .. n : b[i] = x
      BY <2>2 DEF Enumerates, n
    <3>2. m + i \in 1 .. Len(q)
      BY <1>1, <1>2
    <3> QED
      BY <1>2, <3>1, <3>2
  <2> QED
    BY <2>1, <2>2
<1>8. Enumerates(q, S \cup T)
  BY <1>1, <1>2, <1>4, <1>6, <1>7 DEF Enumerates
<1>9. \A i \in 1 .. Len(q) : i <= m => q[i] = a[i]
  BY <1>1, <1>2
<1> QED
  BY <1>1, <1>2, <1>4, <1>5, <1>8, <1>9 DEF q

(* The first c elements of a list are of B and no domains, the next d are of  *)
(* D and the last u of U: domains and URLs.                                   *)
Placed(order, B, D, U, c, d, u) ==
  /\ c \in Nat /\ d \in Nat /\ u \in Nat /\ Len(order) = (c + d) + u
  /\ \A x \in B \cup D : TypeOf(x) # "urls"
  /\ \A x \in B : TypeOf(x) # "domains"
  /\ \A x \in D : TypeOf(x) = "domains"
  /\ \A x \in U : TypeOf(x) = "urls"
  /\ \A i \in 1 .. Len(order) :
       /\ i <= c => order[i] \in B
       /\ c < i /\ i <= c + d => order[i] \in D
       /\ i > c + d => order[i] \in U

(* Then the types can be told by the positions from the end.                  *)
LEMMA TypedByPosition ==
  ASSUME NEW order, NEW B, NEW D, NEW U, NEW c, NEW d, NEW u,
         Placed(order, B, D, U, c, d, u)
  PROVE  \A i \in 1 .. Len(order) :
           /\ TypeOf(order[i]) = "urls" <=> i > Len(order) - u
           /\ TypeOf(order[i]) = "domains" <=>
                Len(order) - u - d < i /\ i <= Len(order) - u
<1> USE DEF Placed
<1> SUFFICES ASSUME NEW i \in 1 .. Len(order)
             PROVE  /\ TypeOf(order[i]) = "urls" <=> i > Len(order) - u
                    /\ TypeOf(order[i]) = "domains" <=>
                         Len(order) - u - d < i /\ i <= Len(order) - u
  OBVIOUS
<1>1. Len(order) - u = c + d /\ Len(order) - u - d = c
  OBVIOUS
<1>2. CASE i <= c
  <2>1. order[i] \in B
    BY <1>2
  <2>2. TypeOf(order[i]) # "urls" /\ TypeOf(order[i]) # "domains"
    BY <2>1
  <2>3. ~ (i > Len(order) - u) /\ ~ (Len(order) - u - d < i)
    BY <1>1, <1>2
  <2> QED
    BY <2>2, <2>3
<1>3. CASE c < i /\ i <= c + d
  <2>1. order[i] \in D
    BY <1>3
  <2>2. TypeOf(order[i]) # "urls" /\ TypeOf(order[i]) = "domains"
    BY <2>1
  <2>3. ~ (i > Len(order) - u) /\ Len(order) - u - d < i /\ i <= Len(order) - u
    BY <1>1, <1>3
  <2> QED
    BY <2>2, <2>3
<1>4. CASE i > c + d
  <2>1. order[i] \in U
    BY <1>4
  <2>2. TypeOf(order[i]) = "urls" /\ TypeOf(order[i]) # "domains"
    BY <2>1
  <2>3. i > Len(order) - u
    BY <1>1, <1>4
  <2> QED
    BY <2>2, <2>3
<1> QED
  BY <1>2, <1>3, <1>4

(* The queue of an analysis: its lookups in the order of their types *)
LEMMA Ordered ==
  ASSUME NEW found, Sorted(found),
         NEW order, order = InOrder(found),
         NEW u, u = Cardinality(found["urls"]),
         NEW d, d = Cardinality(found["domains"])
  PROVE  /\ Enumerates(order, Enrichable(found)) /\ IsFiniteSet(Enrichable(found))
         /\ Len(order) \in Nat /\ u \in Nat /\ d \in Nat /\ u + d <= Len(order)
         /\ \A i \in 1 .. Len(order) :
              /\ TypeOf(order[i]) = "urls" <=> i > Len(order) - u
              /\ TypeOf(order[i]) = "domains" <=>
                   Len(order) - u - d < i /\ i <= Len(order) - u
<1> DEFINE H == found["sha256"]
           A == found["ipv4"]
           D == found["domains"]
           U == found["urls"]
           ha == SetToSeq(H) \o SetToSeq(A)
           had == ha \o SetToSeq(D)
<1>1. /\ IsFiniteSet(H) /\ \A x \in H : TypeOf(x) = "sha256"
      /\ IsFiniteSet(A) /\ \A x \in A : TypeOf(x) = "ipv4"
      /\ IsFiniteSet(D) /\ \A x \in D : TypeOf(x) = "domains"
      /\ IsFiniteSet(U) /\ \A x \in U : TypeOf(x) = "urls"
  BY DEF Sorted, IocTypes
<1>2. order = had \o SetToSeq(U)
  BY DEF InOrder
<1>3. Enrichable(found) = ((H \cup A) \cup D) \cup U
  BY DEF Enrichable, EnrichableTypes
<1> HIDE DEF H, A, D, U
<1>4. /\ H \cap A = {} /\ (H \cup A) \cap D = {} /\ ((H \cup A) \cup D) \cap U = {}
      /\ \A x \in (H \cup A) \cup D : TypeOf(x) # "urls"
      /\ \A x \in H \cup A : TypeOf(x) # "domains"
      /\ \A x \in U : TypeOf(x) # "domains"
  BY <1>1
<1>e. /\ Enumerates(SetToSeq(H), H) /\ Enumerates(SetToSeq(A), A)
      /\ Enumerates(SetToSeq(D), D) /\ Enumerates(SetToSeq(U), U)
  BY <1>1, SetEnumerated
<1> DEFINE After(S, a, T, b, q) ==
             /\ Enumerates(q, S \cup T) /\ IsFiniteSet(S \cup T)
             /\ Len(q) = Cardinality(S) + Cardinality(T)
             /\ \A i \in 1 .. Len(q) : /\ i <= Cardinality(S) => q[i] = a[i]
                                       /\ q[i] \in S <=> i <= Cardinality(S)
<1>f. ASSUME NEW S, NEW T, IsFiniteSet(S), IsFiniteSet(T), S \cap T = {},
             NEW a, NEW b, Enumerates(a, S), Enumerates(b, T)
      PROVE  After(S, a, T, b, a \o b)
  BY <1>f, Concatenated, Zenon
<1> HIDE DEF After
<1>5. After(H, SetToSeq(H), A, SetToSeq(A), ha)
  BY <1>1, <1>4, <1>e, <1>f
<1>5a. /\ Enumerates(ha, H \cup A) /\ IsFiniteSet(H \cup A)
  BY <1>5 DEF After
<1> HIDE DEF ha
<1>6. After(H \cup A, ha, D, SetToSeq(D), had)
  BY <1>1, <1>4, <1>5a, <1>e, <1>f
<1>6a. /\ Enumerates(had, (H \cup A) \cup D) /\ IsFiniteSet((H \cup A) \cup D)
       /\ Len(had) = Cardinality(H \cup A) + Cardinality(D)
       /\ \A i \in 1 .. Len(had) : had[i] \in H \cup A <=> i <= Cardinality(H \cup A)
  BY <1>6 DEF After
<1> HIDE DEF had
<1>7. After((H \cup A) \cup D, had, U, SetToSeq(U), order)
  BY <1>1, <1>2, <1>4, <1>6a, <1>e, <1>f
<1>7a. /\ Enumerates(order, Enrichable(found)) /\ IsFiniteSet(Enrichable(found))
       /\ Len(order) = Cardinality((H \cup A) \cup D) + Cardinality(U)
       /\ \A i \in 1 .. Len(order) :
            /\ i <= Cardinality((H \cup A) \cup D) => order[i] = had[i]
            /\ order[i] \in (H \cup A) \cup D <=> i <= Cardinality((H \cup A) \cup D)
  BY <1>3, <1>7 DEF After
<1>8. /\ Cardinality((H \cup A) \cup D) \in Nat /\ Cardinality(H \cup A) \in Nat
      /\ Cardinality(U) \in Nat /\ Cardinality(D) \in Nat
      /\ Cardinality(U) = u /\ Cardinality(D) = d
      /\ Cardinality((H \cup A) \cup D) = Len(had)
  BY <1>1, <1>5a, <1>6a, FS_CardinalityType DEF U, D, Enumerates
<1>9. \A i \in 1 .. Len(order) : order[i] \in ((H \cup A) \cup D) \cup U
  BY <1>3, <1>7a DEF Enumerates
<1> DEFINE W == (H \cup A) \cup D
           w == Len(had)
           c == Cardinality(H \cup A)
<1>10. /\ Len(order) = w + u /\ w \in Nat /\ u \in Nat
       /\ w = c + d /\ c \in Nat /\ d \in Nat
       /\ \A i \in 1 .. w : had[i] \in H \cup A <=> i <= c
       /\ \A i \in 1 .. Len(order) : /\ i <= w => order[i] = had[i]
                                     /\ order[i] \in W <=> i <= w
  BY <1>6a, <1>7a, <1>8, Zenon
<1>11. \A i \in 1 .. Len(order) : order[i] \in W \/ order[i] \in U
  BY <1>9
<1> HIDE DEF W, w, c
<1>12. ASSUME NEW i \in 1 .. Len(order)
       PROVE  /\ i <= c => order[i] \in H \cup A
              /\ c < i /\ i <= c + d => order[i] \in D
              /\ i > c + d => order[i] \in U
  <2>1. order[i] \in U \/ i <= w
    BY <1>10, <1>11
  <2>2. ASSUME i <= w
        PROVE  order[i] \in W /\ order[i] = had[i] /\ i \in 1 .. w
    BY <1>10, <2>2
  <2>3. ASSUME i <= w
        PROVE  order[i] \in H \cup A <=> i <= c
    BY <1>10, <2>2, <2>3
  <2>4. ASSUME i <= w, ~ (i <= c)
        PROVE  order[i] \in D
    BY <2>2, <2>3, <2>4 DEF W
  <2>5. w = c + d /\ c \in Nat /\ d \in Nat /\ i \in Int
    BY <1>10
  <2> QED
    BY <2>1, <2>3, <2>4, <2>5
<1>t. \A i \in 1 .. Len(order) :
        /\ TypeOf(order[i]) = "urls" <=> i > Len(order) - u
        /\ TypeOf(order[i]) = "domains" <=>
             Len(order) - u - d < i /\ i <= Len(order) - u
  <2>1. Len(order) = (c + d) + u /\ c \in Nat /\ d \in Nat /\ u \in Nat
    BY <1>10
  <2>2. Placed(order, H \cup A, D, U, c, d, u)
    BY <1>1, <1>4, <1>12, <2>1 DEF Placed
  <2> QED
    BY <2>2, TypedByPosition
<1>13. Len(order) \in Nat /\ u \in Nat /\ d \in Nat /\ u + d <= Len(order)
  BY <1>10
<1>14. /\ Enumerates(order, Enrichable(found)) /\ IsFiniteSet(Enrichable(found))
  BY <1>7a
<1> QED
  BY <1>t, <1>13, <1>14

(* What a lookup can come to *)
LEMMA Outcomes ==
  ASSUME NEW keyed, NEW ioc, NEW response \in Responses,
         NEW outcome, outcome = LookupRaw(keyed, ioc, response)
  PROVE  \/ /\ outcome.error = "none" /\ Valid(ioc)
            /\ WithVerdict(outcome.record[1]).ioc = ioc
            /\ Answered(WithVerdict(outcome.record[1]))
            /\ outcome.record[1].found \in { "yes", "no" }
         \/ outcome.error = "InvalidIndicator" /\ ~ Valid(ioc)
         \/ /\ outcome.error \in { "Timeout", "Connection", "UnexpectedAPIResponse",
                                   "RateLimitExceeded", "InvalidAPIKey" }
            /\ Valid(ioc)
         \/ outcome.error \in { "MissingAPIKey", "Overflow" }
<1> DEFINE Good(o) == /\ o.error = "none" /\ WithVerdict(o.record[1]).ioc = ioc
                      /\ Answered(WithVerdict(o.record[1]))
                      /\ o.record[1].found \in { "yes", "no" }
           Bad(o) == o.error \in { "Timeout", "Connection", "UnexpectedAPIResponse",
                                   "RateLimitExceeded", "InvalidAPIKey", "Overflow" }
<1>1. ASSUME NEW found \in { "yes", "no" }, NEW body, Numeric(body),
             NEW o, o = Found(Record(ioc, found, body))
      PROVE  Good(o)
  <2> DEFINE record == Record(ioc, found, body)
             told == WithVerdict(record)
  <2>1. /\ told.ioc = ioc /\ told.found = found /\ told.malicious = body.malicious
        /\ told.suspicious = body.suspicious /\ told.harmless = body.harmless
        /\ told.undetected = body.undetected /\ told.reputation = body.reputation
        /\ told.verdict = FormatVerdict(record)
    BY DEF Record, WithVerdict
  <2>2. FormatVerdict(record) = FormatVerdict(told)
    BY DEF Record, WithVerdict, FormatVerdict
  <2>3. o.error = "none" /\ o.record[1] = record /\ record.found = found
    BY <1>1 DEF Found, Record
  <2> HIDE DEF told
  <2>4. Answered(told)
    BY <1>1, <2>1, <2>2 DEF Answered, Numeric
  <2> QED
    BY <2>1, <2>3, <2>4 DEF told
<1>2. ASSUME NEW error, NEW o, o = Raised(error)
      PROVE  o.error = error
  BY <1>2 DEF Raised
<1>3. ASSUME NEW body, body.shape \in Shapes, body.shape = "stats" => Numeric(body),
             NEW o, o = ParseSuccess(ioc, body)
      PROVE  Good(o) \/ Bad(o)
  <2>1. CASE body.shape = "stats"
    <3>1. o = Found(Record(ioc, "yes", body))
      BY <1>3, <2>1 DEF ParseSuccess
    <3>2. Numeric(body)
      BY <1>3, <2>1
    <3> HIDE DEF Good
    <3> QED
      BY <1>1, <3>1, <3>2
  <2>2. CASE body.shape = "huge_date"
    BY <1>2, <1>3, <2>2 DEF ParseSuccess
  <2>3. CASE body.shape \in { "not_json", "wrong_shape", "malformed" }
    BY <1>2, <1>3, <2>3 DEF ParseSuccess
  <2> QED
    BY <1>3, <2>1, <2>2, <2>3 DEF Shapes
<1>4. ASSUME response.kind = "answer", NEW o, o = Interpret(ioc, response)
      PROVE  Good(o) \/ Bad(o)
  <2>1. CASE response.status = 200
    <3>1. /\ response.body.shape \in Shapes
          /\ response.body.shape = "stats" => Numeric(response.body)
      BY <1>4, <2>1, ResponsesAssumption
    <3>2. o = ParseSuccess(ioc, response.body)
      BY <1>4, <2>1 DEF Interpret
    <3> QED
      BY <1>3, <3>1, <3>2
  <2>2. CASE response.status = 404
    <3> DEFINE body == [ NoBody EXCEPT !.undetected = 0 ]
    <3>1. o = Found(Record(ioc, "no", body))
      BY <1>4, <2>2 DEF Interpret, NotFoundRecord
    <3>2. Numeric(body)
      BY DEF Numeric, NoBody, Body
    <3> HIDE DEF body
    <3> QED
      BY <1>1, <3>1, <3>2
  <2>3. CASE response.status \in { 401, 403 }
    BY <1>2, <1>4, <2>3 DEF Interpret
  <2>4. CASE response.status = 429
    BY <1>2, <1>4, <2>4 DEF Interpret
  <2>5. CASE response.status \notin { 200, 404, 401, 403, 429 }
    <3>1. o = Raised("UnexpectedAPIResponse")
      BY <1>4, <2>5 DEF Interpret
    <3> QED
      BY <1>2, <3>1
  <2> QED
    BY <2>1, <2>2, <2>3, <2>4, <2>5
<1>5. ASSUME NEW o, o = Request(ioc, response)
      PROVE  Good(o) \/ Bad(o)
  <2>1. CASE response.kind = "answer"
    BY <1>4, <1>5, <2>1 DEF Request
  <2>2. CASE response.kind = "timeout"
    BY <1>2, <1>5, <2>2 DEF Request
  <2>3. CASE response.kind \in { "refused", "broken" }
    BY <1>2, <1>5, <2>3 DEF Request
  <2> QED
    BY <2>1, <2>2, <2>3, ResponsesAssumption
<1> HIDE DEF Good
<1>6. CASE ~ keyed
  BY <1>2, <1>6 DEF LookupRaw
<1>7. CASE keyed /\ ~ Valid(ioc)
  BY <1>2, <1>7 DEF LookupRaw
<1>8. CASE keyed /\ Valid(ioc)
  BY <1>5, <1>8 DEF LookupRaw, Good
<1> QED
  BY <1>6, <1>7, <1>8

-----------------------------------------------------------------------------
(***************************************************************************)
(* One turn of the loops                                                   *)
(***************************************************************************)

WorkFields ==
  { "queue", "client", "records", "requested", "succeeded", "failed", "skipped",
    "limited", "rejected", "error" }

(* What one turn of the loops does to their variables *)
Same(w, v, fields) == \A f \in fields : v[f] = w[f]
Advances(w, v) ==
  /\ v.queue = Tail(w.queue)
  /\ Same(w, v, { "requested", "limited", "rejected", "error" })
Succeeds(w, v) ==
  /\ Advances(w, v) /\ Valid(Head(w.queue))
  /\ \E r : /\ r.ioc = Head(w.queue) /\ Answered(r)
             /\ v.records = w.records \cup { r }
  /\ v.succeeded = w.succeeded + 1 /\ Same(w, v, { "failed", "skipped" })
Skips(w, v) ==
  /\ Advances(w, v) /\ ~ Valid(Head(w.queue))
  /\ v.skipped = w.skipped + 1 /\ Same(w, v, { "failed", "succeeded", "records" })
Misses(w, v) ==
  /\ Advances(w, v) /\ Valid(Head(w.queue))
  /\ v.failed = w.failed + 1 /\ Same(w, v, { "skipped", "succeeded", "records" })
Ends(w, v) ==
  /\ Same(w, v, { "queue", "requested", "error", "skipped", "succeeded", "records" })
  /\ \E e \in { "RateLimitExceeded", "InvalidAPIKey" } :
       /\ v.failed = w.failed + LeftBehind(w.queue, e)
       /\ v.limited = (e = "RateLimitExceeded") /\ v.rejected = (e = "InvalidAPIKey")

(* One turn of the loops fails the whole enrichment, or does one of these. *)
LEMMA TurnEffect ==
  ASSUME NEW w, DOMAIN w = DOMAIN NoWork,
         NEW keyed, NEW response \in Responses, NEW v, v = Turn(w, keyed, response)
  PROVE  /\ DOMAIN v = DOMAIN NoWork
         /\ \/ v.error # "none" /\ Same(w, v, { "records" })
            \/ Succeeds(w, v) \/ Skips(w, v) \/ Misses(w, v) \/ Ends(w, v)
<1> DEFINE x == Head(w.queue)
           o == LookupRaw(w.client \/ keyed, x, response)
<1>0. PICK outcome : outcome = o
  OBVIOUS
<1>d. DOMAIN NoWork = WorkFields /\ DOMAIN w = WorkFields
  BY DEF NoWork, WorkFields
<1>1. \/ /\ outcome.error = "none" /\ Valid(x)
         /\ WithVerdict(outcome.record[1]).ioc = x
         /\ Answered(WithVerdict(outcome.record[1]))
      \/ outcome.error = "InvalidIndicator" /\ ~ Valid(x)
      \/ /\ outcome.error \in { "Timeout", "Connection", "UnexpectedAPIResponse",
                                "RateLimitExceeded", "InvalidAPIKey" }
         /\ Valid(x)
      \/ outcome.error \in { "MissingAPIKey", "Overflow" }
  BY <1>0, Outcomes
<1> DEFINE next == [ w EXCEPT !.queue = Tail(@), !.client = TRUE ]
<1>2. /\ DOMAIN next = WorkFields /\ next.queue = Tail(w.queue)
      /\ Same(w, next, WorkFields \ { "queue", "client" })
  BY <1>d DEF Same, WorkFields
<1>3. v = CASE outcome.error = "none" ->
                 [ next EXCEPT !.succeeded = @ + 1,
                               !.records = @ \cup { WithVerdict(outcome.record[1]) } ]
            [] outcome.error = "InvalidIndicator" -> [ next EXCEPT !.skipped = @ + 1 ]
            [] outcome.error \in { "Timeout", "Connection", "UnexpectedAPIResponse" } ->
                 [ next EXCEPT !.failed = @ + 1 ]
            [] outcome.error \in { "RateLimitExceeded", "InvalidAPIKey" } ->
                 StopLookups(w, outcome.error)
            [] OTHER -> [ w EXCEPT !.error = outcome.error ]
  BY <1>0 DEF Turn
<1> HIDE DEF next, x
<1>4. CASE outcome.error = "none"
  <2>1. v = [ next EXCEPT !.succeeded = @ + 1,
                          !.records = @ \cup { WithVerdict(outcome.record[1]) } ]
    BY <1>3, <1>4
  <2>2. /\ DOMAIN v = WorkFields /\ v.succeeded = next.succeeded + 1
        /\ v.records = next.records \cup { WithVerdict(outcome.record[1]) }
        /\ Same(next, v, WorkFields \ { "succeeded", "records" })
    BY <1>2, <2>1 DEF WorkFields, Same
  <2>3. /\ Valid(x) /\ WithVerdict(outcome.record[1]).ioc = x
        /\ Answered(WithVerdict(outcome.record[1]))
    BY <1>1, <1>4
  <2>4. Advances(w, v) /\ v.succeeded = w.succeeded + 1 /\ Same(w, v, { "failed", "skipped" })
        /\ v.records = w.records \cup { WithVerdict(outcome.record[1]) }
    BY <1>2, <2>2 DEF WorkFields, Same, Advances
  <2>5. Succeeds(w, v)
    BY <2>3, <2>4 DEF Succeeds, x
  <2> QED
    BY <1>d, <2>2, <2>5
<1>5. CASE outcome.error = "InvalidIndicator"
  <2>1. v = [ next EXCEPT !.skipped = @ + 1 ] /\ ~ Valid(x)
    BY <1>1, <1>3, <1>5
  <2>2. /\ DOMAIN v = WorkFields /\ v.skipped = next.skipped + 1
        /\ Same(next, v, WorkFields \ { "skipped" })
    BY <1>2, <2>1 DEF WorkFields, Same
  <2> QED
    BY <1>2, <1>d, <2>1, <2>2 DEF WorkFields, Same, Advances, Skips, x
<1>6. CASE outcome.error \in { "Timeout", "Connection", "UnexpectedAPIResponse" }
  <2>1. v = [ next EXCEPT !.failed = @ + 1 ] /\ Valid(x)
    BY <1>1, <1>3, <1>6
  <2>2. /\ DOMAIN v = WorkFields /\ v.failed = next.failed + 1
        /\ Same(next, v, WorkFields \ { "failed" })
    BY <1>2, <2>1 DEF WorkFields, Same
  <2> QED
    BY <1>2, <1>d, <2>1, <2>2 DEF WorkFields, Same, Advances, Misses, x
<1>7. CASE outcome.error \in { "RateLimitExceeded", "InvalidAPIKey" }
  <2>1. v = [ w EXCEPT !.failed = @ + LeftBehind(w.queue, outcome.error),
                       !.limited = outcome.error = "RateLimitExceeded",
                       !.rejected = outcome.error = "InvalidAPIKey" ]
    BY <1>3, <1>7 DEF StopLookups
  <2>2. /\ DOMAIN v = WorkFields
        /\ v.failed = w.failed + LeftBehind(w.queue, outcome.error)
        /\ v.limited = (outcome.error = "RateLimitExceeded")
        /\ v.rejected = (outcome.error = "InvalidAPIKey")
        /\ Same(w, v, WorkFields \ { "failed", "limited", "rejected" })
    BY <1>d, <2>1 DEF WorkFields, Same
  <2> QED
    BY <1>7, <1>d, <2>2 DEF WorkFields, Same, Ends
<1>8. CASE outcome.error \in { "MissingAPIKey", "Overflow" }
  <2>1. v = [ w EXCEPT !.error = outcome.error ]
    BY <1>3, <1>8
  <2>2. /\ DOMAIN v = WorkFields /\ v.error = outcome.error
        /\ Same(w, v, { "records" })
    BY <1>d, <2>1 DEF WorkFields, Same
  <2> QED
    BY <1>d, <1>8, <2>2
<1> QED
  BY <1>1, <1>4, <1>5, <1>6, <1>7, <1>8

-----------------------------------------------------------------------------
(***************************************************************************)
(* The indicators looked up, and those that wait                           *)
(***************************************************************************)

(* The first p of a list, and a set with one element more *)
First(order, p) == { order[i] : i \in 1 .. p }
Grows(D, x, E)  == IsFiniteSet(D) /\ x \notin D /\ E = D \cup { x }

(* One more lookup adds its indicator, which was not among the first.      *)
LEMMA DoneGrows ==
  ASSUME NEW S, IsFiniteSet(S), NEW order, Enumerates(order, S),
         NEW p \in 0 .. Len(order) - 1
  PROVE  Grows(First(order, p), order[p + 1], First(order, p + 1))
<1>1. /\ Len(order) \in Nat /\ \A i \in 1 .. Len(order) : order[i] \in S
      /\ \A i, j \in 1 .. Len(order) : order[i] = order[j] => i = j
  BY DEF Enumerates
<1>2. p \in Nat /\ p + 1 \in 1 .. Len(order) /\ 1 .. p + 1 = 1 .. p \cup { p + 1 }
      /\ p + 1 \notin 1 .. p
  BY <1>1
<1>3. First(order, p) \subseteq S
  BY <1>1, <1>2 DEF First
<1>4. First(order, p + 1) = First(order, p) \cup { order[p + 1] }
  BY <1>2 DEF First
<1>5. order[p + 1] \notin First(order, p)
  BY <1>1, <1>2 DEF First
<1>6. IsFiniteSet(First(order, p))
  BY <1>3, FS_Subset
<1> QED
  BY <1>4, <1>5, <1>6 DEF Grows

(* A sequence, position by position                                        *)
LEMMA AsFunction ==
  ASSUME NEW S, NEW q \in Seq(S)
  PROVE  q = [ i \in 1 .. Len(q) |-> q[i] ]
OBVIOUS

(* The loops end when nothing waits.                                       *)
LEMMA NothingLeft ==
  ASSUME NEW S, NEW q \in Seq(S)
  PROVE  q # << >> <=> Len(q) # 0
OBVIOUS

(* What waits after p lookups *)
Rest(order, p) == [ i \in 1 .. Len(order) - p |-> order[p + i] ]

(* The next lookup takes the indicator that follows the first p.           *)
LEMMA Waiting ==
  ASSUME NEW order, NEW S, Enumerates(order, S), NEW p \in 0 .. Len(order)
  PROVE  LET queue == Rest(order, p) IN
         /\ queue \in Seq(S) /\ Len(queue) = Len(order) - p
         /\ queue # << >> <=> p < Len(order)
         /\ p < Len(order) =>
              Head(queue) = order[p + 1] /\ Tail(queue) = Rest(order, p + 1)
<1> DEFINE queue == Rest(order, p)
<1>1. Len(order) \in Nat /\ \A i \in 1 .. Len(order) : order[i] \in S
  BY DEF Enumerates
<1>2. Len(order) - p \in Nat /\ p \in Nat
  BY <1>1
<1>3. \A i \in 1 .. Len(order) - p : p + i \in 1 .. Len(order)
  BY <1>1
<1>4. queue \in Seq(S) /\ Len(queue) = Len(order) - p
  BY <1>1, <1>2, <1>3 DEF Rest
<1> HIDE DEF queue
<1>5. queue # << >> <=> p < Len(order)
  <2>1. queue # << >> <=> Len(queue) # 0
    BY <1>4, NothingLeft, Zenon
  <2>2. Len(order) - p # 0 <=> p < Len(order)
    BY <1>1, <1>2
  <2> QED
    BY <1>4, <2>1, <2>2, Zenon
<1>6. ASSUME p < Len(order)
      PROVE  /\ Head(queue) = order[p + 1]
             /\ Tail(queue) = Rest(order, p + 1)
  <2>1. 1 \in 1 .. Len(order) - p
    BY <1>1, <1>6
  <2>2. Head(queue) = queue[1]
    BY <1>4, <1>5, <1>6
  <2>3. Tail(queue) = [ i \in 1 .. Len(queue) - 1 |-> queue[i + 1] ]
    <3>1. /\ Tail(queue) \in Seq(S) /\ Len(Tail(queue)) = Len(queue) - 1
          /\ \A i \in 1 .. Len(queue) - 1 : Tail(queue)[i] = queue[i + 1]
      BY <1>4, <1>5, <1>6
    <3>2. Tail(queue) = [ i \in 1 .. Len(Tail(queue)) |-> Tail(queue)[i] ]
      BY <3>1, AsFunction, Zenon
    <3> QED
      BY <3>1, <3>2, Zenon
  <2>4. Len(queue) - 1 = Len(order) - (p + 1)
    BY <1>1, <1>2, <1>4
  <2>5. \A i \in 1 .. Len(queue) - 1 : queue[i + 1] = order[p + 1 + i]
    <3> SUFFICES ASSUME NEW i \in 1 .. Len(queue) - 1
                 PROVE  queue[i + 1] = order[p + 1 + i]
      OBVIOUS
    <3>1. i + 1 \in 1 .. Len(order) - p /\ p + (i + 1) = p + 1 + i
      BY <1>2, <1>4
    <3>2. queue[i + 1] = order[p + (i + 1)]
      BY <3>1 DEF Rest, queue
    <3> QED
      BY <3>1, <3>2
  <2>6. queue[1] = order[p + 1]
    BY <2>1 DEF Rest, queue
  <2>7. Tail(queue) = Rest(order, p + 1)
    BY <2>3, <2>4, <2>5 DEF Rest
  <2> QED
    BY <2>2, <2>6, <2>7
<1> QED
  BY <1>4, <1>5, <1>6 DEF queue

(* What a stopped loop counts *)
LEMMA LeftBehindCounts ==
  ASSUME NEW found, Sorted(found), NEW order, order = InOrder(found),
         NEW p \in 0 .. Len(order) - 1,
         NEW queue, queue = Rest(order, p), NEW e
  PROVE  /\ LeftBehind(queue, e) \in Nat \ {0}
         /\ p + LeftBehind(queue, e)
              = IF e = "RateLimitExceeded" /\ TypeOf(order[p + 1]) = "domains"
                  THEN Len(order) - Cardinality(found["urls"]) ELSE Len(order)
<1> DEFINE u == Cardinality(found["urls"])
           d == Cardinality(found["domains"])
           n == Len(order)
<1>1. /\ Enumerates(order, Enrichable(found)) /\ n \in Nat /\ u \in Nat /\ d \in Nat
      /\ u + d <= n
      /\ \A i \in 1 .. n :
           TypeOf(order[i]) = "domains" <=> n - u - d < i /\ i <= n - u
  BY Ordered
<1>2. /\ Len(queue) = n - p /\ Head(queue) = order[p + 1] /\ p < n
      /\ DOMAIN queue = 1 .. n - p /\ p \in Nat /\ n - p \in Nat \ {0}
      /\ \A i \in 1 .. n - p : queue[i] = order[p + i]
  <2>1. p \in 0 .. n /\ p < n /\ p \in Nat /\ n - p \in Nat \ {0}
    BY <1>1
  <2>2. /\ queue \in Seq(Enrichable(found)) /\ Len(queue) = n - p
        /\ Head(queue) = order[p + 1]
    BY <1>1, <2>1, Waiting
  <2>3. \A i \in 1 .. n - p : queue[i] = order[p + i]
    BY DEF Rest
  <2> QED
    BY <2>1, <2>2, <2>3
<1> HIDE DEF u, d, n
<1>3. CASE e = "RateLimitExceeded" /\ TypeOf(order[p + 1]) = "domains"
  <2>1. n - u - d < p + 1 /\ p + 1 <= n - u
    BY <1>1, <1>2, <1>3
  <2> DEFINE N == { i \in DOMAIN queue : TypeOf(queue[i]) = "domains" }
  <2>2. N = 1 .. (n - u) - p
    <3>1. ASSUME NEW i \in 1 .. n - p
          PROVE  TypeOf(queue[i]) = "domains" <=> i <= (n - u) - p
      <4>1. p + i \in 1 .. n /\ queue[i] = order[p + i]
        BY <1>1, <1>2
      <4>2. TypeOf(order[p + i]) = "domains" <=>
              n - u - d < p + i /\ p + i <= n - u
        BY <1>1, <4>1
      <4> QED
        BY <1>1, <1>2, <2>1, <4>1, <4>2
    <3>2. \A i \in 1 .. (n - u) - p : i \in 1 .. n - p
      BY <1>1, <1>2
    <3>3. \A i \in 1 .. n - p : i <= (n - u) - p => i \in 1 .. (n - u) - p
      BY <1>1, <1>2
    <3>4. \A i \in 1 .. (n - u) - p : i <= (n - u) - p
      BY <1>1, <1>2
    <3> QED
      BY <1>2, <3>1, <3>2, <3>3, <3>4
  <2>3. Cardinality(N) = (n - u) - p
    <3>1. Cardinality(1 .. (n - u) - p) = (n - u) - p
      BY <1>1, <1>2, <2>1, FS_Interval
    <3> QED
      BY <2>2, <3>1
  <2>4. LeftBehind(queue, e) = (n - u) - p
    BY <1>2, <1>3, <2>3 DEF LeftBehind
  <2>5. /\ LeftBehind(queue, e) \in Nat \ {0}
        /\ p + LeftBehind(queue, e) = n - u
    BY <1>1, <1>2, <2>1, <2>4
  <2> QED
    BY <1>3, <2>5 DEF u, n
<1>4. CASE ~ (e = "RateLimitExceeded" /\ TypeOf(order[p + 1]) = "domains")
  <2>1. LeftBehind(queue, e) = n - p
    BY <1>2, <1>4 DEF LeftBehind
  <2>2. /\ LeftBehind(queue, e) \in Nat \ {0}
        /\ p + LeftBehind(queue, e) = n
    BY <1>1, <1>2, <2>1
  <2> QED
    BY <1>4, <2>2 DEF n
<1> QED
  BY <1>3, <1>4

-----------------------------------------------------------------------------
(***************************************************************************)
(* What has been counted after p lookups                                   *)
(***************************************************************************)

(* The parts of LookedUp that a turn has to keep *)
Queued(order, w, p) ==
  /\ w.requested = Len(order)
  /\ w.queue = Rest(order, p)
Recorded(done, w) ==
  /\ w.succeeded \in Nat /\ w.failed \in Nat
  /\ IsFiniteSet(w.records) /\ w.succeeded = Cardinality(w.records)
  /\ \A r, s \in w.records : r.ioc = s.ioc => r = s
  /\ \A r \in w.records : r.ioc \in done /\ Valid(r.ioc)
  /\ w.skipped = Cardinality({ ioc \in done : ~ Valid(ioc) })
  /\ w.failed = 0 =>
       \A ioc \in done : Valid(ioc) => \E r \in w.records : r.ioc = ioc
Counted(found, order, w, p) ==
  IF w.limited \/ w.rejected
    THEN /\ p < Len(order) /\ w.failed > 0
         /\ w.succeeded + w.failed + w.skipped
              = IF w.limited /\ TypeOf(order[p + 1]) = "domains"
                  THEN Len(order) - Cardinality(found["urls"]) ELSE Len(order)
    ELSE w.succeeded + w.failed + w.skipped = p

(* The invariant of the loops, in its three parts                          *)
LEMMA LookedUpParts ==
  ASSUME NEW found, NEW w, NEW p, NEW order, order = InOrder(found)
  PROVE  LookedUp(found, w, p) <=> /\ Queued(order, w, p)
                                   /\ Recorded(First(order, p), w)
                                   /\ Counted(found, order, w, p)
BY DEF LookedUp, First, Rest, Queued, Recorded, Counted

(* The next indicator is recorded, skipped or counted as failed. *)
LEMMA RecordedNext ==
  ASSUME NEW D, NEW w, NEW E, Grows(D, Head(w.queue), E),
         NEW v, Recorded(D, w), Succeeds(w, v) \/ Skips(w, v) \/ Misses(w, v)
  PROVE  /\ Recorded(E, v)
         /\ v.succeeded + v.failed + v.skipped = w.succeeded + w.failed + w.skipped + 1
<1> DEFINE x == Head(w.queue)
           I == { ioc \in D : ~ Valid(ioc) }
           J == { ioc \in E : ~ Valid(ioc) }
<1>0. IsFiniteSet(D) /\ x \notin D /\ E = D \cup { x }
  BY DEF Grows
<1>1. /\ Cardinality(I) \in Nat /\ w.skipped = Cardinality(I)
      /\ Valid(x) => Cardinality(J) = Cardinality(I)
      /\ ~ Valid(x) => Cardinality(J) = Cardinality(I) + 1
  <2>1. w.skipped = Cardinality(I)
    BY DEF Recorded
  <2> HIDE DEF x
  <2>2. IsFiniteSet(I) /\ x \notin I
    BY <1>0, FS_Subset
  <2>3. Valid(x) => J = I
    BY <1>0
  <2>4. ~ Valid(x) => J = I \cup { x }
    BY <1>0
  <2> HIDE DEF I, J
  <2>5. Cardinality(I) \in Nat /\ Cardinality(I \cup { x }) = Cardinality(I) + 1
    BY <2>2, FS_CardinalityType, FS_AddElement
  <2> QED
    BY <2>1, <2>3, <2>4, <2>5
<1>2. /\ w.succeeded \in Nat /\ w.failed \in Nat
      /\ IsFiniteSet(w.records) /\ w.succeeded = Cardinality(w.records)
      /\ \A r, s \in w.records : r.ioc = s.ioc => r = s
      /\ \A r \in w.records : r.ioc \in D /\ Valid(r.ioc)
      /\ w.failed = 0 =>
           \A ioc \in D : Valid(ioc) => \E r \in w.records : r.ioc = ioc
  BY DEF Recorded
<1>g. SUFFICES /\ v.succeeded \in Nat /\ v.failed \in Nat
               /\ IsFiniteSet(v.records) /\ v.succeeded = Cardinality(v.records)
               /\ \A r, s \in v.records : r.ioc = s.ioc => r = s
               /\ \A r \in v.records : r.ioc \in E /\ Valid(r.ioc)
               /\ v.skipped = Cardinality(J)
               /\ v.failed = 0 =>
                    \A ioc \in E : Valid(ioc) => \E r \in v.records : r.ioc = ioc
               /\ v.succeeded + v.failed + v.skipped
                    = w.succeeded + w.failed + w.skipped + 1
  BY DEF Recorded
<1> HIDE DEF I, J, x
<1>3. CASE Succeeds(w, v)
  <2>1. /\ Valid(x) /\ v.succeeded = w.succeeded + 1 /\ v.failed = w.failed
        /\ v.skipped = w.skipped
    BY <1>3 DEF x, Succeeds, Same
  <2>2. PICK r : r.ioc = x /\ v.records = w.records \cup { r }
    BY <1>3 DEF x, Succeeds
  <2>3. r \notin w.records
    BY <1>0, <1>2, <2>2
  <2>4. /\ IsFiniteSet(v.records)
        /\ Cardinality(v.records) = Cardinality(w.records) + 1
    <3>1. /\ IsFiniteSet(w.records \cup { r })
          /\ Cardinality(w.records \cup { r }) = Cardinality(w.records) + 1
      BY <1>2, <2>3, FS_AddElement
    <3> QED
      BY <2>2, <3>1
  <2>5. \A a, b \in v.records : a.ioc = b.ioc => a = b
    BY <1>0, <1>2, <2>2
  <2>6. \A a \in v.records : a.ioc \in E /\ Valid(a.ioc)
    BY <1>0, <1>2, <2>1, <2>2
  <2>7. v.failed = 0 =>
          \A ioc \in E : Valid(ioc) => \E a \in v.records : a.ioc = ioc
    BY <1>0, <1>2, <2>1, <2>2
  <2>8. v.succeeded + v.failed + v.skipped = w.succeeded + w.failed + w.skipped + 1
    BY <1>1, <1>2, <2>1
  <2> QED
    BY <1>1, <1>2, <2>1, <2>4, <2>5, <2>6, <2>7, <2>8
<1>4. CASE Skips(w, v)
  <2>1. /\ ~ Valid(x) /\ v.succeeded = w.succeeded /\ v.failed = w.failed
        /\ v.skipped = w.skipped + 1 /\ v.records = w.records
    BY <1>4 DEF x, Skips, Same
  <2>2. \A a \in v.records : a.ioc \in E /\ Valid(a.ioc)
    BY <1>0, <1>2, <2>1
  <2>3. v.failed = 0 =>
          \A ioc \in E : Valid(ioc) => \E a \in v.records : a.ioc = ioc
    BY <1>0, <1>2, <2>1
  <2>4. v.succeeded + v.failed + v.skipped = w.succeeded + w.failed + w.skipped + 1
    BY <1>1, <1>2, <2>1
  <2> QED
    BY <1>1, <1>2, <2>1, <2>2, <2>3, <2>4
<1>5. CASE Misses(w, v)
  <2>1. /\ Valid(x) /\ v.succeeded = w.succeeded /\ v.failed = w.failed + 1
        /\ v.skipped = w.skipped /\ v.records = w.records
    BY <1>5 DEF x, Misses, Same
  <2>2. \A a \in v.records : a.ioc \in E /\ Valid(a.ioc)
    BY <1>0, <1>2, <2>1
  <2>3. v.failed # 0
    BY <1>2, <2>1
  <2>4. v.succeeded + v.failed + v.skipped = w.succeeded + w.failed + w.skipped + 1
    BY <1>1, <1>2, <2>1
  <2> QED
    BY <1>1, <1>2, <2>1, <2>2, <2>3, <2>4
<1> QED
  BY <1>3, <1>4, <1>5

(* A turn of the loops keeps their counts in step with what they did.      *)
LEMMA NextLookup ==
  ASSUME NEW found, Sorted(found), NEW order, order = InOrder(found),
         NEW p \in 0 .. Len(order), NEW w, NEW v, LookedUp(found, w, p),
         w.queue # << >>, ~ w.limited, ~ w.rejected,
         Succeeds(w, v) \/ Skips(w, v) \/ Misses(w, v) \/ Ends(w, v)
  PROVE  \E q \in 0 .. Len(order) : LookedUp(found, v, q)
<1> DEFINE n == Len(order)
           D == First(order, p)
           E == First(order, p + 1)
           x == order[p + 1]
<1>1. Queued(order, w, p) /\ Recorded(D, w) /\ Counted(found, order, w, p)
  BY LookedUpParts
<1>2. /\ Enumerates(order, Enrichable(found)) /\ n \in Nat
      /\ IsFiniteSet(Enrichable(found))
  BY Ordered
<1>3. /\ p < n /\ Head(w.queue) = x
      /\ Tail(w.queue) = Rest(order, p + 1)
  BY <1>1, <1>2, Waiting DEF Queued
<1>4. p \in 0 .. n - 1 /\ p + 1 \in 0 .. n /\ p \in Nat
  BY <1>2, <1>3
<1>5. Grows(D, x, E)
  BY <1>2, <1>4, DoneGrows
<1>6. /\ w.succeeded \in Nat /\ w.failed \in Nat
      /\ w.succeeded + w.failed + w.skipped = p
  BY <1>1 DEF Recorded, Counted
<1>7. CASE Succeeds(w, v) \/ Skips(w, v) \/ Misses(w, v)
  <2>1. Advances(w, v)
    BY <1>7 DEF Succeeds, Skips, Misses
  <2>2. Queued(order, v, p + 1)
    BY <1>1, <1>3, <2>1 DEF Queued, Advances, Same
  <2>3. Recorded(E, v) /\ v.succeeded + v.failed + v.skipped = p + 1
    <3>1. /\ Recorded(E, v)
          /\ v.succeeded + v.failed + v.skipped
               = w.succeeded + w.failed + w.skipped + 1
      <4>1. Grows(D, Head(w.queue), E)
        BY <1>3, <1>5
      <4> HIDE DEF D, E, x
      <4> QED
        BY <1>1, <1>7, <4>1, RecordedNext
    <3> QED
      BY <1>6, <3>1
  <2>4. Counted(found, order, v, p + 1)
    BY <2>1, <2>3 DEF Counted, Advances, Same
  <2>5. LookedUp(found, v, p + 1)
    BY <2>2, <2>3, <2>4, LookedUpParts
  <2> QED
    BY <1>4, <2>5
<1>8. CASE Ends(w, v)
  <2>1. /\ v.queue = w.queue /\ v.requested = w.requested /\ v.skipped = w.skipped
        /\ v.succeeded = w.succeeded /\ v.records = w.records
    BY <1>8 DEF Ends, Same
  <2>2. PICK e \in { "RateLimitExceeded", "InvalidAPIKey" } :
          /\ v.failed = w.failed + LeftBehind(w.queue, e)
          /\ v.limited = (e = "RateLimitExceeded") /\ v.rejected = (e = "InvalidAPIKey")
    BY <1>8 DEF Ends
  <2> DEFINE k == LeftBehind(w.queue, e)
             u == Cardinality(found["urls"])
  <2>3. /\ k \in Nat \ {0}
        /\ p + k = IF e = "RateLimitExceeded" /\ TypeOf(x) = "domains"
                     THEN n - u ELSE n
    BY <1>1, <1>4, LeftBehindCounts DEF Queued
  <2>4. w.skipped \in Nat
    <3>1. /\ w.skipped = Cardinality({ ioc \in D : ~ Valid(ioc) })
          /\ IsFiniteSet({ ioc \in D : ~ Valid(ioc) })
      BY <1>1, <1>5, FS_Subset DEF Recorded, Grows
    <3> QED
      BY <3>1, FS_CardinalityType
  <2> HIDE DEF k, u, n, x
  <2>5. v.failed = w.failed + k
    BY <2>2 DEF k
  <2>6. /\ v.failed \in Nat /\ v.failed > 0
        /\ v.succeeded + v.failed + v.skipped = p + k
    <3>1. k \in Nat /\ k > 0
      BY <2>3
    <3>2. v.failed \in Nat /\ v.failed > 0
      BY <1>6, <2>5, <3>1
    <3>3. v.succeeded + v.failed + v.skipped = w.succeeded + (w.failed + k) + w.skipped
      BY <2>1, <2>5
    <3>4. \A a, b, c \in Nat : a + b + c = p => a + (b + k) + c = p + k
      BY <3>1
    <3> QED
      BY <1>6, <2>4, <3>2, <3>3, <3>4
  <2>7. Queued(order, v, p)
    BY <1>1, <2>1 DEF Queued
  <2>8. Recorded(D, v)
    BY <1>1, <2>1, <2>6 DEF Recorded
  <2>9. Counted(found, order, v, p)
    BY <1>3, <2>2, <2>3, <2>6 DEF Counted, u, n, x
  <2> QED
    BY <2>7, <2>8, <2>9, LookedUpParts
<1> QED
  BY <1>7, <1>8

(* An enrichment begins with everything waiting and nothing counted.       *)
LEMMA FirstLookup ==
  ASSUME NEW found, Sorted(found), NEW w, w = StartWork(found)
  PROVE  /\ DOMAIN w = DOMAIN NoWork
         /\ \E p \in 0 .. Len(InOrder(found)) : LookedUp(found, w, p)
<1> DEFINE order == InOrder(found)
           D == First(order, 0)
<1>1. Enumerates(order, Enrichable(found)) /\ Len(order) \in Nat
  BY Ordered
<1>2. /\ DOMAIN w = DOMAIN NoWork /\ w.queue = order /\ w.requested = Len(order)
      /\ w.succeeded = 0 /\ w.failed = 0 /\ w.skipped = 0 /\ w.records = {}
      /\ ~ w.limited /\ ~ w.rejected
  BY DEF StartWork, NoWork
<1> HIDE DEF order
<1>3. order = Rest(order, 0)
  BY <1>1 DEF Enumerates, Rest
<1>4. Queued(order, w, 0)
  BY <1>2, <1>3 DEF Queued
<1>5. D = {} /\ { ioc \in D : ~ Valid(ioc) } = {}
  BY DEF First
<1>6. Recorded(D, w)
  <2>1. /\ IsFiniteSet(w.records) /\ Cardinality(w.records) = 0
        /\ Cardinality({ ioc \in D : ~ Valid(ioc) }) = 0
    BY <1>2, <1>5, FS_EmptySet, Zenon
  <2> HIDE DEF D
  <2> QED
    BY <1>2, <1>5, <2>1 DEF Recorded
<1>7. Counted(found, order, w, 0)
  BY <1>2 DEF Counted
<1>8. LookedUp(found, w, 0)
  BY <1>4, <1>6, <1>7, LookedUpParts DEF order
<1> QED
  BY <1>1, <1>2, <1>8 DEF order

-----------------------------------------------------------------------------
(***************************************************************************)
(* What an analysis stores                                                 *)
(***************************************************************************)

(* Lookups that have ended add up. *)
LEMMA Reckoned ==
  ASSUME NEW found, Sorted(found), NEW p \in 0 .. Len(InOrder(found)),
         NEW w, LookedUp(found, w, p), w.error = "none",
         w.queue = << >> \/ w.limited \/ w.rejected,
         NEW row, row.iocs = found, row.ti = ThreatIntelligence(w)
  PROVE  Accounted(row)
<1> DEFINE order == InOrder(found)
           n == Len(order)
           asked == Enrichable(found)
           invalid == { ioc \in asked : ~ Valid(ioc) }
           D == First(order, p)
           u == Cardinality(found["urls"])
           d == Cardinality(found["domains"])
           ti == row.ti
           c == ti.coverage
<1>1. /\ Queued(order, w, p) /\ Recorded(D, w) /\ Counted(found, order, w, p)
  BY LookedUpParts
<1>2. /\ Enumerates(order, asked) /\ IsFiniteSet(asked)
      /\ n \in Nat /\ u \in Nat /\ d \in Nat /\ u + d <= n
      /\ \A i \in 1 .. n :
           /\ TypeOf(order[i]) = "urls" <=> i > n - u
           /\ TypeOf(order[i]) = "domains" <=> n - u - d < i /\ i <= n - u
  BY Ordered
<1>3. /\ ti.status = Status(w) /\ ti.records = w.records
      /\ c.requested = w.requested /\ c.succeeded = w.succeeded
      /\ c.failed = w.failed /\ c.skipped_invalid = w.skipped
      /\ c.rate_limited = w.limited /\ c.invalid_api_key = w.rejected
  BY DEF ThreatIntelligence
<1>4. w.queue = << >> => p = n
  <2>1. w.queue = Rest(order, p) /\ p \in 0 .. n
    BY <1>1 DEF Queued
  <2> HIDE DEF order
  <2>2. Rest(order, p) # << >> <=> p < n
    BY <1>2, <2>1, Waiting
  <2> QED
    BY <1>2, <2>1, <2>2
<1> HIDE DEF n, u, d, order
<1>5. /\ n = Cardinality(asked) /\ w.requested = n
      /\ \A i \in 1 .. n : order[i] \in asked
      /\ \A x \in asked : \E i \in 1 .. n : order[i] = x
  BY <1>1, <1>2 DEF Enumerates, Queued, n
<1>6. p \in 0 .. n
  BY DEF n, order
<1>7. D \subseteq asked /\ (p = n => D = asked)
  BY <1>2, <1>5, <1>6 DEF First
<1> HIDE DEF D, asked
<1>8. /\ w.succeeded \in Nat /\ w.failed \in Nat
      /\ w.succeeded = Cardinality(w.records)
      /\ \A r, s \in w.records : r.ioc = s.ioc => r = s
      /\ \A r \in w.records : r.ioc \in D /\ Valid(r.ioc)
      /\ w.skipped = Cardinality({ ioc \in D : ~ Valid(ioc) })
      /\ w.failed = 0 =>
           \A ioc \in D : Valid(ioc) => \E r \in w.records : r.ioc = ioc
  BY <1>1 DEF Recorded
<1>9. w.skipped \in Nat /\ w.skipped <= Cardinality(invalid)
  <2>1. { ioc \in D : ~ Valid(ioc) } \in SUBSET invalid
    BY <1>7
  <2>2. IsFiniteSet(invalid) /\ IsFiniteSet({ ioc \in D : ~ Valid(ioc) })
    BY <1>2, <1>7, FS_Subset
  <2>3. Cardinality({ ioc \in D : ~ Valid(ioc) }) <= Cardinality(invalid)
    BY <2>1, <2>2, FS_Subset
  <2>4. Cardinality({ ioc \in D : ~ Valid(ioc) }) \in Nat
    BY <2>2, FS_CardinalityType
  <2> HIDE DEF invalid
  <2> QED
    BY <1>8, <2>3, <2>4
<1>10. { r.ioc : r \in w.records } \subseteq asked \ invalid
  BY <1>7, <1>8
<1>11. asked = {} <=> n = 0
  BY <1>2, <1>5, FS_EmptySet
<1>12. /\ w.limited \/ w.rejected => p < n /\ n # 0
       /\ ~ (w.limited \/ w.rejected) => p = n
  BY <1>1, <1>2, <1>4, <1>6 DEF Counted, n
<1>13. /\ Status(w) = "no_indicators" <=> n = 0
       /\ w.limited \/ w.rejected => Status(w) = "partial"
       /\ Status(w) = "ok" => ~ w.limited /\ ~ w.rejected /\ w.failed = 0
  BY <1>5, <1>8, <1>12 DEF Status
<1>14. Status(w) = "ok" => { r.ioc : r \in w.records } = asked \ invalid
  <2> SUFFICES ASSUME Status(w) = "ok"
               PROVE  \A ioc \in asked \ invalid : \E r \in w.records : r.ioc = ioc
    BY <1>10
  <2>1. w.failed = 0 /\ D = asked
    BY <1>7, <1>12, <1>13
  <2> QED
    BY <1>8, <2>1
<1>15. ASSUME n - w.succeeded - w.failed - w.skipped # 0
       PROVE  /\ w.limited /\ n - w.succeeded - w.failed - w.skipped = u
              /\ found["domains"] # {} /\ \A r \in w.records : TypeOf(r.ioc) # "urls"
  <2> DEFINE total == w.succeeded + w.failed + w.skipped
  <2>1. n - total = n - w.succeeded - w.failed - w.skipped /\ total \in Nat
    BY <1>2, <1>8, <1>9
  <2>2. IF w.limited \/ w.rejected
          THEN total = IF w.limited /\ TypeOf(order[p + 1]) = "domains"
                         THEN n - u ELSE n
          ELSE total = p
    BY <1>1 DEF Counted, n, u
  <2> HIDE DEF total
  <2>3. /\ w.limited /\ TypeOf(order[p + 1]) = "domains" /\ total = n - u
    BY <1>2, <1>12, <1>15, <2>1, <2>2
  <2>4. p + 1 \in 1 .. n /\ p \in Nat
    BY <1>2, <1>6, <1>12, <2>3
  <2>5. p + 1 <= n - u
    BY <1>2, <2>3, <2>4
  <2>6. \A x \in D : TypeOf(x) # "urls"
    <3> SUFFICES ASSUME NEW i \in 1 .. p PROVE TypeOf(order[i]) # "urls"
      BY DEF D, First
    <3>1. i \in 1 .. n /\ ~ (i > n - u)
      BY <1>2, <2>4, <2>5
    <3> QED
      BY <1>2, <3>1
  <2>7. order[p + 1] \in asked
    BY <1>5, <2>4
  <2>8. found["domains"] # {}
    <3>1. PICK t \in EnrichableTypes : order[p + 1] \in found[t]
      BY <2>7 DEF asked, Enrichable
    <3>2. t = "domains"
      BY <2>3, <3>1 DEF Sorted, EnrichableTypes, IocTypes
    <3> QED
      BY <3>1, <3>2
  <2>9. n - w.succeeded - w.failed - w.skipped = u
    BY <1>2, <2>1, <2>3
  <2> QED
    BY <1>8, <2>3, <2>6, <2>8, <2>9
<1>16. RecordsOfType(ti, "urls") = {} <=> \A r \in w.records : TypeOf(r.ioc) # "urls"
  BY <1>3 DEF RecordsOfType
<1>17. Short(c) = n - w.succeeded - w.failed - w.skipped
  BY <1>3, <1>5 DEF Short
<1> HIDE DEF ti, c
<1>g. SUFFICES
        /\ c.requested = Cardinality(asked) /\ c.succeeded = Cardinality(ti.records)
        /\ \A r, s \in ti.records : r.ioc = s.ioc => r = s
        /\ { r.ioc : r \in ti.records } \subseteq asked \ invalid
        /\ c.skipped_invalid <= Cardinality(invalid)
        /\ Short(c) # 0 =>
             /\ c.rate_limited /\ Short(c) = u
             /\ found["domains"] # {} /\ RecordsOfType(ti, "urls") = {}
        /\ ti.status = "ok" => { r.ioc : r \in ti.records } = asked \ invalid
        /\ ti.status = "no_indicators" <=> asked = {}
        /\ c.rate_limited \/ c.invalid_api_key => ti.status = "partial"
  BY DEF Accounted, asked, ti, c, u
<1> HIDE DEF invalid
<1> QED
  BY <1>3, <1>5, <1>8, <1>9, <1>10, <1>11, <1>13, <1>14, <1>15, <1>16, <1>17

-----------------------------------------------------------------------------
(***************************************************************************)
(* The analysis                                                            *)
(***************************************************************************)

(* What an extraction finds *)
LEMMA HostsFinite ==
  ASSUME NEW text, IsFiniteSet(text)
  PROVE  IsFiniteSet(HostsNamed(text))
<1> DEFINE M == { m \in text : TypeOf(m) \in { "urls", "emails" } }
           hosts == { ioc[2].host : ioc \in M }
           named == { h \in hosts : DomainEnds(h) # {} }
           found == { Domain(SubSeq(host, 1, Max(DomainEnds(host)))) : host \in named }
           f == [ m \in M |-> m[2].host ]
           g == [ h \in named |-> Domain(SubSeq(h, 1, Max(DomainEnds(h)))) ]
<1>1. IsFiniteSet(M)
  BY FS_Subset
<1>2. f \in Surjection(M, hosts)
  BY DEF Surjection
<1>3. IsFiniteSet(hosts)
  <2> HIDE DEF M, hosts, f
  <2> QED
    BY <1>1, <1>2, FS_Surjection
<1>4. IsFiniteSet(named)
  <2> HIDE DEF hosts
  <2> QED
    BY <1>3, FS_Subset
<1>5. g \in Surjection(named, found)
  <2> HIDE DEF named
  <2> QED
    BY DEF Surjection
<1>6. IsFiniteSet(found)
  <2> HIDE DEF named, found, g
  <2> QED
    BY <1>4, <1>5, FS_Surjection
<1> QED
  BY <1>6 DEF HostsNamed

(* The extraction sorts finitely many indicators by their types.           *)
LEMMA ExtractedSorted ==
  ASSUME NEW text, IsFiniteSet(text)
  PROVE  Sorted(ExtractIocs(text))
<1> SUFFICES ASSUME NEW type \in IocTypes
             PROVE  /\ IsFiniteSet(ExtractIocs(text)[type])
                    /\ \A ioc \in ExtractIocs(text)[type] : TypeOf(ioc) = type
  BY DEF Sorted
<1> DEFINE M == { ioc \in text : TypeOf(ioc) = type }
<1>1. ExtractIocs(text)[type]
        = M \cup (IF type = "domains" THEN HostsNamed(text) ELSE {})
  BY DEF ExtractIocs
<1>2. IsFiniteSet(M) /\ \A ioc \in M : TypeOf(ioc) = type
  BY FS_Subset
<1>3. IsFiniteSet(HostsNamed(text))
  BY HostsFinite
<1>4. \A ioc \in HostsNamed(text) : TypeOf(ioc) = "domains"
  BY DEF HostsNamed, Domain, TypeOf
<1> HIDE DEF M
<1>5. CASE type = "domains"
  <2>1. IsFiniteSet(M \cup HostsNamed(text))
    BY <1>2, <1>3, FS_Union
  <2> QED
    BY <1>1, <1>2, <1>4, <1>5, <2>1
<1>6. CASE type # "domains"
  <2>1. ExtractIocs(text)[type] = M
    BY <1>1, <1>6
  <2> QED
    BY <1>2, <2>1
<1> QED
  BY <1>5, <1>6

(* An analysis without extraction has no indicators of any type.           *)
LEMMA NothingSorted == Sorted(NoIocs)
BY FS_EmptySet DEF Sorted, NoIocs

(* Sequences over their own range *)
LEMMA Pushed ==
  ASSUME NEW q, q \in Seq(Range(q)), NEW x
  PROVE  /\ << x >> \o q \in Seq(Range(<< x >> \o q))
         /\ Range(<< x >> \o q) = { x } \cup Range(q)
<1> DEFINE A == { x } \cup Range(q)
           s == << x >> \o q
<1>1. /\ << x >> \in Seq(A) /\ q \in Seq(A) /\ Len(q) \in Nat
      /\ DOMAIN q = 1 .. Len(q)
  <2>1. q \in Seq(A)
    OBVIOUS
  <2> QED
    BY <2>1
<1>2. /\ s \in Seq(A) /\ Len(s) = 1 + Len(q) /\ s[1] = x
      /\ \A i \in 1 .. Len(q) : s[i + 1] = q[i]
      /\ DOMAIN s = 1 .. Len(s)
  BY <1>1
<1> HIDE DEF s
<1>3. A \subseteq Range(s)
  <2>1. x \in Range(s)
    <3>1. 1 \in DOMAIN s /\ s[1] = x
      BY <1>1, <1>2
    <3> QED
      BY <3>1 DEF Range
  <2>2. ASSUME NEW i \in 1 .. Len(q) PROVE q[i] \in Range(s)
    <3>1. i + 1 \in DOMAIN s /\ s[i + 1] = q[i]
      BY <1>1, <1>2
    <3> QED
      BY <3>1 DEF Range
  <2> QED
    BY <1>1, <2>1, <2>2 DEF Range
<1>4. Range(s) \subseteq A
  BY <1>2 DEF Range
<1>5. Range(s) = A
  BY <1>3, <1>4
<1> QED
  BY <1>2, <1>5 DEF s

(* The rest of a sequence, and its head, are of its range.                 *)
LEMMA Popped ==
  ASSUME NEW q, q \in Seq(Range(q)), q # << >>
  PROVE  /\ Tail(q) \in Seq(Range(Tail(q))) /\ Range(Tail(q)) \subseteq Range(q)
         /\ Head(q) \in Range(q)
<1> DEFINE s == Tail(q)
<1>1. /\ Len(q) \in Nat \ {0} /\ DOMAIN q = 1 .. Len(q) /\ Head(q) = q[1]
      /\ s \in Seq(Range(q)) /\ Len(s) = Len(q) - 1 /\ DOMAIN s = 1 .. Len(s)
  OBVIOUS
<1> HIDE DEF s
<1>2. Head(q) \in Range(q)
  BY <1>1 DEF Range
<1>3. Range(s) \subseteq Range(q) /\ \A i \in 1 .. Len(s) : s[i] \in Range(s)
  <2>1. \A i \in 1 .. Len(s) : s[i] \in Range(q)
    BY <1>1
  <2>2. Range(s) = { s[i] : i \in 1 .. Len(s) }
    BY <1>1 DEF Range
  <2> QED
    BY <2>1, <2>2
<1>4. s \in Seq(Range(s))
  BY <1>1, <1>3
<1> QED
  BY <1>2, <1>3, <1>4 DEF s

(* The rows, as a set                                                      *)
LEMMA StoredRange == Stored = Range(rows)
BY DEF Stored, Range

(* The invariant, in every situation to start from                         *)
LEMMA AccountInit == Init => AccountInv
<1> SUFFICES ASSUME Init PROVE AccountInv
  OBVIOUS
<1>1. PICK situation \in Situations :
        rows = situation.rows /\ todo = situation.analyses
  BY DEF Init
<1>2. stage = "idle" /\ work = NoWork
  BY DEF Init
<1>3. /\ rows \in Seq(Range(rows)) /\ todo \in Seq(Range(todo))
      /\ \A row \in Range(rows) : Whole(row)
      /\ \A analysis \in Range(todo) : IsFiniteSet(analysis.text)
  BY <1>1, SituationsAssumption
<1>4. \A row \in Range(rows) : Covered(row) => Accounted(row)
  BY <1>3 DEF Whole
<1> QED
  BY <1>2, <1>3, <1>4, StoredRange
     DEF AccountInv, WorkInv, EnrichmentAccounted

(* An analysis begins, or its report cannot be read.                       *)
LEMMA WorkBegins ==
  ASSUME AccountInv, Begin
  PROVE  WorkInv' /\ todo' \in Seq(Range(todo')) /\ Range(todo') \subseteq Range(todo)
<1>1. todo \in Seq(Range(todo)) /\ todo # << >> /\ stage = "idle" /\ WorkInv
      /\ Analysis \in Range(todo)
  BY Popped DEF AccountInv, Begin, Analysis
<1>2. CASE Analysis.report \in Reports
  BY <1>1, <1>2, Popped DEF Begin, WorkInv
<1>3. CASE Analysis.report \notin Reports
  <2>1. IsFiniteSet(Analysis.text)
    BY <1>1 DEF AccountInv
  <2>2. PICK f : /\ f = iocs' /\ work' = StartWork(f)
                 /\ f = IF "extract_iocs" \in Analysis.options
                          THEN ExtractIocs(Analysis.text) ELSE NoIocs
    BY <1>3 DEF Begin
  <2>3. Sorted(f)
    BY <2>1, <2>2, ExtractedSorted, NothingSorted
  <2>4. PICK w : w = work'
    OBVIOUS
  <2>5. /\ DOMAIN w = DOMAIN NoWork
        /\ \E p \in 0 .. Len(InOrder(f)) : LookedUp(f, w, p)
    BY <2>2, <2>3, <2>4, FirstLookup
  <2>6. todo' = todo
    BY <1>3 DEF Begin
  <2> QED
    BY <1>1, <2>2, <2>3, <2>4, <2>5, <2>6 DEF WorkInv
<1> QED
  BY <1>2, <1>3

(* A lookup of an analysis keeps the invariant of its loops.               *)
LEMMA WorkGoesOn ==
  ASSUME WorkInv, LookUp
  PROVE  WorkInv'
<1>1. /\ DOMAIN work = DOMAIN NoWork /\ stage = "lookups" /\ Sorted(iocs)
      /\ work.queue # << >> /\ ~ work.limited /\ ~ work.rejected
      /\ work.error = "none" /\ stage' = stage /\ iocs' = iocs
      /\ todo # << >> /\ todo' = todo
  BY DEF WorkInv, LookUp, LooksUp, WorkDone
<1>2. PICK p \in 0 .. Len(InOrder(iocs)) : LookedUp(iocs, work, p)
  BY <1>1 DEF WorkInv
<1>3. PICK response \in Responses : work' = Turn(work, key, response)
  BY DEF LookUp
<1>4. PICK v : v = work'
  OBVIOUS
<1>5. /\ DOMAIN v = DOMAIN NoWork
      /\ \/ v.error # "none"
         \/ Succeeds(work, v) \/ Skips(work, v) \/ Misses(work, v) \/ Ends(work, v)
  BY <1>1, <1>3, <1>4, TurnEffect
<1>6. v.error = "none" =>
        \E q \in 0 .. Len(InOrder(iocs)) : LookedUp(iocs, v, q)
  BY <1>1, <1>2, <1>5, NextLookup
<1> QED
  BY <1>1, <1>4, <1>5, <1>6 DEF WorkInv

(* The row that an analysis stores *)
LEMMA StoredAccounted ==
  ASSUME WorkInv, Store, NEW risk, NEW row, row = Row(Enriched, risk), Covered(row)
  PROVE  Accounted(row)
<1>1. row.iocs = iocs /\ row.ti = Enriched /\ Enriched.status \in Attempted
  BY DEF Row, Covered
<1>2. "enrich_ti" \in Analysis.options
  BY <1>1 DEF Enriched, Unavailable, Attempted
<1>3. Enriched = ThreatIntelligence(work) /\ WorkDone(work) /\ stage = "lookups"
  BY <1>2 DEF Enriched, Store, LooksUp
<1>4. work.error = "none"
  BY <1>1, <1>3 DEF ThreatIntelligence, Unavailable, Attempted
<1>5. PICK p \in 0 .. Len(InOrder(iocs)) : LookedUp(iocs, work, p)
  BY <1>3, <1>4 DEF WorkInv
<1> QED
  BY <1>1, <1>3, <1>4, <1>5, Reckoned DEF WorkInv, WorkDone

(* Every step keeps the invariant.                                         *)
LEMMA AccountStep == AccountInv /\ [Next]_vars => AccountInv'
<1> SUFFICES ASSUME AccountInv, [Next]_vars PROVE AccountInv'
  OBVIOUS
<1>1. /\ rows \in Seq(Range(rows)) /\ todo \in Seq(Range(todo)) /\ WorkInv
      /\ \A analysis \in Range(todo) : IsFiniteSet(analysis.text)
      /\ \A row \in Range(rows) : Covered(row) => Accounted(row)
  BY StoredRange DEF AccountInv, EnrichmentAccounted
<1>2. CASE ChangeKey \/ UNCHANGED vars
  <2>1. UNCHANGED << rows, todo, stage, iocs, work >>
    BY <1>2 DEF ChangeKey, vars
  <2> QED
    BY <2>1 DEF AccountInv, WorkInv, EnrichmentAccounted, Stored
<1>3. CASE Begin
  <2>1. rows' = rows
    BY <1>3 DEF Begin
  <2> QED
    BY <1>1, <1>3, <2>1, WorkBegins DEF AccountInv, EnrichmentAccounted, Stored
<1>4. CASE LookUp
  <2>1. rows' = rows /\ todo' = todo
    BY <1>4 DEF LookUp
  <2> QED
    BY <1>1, <1>4, <2>1, WorkGoesOn DEF AccountInv, EnrichmentAccounted, Stored
<1>5. CASE Store
  <2>1. PICK row : /\ rows' = << row >> \o rows
                   /\ \E risk : row = Row(Enriched, risk)
    BY <1>5 DEF Store
  <2>2. Covered(row) => Accounted(row)
    BY <1>1, <1>5, <2>1, StoredAccounted
  <2>3. /\ rows' \in Seq(Range(rows')) /\ Range(rows') = { row } \cup Range(rows)
    BY <1>1, <2>1, Pushed
  <2>4. EnrichmentAccounted'
    BY <1>1, <2>2, <2>3 DEF EnrichmentAccounted, Stored, Range
  <2>5. /\ todo' \in Seq(Range(todo')) /\ Range(todo') \subseteq Range(todo)
    <3>1. todo' = Tail(todo) /\ todo # << >>
      BY <1>1, <1>5 DEF Store, WorkInv
    <3> QED
      BY <1>1, <3>1, Popped
  <2>6. WorkInv'
    BY <1>5 DEF Store, WorkInv
  <2> QED
    BY <1>1, <2>3, <2>4, <2>5, <2>6 DEF AccountInv
<1> QED
  BY <1>2, <1>3, <1>4, <1>5 DEF Next

(* Whatever the provider answers to a lookup, and whenever its key is set   *)
(* or taken away, the coverage stored with an analysis adds up: it asked    *)
(* for each enrichable indicator once, every record is of one of them, and  *)
(* succeeded, failed and skipped lookups make up the whole - but for a rate *)
(* limit among the domains, which leaves exactly the URLs out.              *)
THEOREM LookupsAccounted == Spec => []EnrichmentAccounted
<1>1. AccountInv => EnrichmentAccounted
  BY DEF AccountInv
<1> QED
  BY <1>1, AccountInit, AccountStep, PTL DEF Spec

-----------------------------------------------------------------------------
(***************************************************************************)
(* What is stored and shown: the rows, each with the records of its own    *)
(* indicators                                                              *)
(***************************************************************************)

(* The types are ten.                                                      *)
LEMMA TenTypes == IsFiniteSet(IocTypes) /\ Cardinality(IocTypes) = 10
<1> DEFINE f == [ i \in 1 .. 10 |->
                    CASE i = 1 -> "ipv4"   [] i = 2 -> "domains" [] i = 3 -> "urls"
                      [] i = 4 -> "emails" [] i = 5 -> "md5"     [] i = 6 -> "sha1"
                      [] i = 7 -> "sha256" [] i = 8 -> "cves"
                      [] i = 9 -> "windows_file_paths"
                      [] i = 10 -> "windows_registry_keys" ]
<1>1. /\ f[1] = "ipv4" /\ f[2] = "domains" /\ f[3] = "urls" /\ f[4] = "emails"
      /\ f[5] = "md5" /\ f[6] = "sha1" /\ f[7] = "sha256" /\ f[8] = "cves"
      /\ f[9] = "windows_file_paths" /\ f[10] = "windows_registry_keys"
      /\ DOMAIN f = 1 .. 10 /\ f = [ i \in 1 .. 10 |-> f[i] ]
      /\ \A i \in 1 .. 10 : i \in { 1, 2, 3, 4, 5, 6, 7, 8, 9, 10 }
  OBVIOUS
<1> HIDE DEF f
<1>2. \A i \in 1 .. 10 : f[i] \in IocTypes
  BY <1>1 DEF IocTypes
<1>3. \A i, j \in 1 .. 10 : f[i] = f[j] => i = j
  BY <1>1
<1>4. \A type \in IocTypes : \E i \in 1 .. 10 : f[i] = type
  BY <1>1 DEF IocTypes
<1>5. f \in Bijection(1 .. 10, IocTypes)
  BY <1>1, <1>2, <1>3, <1>4 DEF Bijection, Injection, Surjection, IsInjective
<1>6. ExistsBijection(1 .. 10, IocTypes)
  BY <1>5 DEF ExistsBijection
<1> QED
  BY <1>6, FS_NatBijection, FS_CountingElements

(* A row, but for its numbers                                              *)
Kept(row) ==
  /\ Sorted(row.iocs)
  /\ IF Covered(row) THEN Accounted(row)
       ELSE row.ti.records = {} /\ row.ti.coverage = NoCoverage
  /\ \A record \in row.ti.records : Answered(record)

(* Its records are answers about some of its enrichable indicators, one    *)
(* for each.                                                               *)
LEMMA RowRecords ==
  ASSUME NEW row, Kept(row)
  PROVE  /\ \A r \in row.ti.records : /\ r.ioc \in Enrichable(row.iocs)
                                      /\ TypeOf(r.ioc) \in EnrichableTypes
                                      /\ Answered(r)
         /\ \A r, s \in row.ti.records : r.ioc = s.ioc => r = s
         /\ IsFiniteSet(Enrichable(row.iocs)) /\ IsFiniteSet(row.ti.records)
         /\ Cardinality(row.ti.records) <= Cardinality(Enrichable(row.iocs))
<1> DEFINE asked == Enrichable(row.iocs)
           R == row.ti.records
           f == [ r \in R |-> r.ioc ]
<1>1. IsFiniteSet(asked)
  BY Ordered DEF Kept
<1>2. \A r \in R : r.ioc \in asked /\ Answered(r)
  BY DEF Kept, Accounted
<1>3. \A r, s \in R : r.ioc = s.ioc => r = s
  BY DEF Kept, Accounted
<1>4. \A ioc \in asked : TypeOf(ioc) \in EnrichableTypes
  BY DEF Kept, Sorted, Enrichable, EnrichableTypes, IocTypes
<1> HIDE DEF asked, R
<1>5. f \in Injection(R, asked)
  BY <1>2, <1>3 DEF Injection, IsInjective
<1>6. IsFiniteSet(R) /\ Cardinality(R) <= Cardinality(asked)
  BY <1>1, <1>5, FS_Injection
<1> QED
  BY <1>1, <1>2, <1>3, <1>4, <1>6 DEF asked, R

-----------------------------------------------------------------------------
(***************************************************************************)
(* The numbers of a row                                                    *)
(***************************************************************************)

(* The smaller and the larger of two                                       *)
LEMMA OfTwo ==
  ASSUME NEW a \in Int, NEW b \in Int
  PROVE  /\ Min({ a, b }) = IF a <= b THEN a ELSE b
         /\ Max({ a, b }) = IF a <= b THEN b ELSE a
BY DEF Min, Max

(* The sums in question                                                    *)
CountsByType(found) == [ type \in IocTypes |-> Count(found, type) ]
PointsByType(found) == [ type \in IocTypes |-> IocPoints(found, type) ]
PointsByRecord(ti) == [ record \in ti.records |-> RecordPoints(record) ]

(* Their numbers are counted from zero.                                    *)
LEMMA Sums ==
  ASSUME NEW row, Kept(row)
  PROVE  /\ CountAll(row.iocs) = SumFunctionOnSet(CountsByType(row.iocs), IocTypes)
         /\ IocScore(row.iocs) = SumFunctionOnSet(PointsByType(row.iocs), IocTypes)
         /\ ThreatIntelScore(row.ti)
              = SumFunctionOnSet(PointsByRecord(row.ti), row.ti.records)
         /\ Counts(CountsByType(row.iocs), IocTypes)
         /\ Counts(PointsByType(row.iocs), IocTypes)
         /\ Counts(PointsByRecord(row.ti), row.ti.records)
         /\ CountAll(row.iocs) \in Nat /\ IocScore(row.iocs) \in Nat
         /\ ThreatIntelScore(row.ti) \in Nat /\ CveScore(row.iocs) \in Nat
         /\ \A record \in row.ti.records :
              RecordPoints(record) <= ThreatIntelScore(row.ti)
<1>1. CountAll(row.iocs) = SumFunctionOnSet(CountsByType(row.iocs), IocTypes)
  BY DEF CountAll, Total, SumFunction, CountsByType
<1>2. IocScore(row.iocs) = SumFunctionOnSet(PointsByType(row.iocs), IocTypes)
  BY DEF IocScore, Total, SumFunction, PointsByType
<1>3. ThreatIntelScore(row.ti)
        = SumFunctionOnSet(PointsByRecord(row.ti), row.ti.records)
  BY DEF ThreatIntelScore, Total, SumFunction, PointsByRecord
<1>4. \A type \in IocTypes : Count(row.iocs, type) \in Nat
  BY FS_CardinalityType DEF Kept, Sorted, Count
<1>5. \A type \in IocTypes : IocWeight(type) \in Nat
  BY DEF IocTypes, IocWeight
<1>6. \A type \in IocTypes : IocPoints(row.iocs, type) \in Nat
  <2>1. \A m, n \in Nat : m * n \in Nat
    OBVIOUS
  <2> QED
    BY <1>4, <1>5, <2>1, Zenon DEF IocPoints
<1>7. \A record \in row.ti.records : RecordPoints(record) \in Nat
  <2> SUFFICES ASSUME NEW record \in row.ti.records PROVE RecordPoints(record) \in Nat
    OBVIOUS
  <2>1. /\ record.malicious \in Nat /\ record.suspicious \in Nat
        /\ record.reputation # << >> => record.reputation[1] \in Int
    BY DEF Kept, Answered, Numeric
  <2>2. record.malicious * 5 \in Nat /\ record.suspicious * 2 \in Nat
    BY <2>1
  <2>3. (IF record.reputation # << >> /\ record.reputation[1] < 0
           THEN - record.reputation[1] ELSE 0) \in Nat
    BY <2>1
  <2> QED
    BY <2>2, <2>3 DEF RecordPoints
<1>8. CveScore(row.iocs) \in Nat
  BY <1>4 DEF CveScore, IocTypes
<1>9. /\ Counts(CountsByType(row.iocs), IocTypes)
      /\ Counts(PointsByType(row.iocs), IocTypes)
      /\ Counts(PointsByRecord(row.ti), row.ti.records)
  BY <1>4, <1>6, <1>7 DEF Counts, CountsByType, PointsByType, PointsByRecord
<1>10. /\ CountAll(row.iocs) \in Nat /\ IocScore(row.iocs) \in Nat
       /\ ThreatIntelScore(row.ti) \in Nat
       /\ \A record \in row.ti.records :
            PointsByRecord(row.ti)[record] <= ThreatIntelScore(row.ti)
  <2>1. IsFiniteSet(IocTypes) /\ IsFiniteSet(row.ti.records)
    BY TenTypes, RowRecords
  <2>2. /\ SumFunctionOnSet(CountsByType(row.iocs), IocTypes) \in Nat
        /\ SumFunctionOnSet(PointsByType(row.iocs), IocTypes) \in Nat
    BY <1>9, <2>1, SumNat
  <2>3. /\ SumFunctionOnSet(PointsByRecord(row.ti), row.ti.records) \in Nat
        /\ \A record \in row.ti.records :
             PointsByRecord(row.ti)[record]
               <= SumFunctionOnSet(PointsByRecord(row.ti), row.ti.records)
    BY <1>9, <2>1, SumNat
  <2> QED
    BY <1>1, <1>2, <1>3, <2>2, <2>3
<1> QED
  BY <1>1, <1>2, <1>3, <1>8, <1>9, <1>10 DEF PointsByRecord

(* A score has a severity.                                                 *)
LEMMA SeverityOfScore ==
  ASSUME NEW score \in Int
  PROVE  DetermineSeverity(score) = IF score <= 20 THEN "LOW"
                                    ELSE IF score <= 40 THEN "MEDIUM"
                                    ELSE IF score <= 70 THEN "HIGH" ELSE "CRITICAL"
<1>1. CASE score <= 20
  BY <1>1 DEF DetermineSeverity
<1>2. CASE score \in 21 .. 40
  BY <1>2 DEF DetermineSeverity
<1>3. CASE score \in 41 .. 70
  BY <1>3 DEF DetermineSeverity
<1>4. CASE score > 70
  BY <1>4 DEF DetermineSeverity
<1> QED
  BY <1>1, <1>2, <1>3, <1>4

(* The score of a row that the engine rates                                *)
LEMMA RiskOfRow ==
  ASSUME NEW row, Kept(row), NEW risk, risk = Risk(row.iocs, row.ti)
  PROVE  /\ risk.ioc_score = IocScore(row.iocs)
         /\ risk.threat_intel_score = ThreatIntelScore(row.ti)
         /\ risk.cve_score = CveScore(row.iocs)
         /\ risk.risk_score \in 0 .. 100
         /\ LET sum == risk.ioc_score + risk.threat_intel_score + risk.cve_score IN
              risk.risk_score = IF sum <= 100 THEN sum ELSE 100
         /\ risk.severity = DetermineSeverity(risk.risk_score)
         /\ risk.severity # "NOT_SCORED"
         /\ risk.confidence = Confidence(row.iocs, row.ti)
<1> DEFINE sum == IocScore(row.iocs) + ThreatIntelScore(row.ti) + CveScore(row.iocs)
<1>1. sum \in Nat
  BY Sums
<1>2. /\ risk.ioc_score = IocScore(row.iocs)
      /\ risk.threat_intel_score = ThreatIntelScore(row.ti)
      /\ risk.cve_score = CveScore(row.iocs) /\ risk.risk_score = NormalizeScore(sum)
      /\ risk.severity = DetermineSeverity(NormalizeScore(sum))
      /\ risk.confidence = Confidence(row.iocs, row.ti)
  BY DEF Risk
<1> HIDE DEF sum
<1>3. NormalizeScore(sum) = IF sum <= 100 THEN sum ELSE 100
  <2>1. PICK m : m = Min({ sum, 100 })
    OBVIOUS
  <2>2. m = IF sum <= 100 THEN sum ELSE 100
    BY <1>1, <2>1, OfTwo
  <2>3. m \in Int /\ 0 <= m
    BY <1>1, <2>2
  <2>4. Max({ 0, m }) = m
    BY <2>3, OfTwo
  <2>5. NormalizeScore(sum) = Max({ 0, m })
    BY <2>1 DEF NormalizeScore, MaxScore
  <2> QED
    BY <2>2, <2>4, <2>5
<1>4. NormalizeScore(sum) \in 0 .. 100
  BY <1>1, <1>3
<1>5. risk.severity # "NOT_SCORED"
  <2>1. \A score \in Int : DetermineSeverity(score) # "NOT_SCORED"
    BY SeverityOfScore
  <2> QED
    BY <1>2, <1>4, <2>1
<1>6. sum = risk.ioc_score + risk.threat_intel_score + risk.cve_score
  BY <1>2 DEF sum
<1> QED
  BY <1>2, <1>3, <1>4, <1>5, <1>6

-----------------------------------------------------------------------------
(***************************************************************************)
(* The invariant                                                           *)
(***************************************************************************)

(* In every situation to start from the rows are whole.                    *)
LEMMA WholeInit == Init => WholeInv
<1> SUFFICES ASSUME Init PROVE WholeInv
  OBVIOUS
<1>1. PICK situation \in Situations :
        rows = situation.rows /\ todo = situation.analyses
  BY DEF Init
<1>2. work.records = {}
  BY DEF Init, NoWork
<1>3. \A row \in Range(rows) : Whole(row) /\ Findable(row.report)
  BY <1>1, SituationsAssumption
<1>4. \A analysis \in Range(todo) : Findable(analysis.report)
  BY <1>1, SituationsAssumption
<1> QED
  BY <1>2, <1>3, <1>4, StoredRange DEF WholeInv

(* An analysis that began has no records yet.                              *)
LEMMA NoRecordsFirst ==
  ASSUME NEW found
  PROVE  StartWork(found).records = {}
BY DEF StartWork, NoWork

(* One turn of the loops adds a record of an answer, or none.              *)
LEMMA TurnRecords ==
  ASSUME NEW w, DOMAIN w = DOMAIN NoWork, \A record \in w.records : Answered(record),
         NEW keyed, NEW response \in Responses, NEW v, v = Turn(w, keyed, response)
  PROVE  \A record \in v.records : Answered(record)
<1>1. \/ Same(w, v, { "records" })
      \/ Succeeds(w, v) \/ Skips(w, v) \/ Misses(w, v) \/ Ends(w, v)
  BY TurnEffect
<1>2. v.records = w.records \/ \E r : Answered(r) /\ v.records = w.records \cup { r }
  BY <1>1 DEF Same, Succeeds, Skips, Misses, Ends
<1> QED
  BY <1>2
(* A lookup adds a record of an answer, or none.                           *)
LEMMA RecordsAnswered ==
  ASSUME WorkInv, LookUp, \A record \in work.records : Answered(record)
  PROVE  \A record \in work'.records : Answered(record)
<1>1. DOMAIN work = DOMAIN NoWork
  BY DEF WorkInv
<1>2. PICK response \in Responses : work' = Turn(work, key, response)
  BY DEF LookUp
<1>3. PICK v : v = work'
  OBVIOUS
<1> QED
  BY <1>1, <1>2, <1>3, TurnRecords

(* What an analysis stores of its lookups is covered, or is nothing.       *)
LEMMA EnrichedCovers ==
  ASSUME WorkInv, \A record \in work.records : Answered(record)
  PROVE  /\ \A record \in Enriched.records : Answered(record)
         /\ \/ Enriched.status \in Attempted
            \/ Enriched.records = {} /\ Enriched.coverage = NoCoverage
<1>1. \A reason : /\ Unavailable(reason).records = {}
                  /\ Unavailable(reason).coverage = NoCoverage
  BY DEF Unavailable
<1>2. CASE "enrich_ti" \notin Analysis.options
  BY <1>1, <1>2 DEF Enriched
<1>3. CASE "enrich_ti" \in Analysis.options /\ work.error = "none"
  <2>1. /\ Enriched.records = work.records /\ Enriched.status = Status(work)
    BY <1>3 DEF Enriched, ThreatIntelligence
  <2>2. Status(work) \in Attempted
    BY DEF Status, Attempted
  <2> QED
    BY <2>1, <2>2
<1>4. CASE "enrich_ti" \in Analysis.options /\ work.error # "none"
  <2>1. \E reason : Enriched = Unavailable(reason)
    BY <1>4 DEF Enriched, ThreatIntelligence
  <2> QED
    BY <1>1, <2>1
<1> QED
  BY <1>2, <1>3, <1>4

(* The row that an analysis stores is whole.                               *)
LEMMA StoredWhole ==
  ASSUME WorkInv, Store, \A record \in work.records : Answered(record)
  PROVE  LET risk == IF "score_risk" \in Analysis.options
                       THEN Risk(iocs, Enriched) ELSE NotScored
         IN  Whole(Row(Enriched, risk))
<1> DEFINE risk == IF "score_risk" \in Analysis.options
                     THEN Risk(iocs, Enriched) ELSE NotScored
<1>1. PICK row : row = Row(Enriched, risk)
  OBVIOUS
<1>2. /\ row.iocs = iocs /\ row.ti = Enriched /\ row.severity = risk.severity
      /\ row.risk_score = risk.risk_score /\ row.confidence = risk.confidence
      /\ row.ioc_score = risk.ioc_score /\ row.cve_score = risk.cve_score
      /\ row.threat_intel_score = risk.threat_intel_score
  BY <1>1 DEF Row
<1>3. Sorted(row.iocs)
  BY <1>2 DEF WorkInv, Store
<1>4. Covered(row) => Accounted(row)
  BY <1>1, StoredAccounted
<1>5. ~ Covered(row) => row.ti.records = {} /\ row.ti.coverage = NoCoverage
  BY <1>2, EnrichedCovers DEF Covered
<1>6. \A record \in row.ti.records : Answered(record)
  BY <1>2, EnrichedCovers
<1>7. Kept(row)
  BY <1>3, <1>4, <1>5, <1>6 DEF Kept
<1>8. PICK rated : rated = IF Scored(row) THEN Risk(row.iocs, row.ti) ELSE NotScored
  OBVIOUS
<1>9. rated = risk
  <2>1. CASE "score_risk" \in Analysis.options
    <3>1. risk = Risk(row.iocs, row.ti)
      BY <1>2, <2>1
    <3>2. risk.severity # "NOT_SCORED"
      BY <1>7, <3>1, RiskOfRow
    <3> QED
      BY <1>2, <1>8, <3>1, <3>2 DEF Scored
  <2>2. CASE "score_risk" \notin Analysis.options
    BY <1>2, <1>8, <2>2 DEF Scored, NotScored
  <2> QED
    BY <2>1, <2>2
<1>10. Rated(row)
  <2> HIDE DEF risk
  <2>1. \A field \in DOMAIN NotScored : row[field] = rated[field]
    BY <1>2, <1>9 DEF NotScored
  <2> QED
    BY <1>8, <2>1 DEF Rated
<1> QED
  BY <1>1, <1>7, <1>10 DEF Whole, Kept

(* Every step keeps the rows whole.                                        *)
LEMMA WholeStep == AccountInv /\ WholeInv /\ [Next]_vars => WholeInv'
<1> SUFFICES ASSUME AccountInv, WholeInv, [Next]_vars PROVE WholeInv'
  OBVIOUS
<1>1. /\ rows \in Seq(Range(rows)) /\ todo \in Seq(Range(todo)) /\ WorkInv
      /\ \A row \in Range(rows) : Whole(row) /\ Findable(row.report)
      /\ \A analysis \in Range(todo) : Findable(analysis.report)
      /\ \A record \in work.records : Answered(record)
  BY StoredRange DEF AccountInv, WholeInv
<1>2. CASE ChangeKey \/ UNCHANGED vars
  <2>1. UNCHANGED << rows, todo, work >>
    BY <1>2 DEF ChangeKey, vars
  <2> QED
    BY <2>1 DEF WholeInv, Stored
<1>3. CASE Begin
  <2>1. /\ rows' = rows
        /\ \/ todo' = todo
           \/ todo # << >> /\ todo' = Tail(todo)
    BY <1>3 DEF Begin
  <2>2. Range(todo') \subseteq Range(todo)
    BY <1>1, <2>1, Popped
  <2>3. work'.records = work.records \/ work'.records = {}
    BY <1>3, NoRecordsFirst DEF Begin
  <2> QED
    BY <1>1, <2>1, <2>2, <2>3 DEF WholeInv, Stored, Range
<1>4. CASE LookUp
  <2>1. rows' = rows /\ todo' = todo
    BY <1>4 DEF LookUp
  <2>2. \A record \in work'.records : Answered(record)
    BY <1>1, <1>4, RecordsAnswered
  <2> QED
    BY <1>1, <2>1, <2>2 DEF WholeInv, Stored, Range
<1>5. CASE Store
  <2>1. PICK row : /\ rows' = << row >> \o rows
                   /\ row = Row(Enriched, IF "score_risk" \in Analysis.options
                                            THEN Risk(iocs, Enriched) ELSE NotScored)
    BY <1>5 DEF Store
  <2>2. Whole(row)
    BY <1>1, <1>5, <2>1, StoredWhole
  <2>3. Analysis \in Range(todo) /\ todo # << >>
    BY <1>1, <1>5, Popped DEF WorkInv, Store, Analysis
  <2>4. Findable(row.report)
    <3>1. row.report = Analysis.report
      BY <2>1 DEF Row
    <3> QED
      BY <1>1, <2>3, <3>1
  <2>5. Range(rows') = { row } \cup Range(rows)
    BY <1>1, <2>1, Pushed
  <2>6. Range(todo') \subseteq Range(todo)
    BY <1>1, <1>5, <2>3, Popped DEF Store
  <2>7. work'.records = {}
    BY <1>5 DEF Store, NoWork
  <2>8. \A other \in Range(rows') : Whole(other) /\ Findable(other.report)
    BY <1>1, <2>2, <2>4, <2>5
  <2> QED
    BY <1>1, <2>6, <2>7, <2>8 DEF WholeInv, Stored, Range
<1> QED
  BY <1>2, <1>3, <1>4, <1>5 DEF Next

-----------------------------------------------------------------------------
(***************************************************************************)
(* Nothing unchecked looks clean                                           *)
(***************************************************************************)

(* One absence counts as itself.                                           *)
LEMMA AggregateOne ==
  ASSUME NEW verdict \in { "rate_limited", "no_api_key", "unavailable", "error" }
  PROVE  Aggregate({ verdict }) = verdict
<1> DEFINE order == ContentPrecedence \o AbsencePrecedence
           K == { i \in DOMAIN order : order[i] \in { verdict } }
<1>1. /\ Len(order) = 9 /\ DOMAIN order = 1 .. 9
      /\ order[1] = "malicious" /\ order[2] = "suspicious" /\ order[3] = "clean"
      /\ order[4] = "rate_limited" /\ order[5] = "no_api_key"
      /\ order[6] = "unavailable" /\ order[7] = "error" /\ order[8] = "not_found"
      /\ order[9] = "unsupported"
  BY DEF ContentPrecedence, AbsencePrecedence
<1>2. Aggregate({ verdict }) = order[Min(K)]
  BY DEF Aggregate
<1> HIDE DEF order
<1>3. PICK k \in 4 .. 7 : order[k] = verdict /\ K = { k }
  <2>1. \A i \in 1 .. 9 : i \in { 1, 2, 3, 4, 5, 6, 7, 8, 9 }
    OBVIOUS
  <2>2. PICK k \in 4 .. 7 : order[k] = verdict
    BY <1>1
  <2>3. \A i \in 1 .. 9 : order[i] = order[k] => i = k
    BY <1>1, <2>1
  <2> QED
    BY <1>1, <2>2, <2>3
<1>4. Min({ k }) = k
  BY DEF Min
<1> QED
  BY <1>2, <1>3, <1>4

(* The typed verdict of a record that says whether its indicator was found *)
(* is the one that is stored with it.                                      *)
LEMMA VerdictsTranslate ==
  ASSUME NEW record, record.found \in { "yes", "no" }
  PROVE  LegacyVerdict(TranslateVerdict(record)) = FormatVerdict(record)
BY DEF LegacyVerdict, TranslateVerdict, FormatVerdict

(* No answer, no verdict: the lookups agree.                               *)
LEMMA TypedAgree == TypedLookupsAgree
<1> SUFFICES ASSUME NEW response \in Responses, NEW keyed \in BOOLEAN
             PROVE  LET ioc == Plain("sha256", "hash")
                        outcome == LookupRaw(keyed, ioc, response)
                        verdict == ProviderVerdict(keyed, ioc, response)
                    IN  IF outcome.error = "none"
                          THEN LegacyVerdict(verdict) = FormatVerdict(outcome.record[1])
                          ELSE Aggregate({ verdict } \ { "raised" })
                                 \notin { "clean", "malicious", "suspicious", "not_found" }
  BY DEF TypedLookupsAgree
<1> DEFINE ioc == Plain("sha256", "hash")
           v == ProviderVerdict(keyed, ioc, response)
<1>1. PICK outcome : outcome = LookupRaw(keyed, ioc, response)
  OBVIOUS
<1>2. TypeOf(ioc) \in EnrichableTypes
  BY DEF Plain, TypeOf, EnrichableTypes
<1>3. v = CASE outcome.error = "none" -> TranslateVerdict(outcome.record[1])
            [] outcome.error \in { "MissingAPIKey", "InvalidAPIKey" } -> "no_api_key"
            [] outcome.error = "RateLimitExceeded"     -> "rate_limited"
            [] outcome.error \in { "Timeout", "Connection" } -> "unavailable"
            [] outcome.error = "UnexpectedAPIResponse" -> "error"
            [] outcome.error \in { "InvalidIndicator", "Overflow" } -> "raised"
  BY <1>1, <1>2 DEF ProviderVerdict
<1> HIDE DEF ioc, v
<1>4. \/ /\ outcome.error = "none" /\ WithVerdict(outcome.record[1]).ioc = ioc
         /\ outcome.record[1].found \in { "yes", "no" }
      \/ outcome.error \in { "InvalidIndicator", "Timeout", "Connection",
                             "UnexpectedAPIResponse", "RateLimitExceeded",
                             "InvalidAPIKey", "MissingAPIKey", "Overflow" }
  BY <1>1, Outcomes
<1>5. CASE outcome.error = "none"
  <2>1. PICK record : record = outcome.record[1]
    OBVIOUS
  <2>2. v = TranslateVerdict(record)
    BY <1>3, <1>5, <2>1
  <2>3. record.found \in { "yes", "no" }
    BY <1>4, <1>5, <2>1
  <2>4. LegacyVerdict(TranslateVerdict(record)) = FormatVerdict(record)
    BY <2>3, VerdictsTranslate
  <2> QED
    BY <1>1, <1>5, <2>1, <2>2, <2>4 DEF v, ioc
<1>6. CASE outcome.error # "none"
  <2>1. \/ v = "raised"
        \/ v \in { "rate_limited", "no_api_key", "unavailable", "error" }
    BY <1>3, <1>4, <1>6
  <2>2. { v } \ { "raised" } = IF v = "raised" THEN {} ELSE { v }
    OBVIOUS
  <2>3. Aggregate({ v } \ { "raised" })
          \notin { "clean", "malicious", "suspicious", "not_found" }
    <3>1. Aggregate({}) = "unsupported"
      BY DEF Aggregate
    <3> QED
      BY <2>1, <2>2, <3>1, AggregateOne
  <2> QED
    BY <1>1, <1>6, <2>3 DEF v, ioc
<1> QED
  BY <1>5, <1>6

(* The detail view decides like the list, and shows the records of an      *)
(* enriched indicator.                                                     *)
LEMMA DetailAgrees ==
  ASSUME NEW row, NEW ioc, NEW keyed
  PROVE  /\ DetailContext(row, ioc, keyed).state = TiState(row, ioc, keyed)
         /\ DetailContext(row, ioc, keyed).record
              = IF TypeOf(ioc) \in EnrichableTypes /\ keyed
                  THEN RecordsOf(row.ti, ioc) ELSE {}
         /\ TiState(row, ioc, keyed) = "enriched" <=>
              /\ TypeOf(ioc) \in EnrichableTypes /\ keyed
              /\ RecordsOf(row.ti, ioc) # {}
<1>1. CASE TypeOf(ioc) \notin EnrichableTypes
  BY <1>1 DEF DetailContext, TiState
<1>2. CASE TypeOf(ioc) \in EnrichableTypes /\ ~ keyed
  BY <1>2 DEF DetailContext, TiState
<1>3. CASE TypeOf(ioc) \in EnrichableTypes /\ keyed
  BY <1>3 DEF DetailContext, TiState
<1> QED
  BY <1>1, <1>2, <1>3

(* A record that a row has of an indicator is its only one.                *)
LEMMA OneRecord ==
  ASSUME NEW row, Kept(row), NEW ioc, NEW record \in RecordsOf(row.ti, ioc)
  PROVE  /\ RecordsOf(row.ti, ioc) = { record } /\ record \in row.ti.records
         /\ record.ioc = ioc /\ TypeOf(ioc) \in EnrichableTypes
         /\ ioc \in Enrichable(row.iocs) /\ Answered(record)
BY RowRecords DEF RecordsOf

(* The threat tables have a row for each record.                           *)
LEMMA ThreatTable ==
  ASSUME NEW row, Kept(row)
  PROVE  ThreatRows(BuildReport(row)) = { ThreatRow(r) : r \in row.ti.records }
<1>1. BuildReport(row).ti = row.ti
  BY DEF BuildReport
<1>2. \A r \in row.ti.records : TypeOf(r.ioc) \in EnrichableTypes
  BY RowRecords
<1>3. \A type : RecordsOfType(row.ti, type) = { r \in row.ti.records : TypeOf(r.ioc) = type }
  BY DEF RecordsOfType
<1> QED
  BY <1>1, <1>2, <1>3 DEF ThreatRows

(* The verdicts that they show of an indicator are those of its records.   *)
LEMMA ShownVerdicts ==
  ASSUME NEW row, Kept(row), NEW ioc
  PROVE  Shown(ThreatRows(BuildReport(row)), ioc)
           = { r.verdict : r \in RecordsOf(row.ti, ioc) }
<1>1. \A r : ThreatRow(r).indicator = r.ioc /\ ThreatRow(r).verdict = r.verdict
  BY DEF ThreatRow
<1> QED
  BY <1>1, ThreatTable DEF Shown, RecordsOf

(* A link of threat intelligence is one to a record.                       *)
LEMMA LinkedIfAnswered ==
  ASSUME NEW row, NEW ioc
  PROVE  Linked(row, ioc) <=>
           ioc \in Enrichable(row.iocs) /\ RecordsOf(row.ti, ioc) # {}
<1>1. \A kind, a, b : /\ Correlation(kind, a, b).kind = kind
                      /\ Correlation(kind, a, b).primary = a
  BY DEF Correlation
<1>2. \A c \in Duplicates(row.iocs) : c.kind = "duplicate_ioc"
  BY <1>1 DEF Duplicates
<1>3. \A c \in DomainHosts(row.iocs) : c.kind = "domain_url_host"
  BY <1>1 DEF DomainHosts
<1>4. Correlation("threat_intel_link", ioc, ioc) \in ThreatIntelLinks(row) <=>
        ioc \in Enrichable(row.iocs) /\ RecordsOf(row.ti, ioc) # {}
  BY <1>1 DEF ThreatIntelLinks
<1> QED
  BY <1>1, <1>2, <1>3, <1>4 DEF Linked, Correlate

(* What was answered has one verdict, wherever it is shown.                *)
LEMMA AnsweredShownAlike ==
  ASSUME NEW row, Kept(row), NEW ioc, NEW record \in RecordsOf(row.ti, ioc)
  PROVE  RecordShownAlike(row, ioc, record)
<1>1. /\ RecordsOf(row.ti, ioc) = { record } /\ record \in row.ti.records
      /\ TypeOf(ioc) \in EnrichableTypes /\ ioc \in Enrichable(row.iocs)
      /\ Answered(record)
  BY OneRecord
<1>2. Shown(ThreatRows(BuildReport(row)), ioc) = { record.verdict }
  BY <1>1, ShownVerdicts
<1>3. record \in JsonReport(BuildReport(row)).ti.records
  BY <1>1 DEF JsonReport, BuildReport
<1>4. Linked(row, ioc)
  BY <1>1, LinkedIfAnswered
<1>5. ASSUME record.found # "absent"
      PROVE  /\ record.verdict = LegacyVerdict(TypedVerdictOf(row, ioc))
             /\ record.verdict = "Clean" =>
                  record.found = "yes" /\ record.malicious + record.suspicious = 0
  <2>1. record.found \in { "yes", "no" } /\ record.verdict = FormatVerdict(record)
    BY <1>1, <1>5 DEF Answered
  <2>2. TypedVerdictOf(row, ioc) = TranslateVerdict(record)
    BY <1>1, <1>5 DEF TypedVerdictOf, TypedVerdict
  <2>3. record.malicious \in Nat /\ record.suspicious \in Nat
    BY <1>1 DEF Answered, Numeric
  <2>4. FormatVerdict(record) = "Clean" =>
          /\ record.found # "no"
          /\ ~ (record.malicious > 0) /\ ~ (record.suspicious > 0)
    BY Zenon DEF FormatVerdict
  <2>5. ~ (record.malicious > 0) /\ ~ (record.suspicious > 0) =>
          record.malicious + record.suspicious = 0
    BY <2>3
  <2> QED
    BY <2>1, <2>2, <2>4, <2>5, VerdictsTranslate
<1>6. key => DetailContext(row, ioc, key).record = { record }
  BY <1>1, DetailAgrees
<1> QED
  BY <1>2, <1>3, <1>4, <1>5, <1>6 DEF RecordShownAlike

(* What was not answered is shown without one.                             *)
LEMMA UnansweredNotShown ==
  ASSUME NEW row, Kept(row), NEW ioc, RecordsOf(row.ti, ioc) = {}
  PROVE  NoRecordShown(row, ioc)
<1>1. Shown(ThreatRows(BuildReport(row)), ioc) = {}
  BY ShownVerdicts
<1>2. TypedVerdictOf(row, ioc) = "none"
  BY DEF TypedVerdictOf, TypedVerdict
<1>3. /\ ~ Linked(row, ioc) /\ TiState(row, ioc, key) # "enriched"
      /\ DetailContext(row, ioc, key).record = {}
  BY LinkedIfAnswered, DetailAgrees
<1> QED
  BY <1>1, <1>2, <1>3 DEF NoRecordShown

(* What the overview of an investigation is worth: it is only enriched     *)
(* after an enrichment that was "ok", and only an enrichment that stopped  *)
(* half-way is a failed or an unfinished check.                            *)
LEMMA OverviewTells ==
  ASSUME NEW row, Kept(row), NEW keyed
  PROVE  /\ Overview(row, keyed).state
              \in { "enriched", "not_enriched", "no_api_key", "provider_error",
                    "incomplete_check" }
         /\ Overview(row, keyed).state = "enriched" =>
              keyed /\ Covered(row) /\ row.ti.status = "ok"
         /\ Overview(row, keyed).state \in { "provider_error", "incomplete_check" } =>
              row.ti.status = "partial"
         /\ Overview(row, keyed).state = "no_api_key" => ~ keyed
<1>1. PICK o : o = Overview(row, keyed)
  OBVIOUS
<1>2. ~ Covered(row) => /\ row.ti.coverage.requested = 0
                        /\ ~ row.ti.coverage.invalid_api_key
                        /\ ~ row.ti.coverage.rate_limited
  BY DEF Kept, NoCoverage
<1>3. Covered(row) =>
        /\ row.ti.coverage.rate_limited \/ row.ti.coverage.invalid_api_key =>
             row.ti.status = "partial"
        /\ row.ti.status \in { "ok", "partial", "no_indicators" }
  BY DEF Kept, Accounted, Covered, Attempted
<1>4. o.state = IF row.ti.status = "none" THEN "not_enriched"
                ELSE IF row.ti.status = "no_indicators" \/ row.ti.coverage.requested = 0
                  THEN "not_enriched"
                ELSE IF ~ keyed THEN "no_api_key"
                ELSE IF row.ti.coverage.invalid_api_key THEN "provider_error"
                ELSE IF row.ti.coverage.rate_limited THEN "provider_error"
                ELSE IF row.ti.status = "partial" THEN "incomplete_check"
                ELSE "enriched"
  BY <1>1 DEF Overview
<1> QED
  BY <1>1, <1>2, <1>3, <1>4

(* Only a checked investigation is shown as enriched.                      *)
LEMMA OverviewTruthful ==
  ASSUME NEW row, Kept(row)
  PROVE  /\ Overview(row, key).state = "enriched" =>
              \A ioc \in Enrichable(row.iocs) :
                Valid(ioc) => RecordsOf(row.ti, ioc) # {}
                              /\ TiState(row, ioc, key) = "enriched"
         /\ Overview(row, key).state \in { "provider_error", "incomplete_check" } =>
              /\ row.ti.status = "partial" /\ GetIntegrity(row).integrity.threat_intel_complete
              /\ "coverage incomplete" \in Explain(row, key).warnings
<1>1. ASSUME Overview(row, key).state = "enriched",
             NEW ioc \in Enrichable(row.iocs), Valid(ioc)
      PROVE  RecordsOf(row.ti, ioc) # {} /\ TiState(row, ioc, key) = "enriched"
  <2>1. Accounted(row) /\ row.ti.status = "ok" /\ key
    BY <1>1, OverviewTells DEF Kept
  <2>2. RecordsOf(row.ti, ioc) # {}
    BY <1>1, <2>1 DEF Accounted, RecordsOf
  <2>3. TypeOf(ioc) \in EnrichableTypes
    BY <2>2, OneRecord
  <2> QED
    BY <2>1, <2>2, <2>3, DetailAgrees
<1>2. ASSUME Overview(row, key).state \in { "provider_error", "incomplete_check" }
      PROVE  /\ row.ti.status = "partial" /\ GetIntegrity(row).integrity.threat_intel_complete
             /\ "coverage incomplete" \in Explain(row, key).warnings
  <2>1. row.ti.status = "partial"
    BY <1>2, OverviewTells
  <2>2. GetIntegrity(row).integrity.threat_intel_complete
    BY <2>1 DEF GetIntegrity, Integrity, Attempted
  <2>3. \E verified : Explain(row, key).warnings = Warnings(verified, Overview(row, key))
    BY DEF Explain
  <2> QED
    BY <1>2, <2>1, <2>2, <2>3 DEF Warnings
<1> QED
  BY <1>1, <1>2

(* Whatever the provider answers, and whenever its key is set or taken     *)
(* away: an indicator that it did not answer for is nowhere shown with a   *)
(* verdict, one that it answered for has the same verdict in every view    *)
(* and every document, and only an investigation in which every valid      *)
(* indicator was answered for is shown as enriched.                        *)
THEOREM UncheckedNeverClean == Spec => []UncheckedIsNotClean
<1>1. WholeInv => UncheckedIsNotClean
  <2> SUFFICES ASSUME WholeInv PROVE UncheckedIsNotClean
    OBVIOUS
  <2>1. \A row \in Stored : Kept(row)
    BY DEF WholeInv, Whole, Kept
  <2>2. \A row \in Stored : \A ioc \in Observed(row) :
          /\ DetailContext(row, ioc, key).state = TiState(row, ioc, key)
          /\ \A record \in RecordsOf(row.ti, ioc) : RecordShownAlike(row, ioc, record)
          /\ RecordsOf(row.ti, ioc) = {} => NoRecordShown(row, ioc)
    BY <2>1, DetailAgrees, AnsweredShownAlike, UnansweredNotShown
  <2> QED
    BY <2>1, <2>2, TypedAgree, OverviewTruthful, Zenon DEF UncheckedIsNotClean
<1> QED
  BY <1>1, AccountInit, AccountStep, WholeInit, WholeStep, PTL DEF Spec

-----------------------------------------------------------------------------
(***************************************************************************)
(* The score can be explained                                              *)
(***************************************************************************)

(* The points of the categories that are listed add up to the score of the *)
(* indicators: a type without any has no points.                           *)
LEMMA CategoriesAddUp ==
  ASSUME NEW row, Kept(row)
  PROVE  Total(LAMBDA c : c.points, Categories(row.iocs)) = IocScore(row.iocs)
<1> DEFINE iocs1 == row.iocs
           T == { t \in IocTypes : iocs1[t] # {} }
           b == [ type \in T |->
                    [ type |-> type, count |-> Count(iocs1, type),
                      weight |-> IocWeight(type), significance |-> Significance(type),
                      points |-> IocPoints(iocs1, type) ] ]
           C == { b[type] : type \in T }
           f == PointsByType(iocs1)
           g == [ c \in C |-> c.points ]
<1>1. Categories(row.iocs) = C
  BY DEF Categories
<1>2. Total(LAMBDA c : c.points, C) = SumFunctionOnSet(g, C)
  BY DEF Total, SumFunction
<1>3. /\ T \in SUBSET IocTypes /\ IsFiniteSet(T) /\ IsFiniteSet(IocTypes)
  BY TenTypes, FS_Subset
<1>4. \A type \in T : /\ b[type].type = type /\ b[type] \in C
                      /\ g[b[type]] = IocPoints(iocs1, type)
                      /\ f[type] = IocPoints(iocs1, type)
  BY DEF PointsByType
<1>5. Numbers(f, IocTypes)
  BY Sums DEF Counts, Numbers
<1>6. \A type \in IocTypes \ T : f[type] = 0
  <2> SUFFICES ASSUME NEW type \in IocTypes \ T PROVE f[type] = 0
    OBVIOUS
  <2>1. f[type] = IocPoints(iocs1, type) /\ iocs1[type] = {}
    BY DEF PointsByType
  <2>2. Count(iocs1, type) = 0
    BY <2>1, FS_EmptySet DEF Count
  <2>3. IocWeight(type) \in Nat
    BY DEF IocTypes, IocWeight
  <2>4. 0 * IocWeight(type) = 0
    BY <2>3
  <2> QED
    BY <2>1, <2>2, <2>4, Zenon DEF IocPoints
<1> HIDE DEF T, C, g, b, f
<1>7. SumFunctionOnSet(g, { b[type] : type \in T }) = SumFunctionOnSet(f, T)
  <2>1. \A x \in T : f[x] = g[b[x]]
    BY <1>4
  <2>2. \A x, y \in T : b[x] = b[y] => x = y
    BY <1>4
  <2>3. Numbers(f, T)
    BY <1>3, <1>5 DEF Numbers
  <2> QED
    BY <1>3, <2>1, <2>2, <2>3, SumRenamed
<1>8. SumFunctionOnSet(f, IocTypes) = SumFunctionOnSet(f, T)
  BY <1>3, <1>5, <1>6, SumOfPart
<1>9. IocScore(row.iocs) = SumFunctionOnSet(f, IocTypes)
  BY Sums DEF f
<1> QED
  BY <1>1, <1>2, <1>7, <1>8, <1>9 DEF C

(* The image of a finite set                                               *)
LEMMA ImageFinite ==
  ASSUME NEW S, IsFiniteSet(S), NEW f
  PROVE  IsFiniteSet({ f[x] : x \in S })
<1> DEFINE T == { f[x] : x \in S }
           g == [ x \in S |-> f[x] ]
<1>1. g \in Surjection(S, T)
  BY DEF Surjection
<1> HIDE DEF T, g
<1> QED
  BY <1>1, FS_Surjection DEF T

(* A row has finitely many relationships.                                  *)
LEMMA CorrelateFinite ==
  ASSUME NEW row, Kept(row)
  PROVE  IsFiniteSet(Observed(row)) /\ IsFiniteSet(Correlate(row))
<1>1. IsFiniteSet(Observed(row))
  <2> DEFINE f == [ type \in IocTypes |-> row.iocs[type] ]
             F == { f[type] : type \in IocTypes }
  <2>1. \A A \in F : IsFiniteSet(A)
    BY DEF Kept, Sorted
  <2>2. Observed(row) = UNION F
    BY DEF Observed
  <2>3. IsFiniteSet(F)
    <3> HIDE DEF f
    <3> QED
      BY TenTypes, ImageFinite
  <2> HIDE DEF F
  <2> QED
    BY <2>1, <2>2, <2>3, FS_UNION
<1>2. IsFiniteSet(Duplicates(row.iocs))
  <2> DEFINE Others(ioc) ==
               LET spellings == Spellings(row.iocs, TypeOf(ioc), Normalize(ioc))
               IN  { Correlation("duplicate_ioc", Canonical(spellings), other) :
                       other \in spellings \ { Canonical(spellings) } }
             f == [ ioc \in Observed(row) |-> Others(ioc) ]
             F == { f[ioc] : ioc \in Observed(row) }
  <2>1. Duplicates(row.iocs) = UNION F
    <3>1. F = { Others(ioc) : ioc \in Observed(row) }
      OBVIOUS
    <3> HIDE DEF F
    <3> QED
      BY <3>1, Zenon DEF Duplicates, Observed
  <2>2. IsFiniteSet(F)
    <3> HIDE DEF f
    <3> QED
      BY <1>1, ImageFinite
  <2>3. \A ioc \in Observed(row) : IsFiniteSet(Others(ioc))
    <3> SUFFICES ASSUME NEW ioc \in Observed(row) PROVE IsFiniteSet(Others(ioc))
      OBVIOUS
    <3> DEFINE spellings == Spellings(row.iocs, TypeOf(ioc), Normalize(ioc))
               rest == spellings \ { Canonical(spellings) }
               g == [ other \in rest |->
                        Correlation("duplicate_ioc", Canonical(spellings), other) ]
    <3>1. TypeOf(ioc) \in IocTypes
      BY DEF Observed, Kept, Sorted
    <3>2. rest \in SUBSET row.iocs[TypeOf(ioc)]
      BY DEF Spellings
    <3>3. IsFiniteSet(rest)
      BY <3>1, <3>2, FS_Subset DEF Kept, Sorted
    <3>4. Others(ioc) = { g[other] : other \in rest }
      OBVIOUS
    <3> HIDE DEF g, rest, Others
    <3> QED
      BY <3>3, <3>4, ImageFinite
  <2>4. \A A \in F : IsFiniteSet(A)
    BY <2>3
  <2> HIDE DEF F
  <2> QED
    BY <2>1, <2>2, <2>4, FS_UNION
<1>3. IsFiniteSet(DomainHosts(row.iocs))
  <2> DEFINE P == row.iocs["domains"] \X row.iocs["urls"]
             S == { p \in P : HostOf(p[2], p[1]) }
             f == [ p \in S |-> Correlation("domain_url_host", p[1], p[2]) ]
  <2>1. IsFiniteSet(P)
    BY FS_Product DEF Kept, Sorted, IocTypes
  <2>2. IsFiniteSet(S)
    <3> HIDE DEF P
    <3> QED
      BY <2>1, FS_Subset
  <2>3. DomainHosts(row.iocs) = { f[p] : p \in S }
    BY DEF DomainHosts
  <2> HIDE DEF f, S
  <2> QED
    BY <2>2, <2>3, ImageFinite
<1>4. IsFiniteSet(ThreatIntelLinks(row))
  <2> DEFINE S == { i \in Enrichable(row.iocs) : RecordsOf(row.ti, i) # {} }
             f == [ ioc \in S |-> Correlation("threat_intel_link", ioc, ioc) ]
  <2>1. IsFiniteSet(S)
    BY RowRecords, FS_Subset
  <2>2. ThreatIntelLinks(row) = { f[ioc] : ioc \in S }
    BY DEF ThreatIntelLinks
  <2> HIDE DEF f, S
  <2> QED
    BY <2>1, <2>2, ImageFinite
<1> QED
  BY <1>1, <1>2, <1>3, <1>4, FS_Union DEF Correlate

(* Every record is linked to.                                              *)
LEMMA LinksCounted ==
  ASSUME NEW row, Kept(row)
  PROVE  Cardinality(Correlate(row)) >= Cardinality(row.ti.records)
<1> DEFINE R == row.ti.records
           f == [ r \in R |-> Correlation("threat_intel_link", r.ioc, r.ioc) ]
<1>1. \A r \in R : f[r] \in Correlate(row)
  <2> SUFFICES ASSUME NEW r \in R PROVE f[r] \in Correlate(row)
    OBVIOUS
  <2>1. r \in RecordsOf(row.ti, r.ioc)
    BY DEF RecordsOf
  <2>2. Linked(row, r.ioc)
    BY <2>1, OneRecord, LinkedIfAnswered
  <2> QED
    BY <2>2 DEF Linked
<1>2. \A r, q \in R : f[r] = f[q] => r = q
  <2>1. \A ioc : Correlation("threat_intel_link", ioc, ioc).primary = ioc
    BY DEF Correlation
  <2> QED
    BY <2>1, RowRecords
<1>3. f \in Injection(R, Correlate(row))
  BY <1>1, <1>2 DEF Injection, IsInjective
<1>4. Cardinality(R) <= Cardinality(Correlate(row))
  <2> HIDE DEF f, R
  <2> QED
    BY <1>3, CorrelateFinite, FS_Injection
<1>5. Cardinality(R) \in Nat /\ Cardinality(Correlate(row)) \in Nat
  BY CorrelateFinite, RowRecords, FS_CardinalityType
<1> QED
  BY <1>4, <1>5

(* A row is rated by the engine, or not at all.                            *)
LEMMA RatedRow ==
  ASSUME NEW row, Kept(row), Rated(row)
  PROVE  /\ Scored(row) =>
              /\ row.ioc_score = IocScore(row.iocs)
              /\ row.threat_intel_score = ThreatIntelScore(row.ti)
              /\ row.cve_score = CveScore(row.iocs)
              /\ row.risk_score \in 0 .. 100
              /\ LET sum == row.ioc_score + row.threat_intel_score + row.cve_score IN
                   row.risk_score = IF sum <= 100 THEN sum ELSE 100
              /\ row.severity = DetermineSeverity(row.risk_score)
              /\ row.confidence = Confidence(row.iocs, row.ti)
         /\ ~ Scored(row) =>
              /\ row.risk_score = 0 /\ row.ioc_score = 0
              /\ row.threat_intel_score = 0 /\ row.cve_score = 0
<1>1. PICK risk : risk = IF Scored(row) THEN Risk(row.iocs, row.ti) ELSE NotScored
  OBVIOUS
<1>2. /\ row.risk_score = risk.risk_score /\ row.severity = risk.severity
      /\ row.confidence = risk.confidence /\ row.ioc_score = risk.ioc_score
      /\ row.threat_intel_score = risk.threat_intel_score
      /\ row.cve_score = risk.cve_score
  BY <1>1 DEF Rated, NotScored
<1>3. CASE Scored(row)
  <2>1. risk = Risk(row.iocs, row.ti)
    BY <1>1, <1>3
  <2> QED
    BY <1>2, <1>3, <2>1, RiskOfRow
<1>4. CASE ~ Scored(row)
  BY <1>1, <1>2, <1>4 DEF NotScored
<1> QED
  BY <1>3, <1>4

(* What the explanation warns of                                           *)
LEMMA Warned ==
  ASSUME NEW verified, NEW overview
  PROVE  /\ "points do not add up" \in Warnings(verified, overview) => ~ verified
         /\ "coverage incomplete" \in Warnings(verified, overview) =>
              overview.state \notin { "enriched", "not_enriched" }
BY Zenon DEF Warnings

(* A higher score is not a lower severity.                                 *)
LEMMA SeverityGrows ==
  ASSUME NEW a \in Int, NEW b \in Int,
         NEW i \in DOMAIN Severities, NEW j \in DOMAIN Severities, i < j,
         DetermineSeverity(a) = Severities[i], DetermineSeverity(b) = Severities[j]
  PROVE  a < b
<1>1. /\ DOMAIN Severities = 1 .. 4
      /\ Severities[1] = "LOW" /\ Severities[2] = "MEDIUM"
      /\ Severities[3] = "HIGH" /\ Severities[4] = "CRITICAL"
  BY DEF Severities
<1>2. i \in { 1, 2, 3, 4 } /\ j \in { 1, 2, 3, 4 }
  BY <1>1
<1> QED
  BY <1>1, <1>2, SeverityOfScore

(* The records that are counted as malicious or suspicious                 *)
LEMMA FlaggedCounted ==
  ASSUME NEW row, Kept(row)
  PROVE  Verdicts(row, "Malicious") + Verdicts(row, "Suspicious")
           = Cardinality({ r \in row.ti.records : r.found # "no" /\ Flagged(r) })
<1> DEFINE Of(verdict) == { r \in row.ti.records : r.verdict = verdict }
<1>1. /\ Verdicts(row, "Malicious") = Cardinality(Of("Malicious"))
      /\ Verdicts(row, "Suspicious") = Cardinality(Of("Suspicious"))
  BY DEF Verdicts
<1>2. Of("Malicious") \cup Of("Suspicious")
        = { r \in row.ti.records : r.found # "no" /\ Flagged(r) }
  <2>1. ASSUME NEW r \in row.ti.records
        PROVE  r.verdict \in { "Malicious", "Suspicious" } <=>
                 r.found # "no" /\ Flagged(r)
    <3>1. r.verdict = FormatVerdict(r)
      BY DEF Kept, Answered
    <3> QED
      BY <3>1, Zenon DEF FormatVerdict, Flagged
  <2> QED
    BY <2>1
<1>3. Of("Malicious") \cap Of("Suspicious") = {}
  OBVIOUS
<1>4. IsFiniteSet(row.ti.records)
  BY RowRecords
<1>5. Of("Malicious") \in SUBSET row.ti.records /\ Of("Suspicious") \in SUBSET row.ti.records
  OBVIOUS
<1> HIDE DEF Of
<1> QED
  BY <1>1, <1>2, <1>3, <1>4, <1>5, DisjointCount

(* A flagged record has points.                                            *)
LEMMA FlaggedScores ==
  ASSUME NEW row, Kept(row), NEW record \in row.ti.records, Flagged(record)
  PROVE  ThreatIntelScore(row.ti) > 0
<1>1. /\ record.malicious \in Nat /\ record.suspicious \in Nat
      /\ record.reputation # << >> => record.reputation[1] \in Int
  BY DEF Kept, Answered, Numeric
<1>2. PICK bad : bad = IF record.reputation # << >> /\ record.reputation[1] < 0
                         THEN - record.reputation[1] ELSE 0
  OBVIOUS
<1>3. bad \in Nat
  BY <1>1, <1>2
<1>4. RecordPoints(record) = record.malicious * 5 + record.suspicious * 2 + bad
  BY <1>2 DEF RecordPoints
<1>5. RecordPoints(record) > 0 /\ RecordPoints(record) \in Int
  BY <1>1, <1>3, <1>4 DEF Flagged
<1>6. RecordPoints(record) <= ThreatIntelScore(row.ti) /\ ThreatIntelScore(row.ti) \in Nat
  BY Sums
<1> QED
  BY <1>5, <1>6

(* A check that is warned about costs half of the confidence.              *)
LEMMA HalfSure ==
  ASSUME NEW row, Kept(row), ~ Checked(row.ti)
  PROVE  2 * Confidence(row.iocs, row.ti) <= 250 * Min({ 40, CountAll(row.iocs) })
<1>1. PICK m : m = Min({ CountAll(row.iocs), 40 })
  OBVIOUS
<1>2. PICK n : n = Min({ 40, CountAll(row.iocs) })
  OBVIOUS
<1>3. CountAll(row.iocs) \in Nat
  BY Sums
<1>4. m = n /\ m \in Nat
  BY <1>1, <1>2, <1>3, OfTwo
<1>5. Confidence(row.iocs, row.ti) = (250 * m) \div 2
  BY <1>1 DEF Confidence
<1> QED
  BY <1>2, <1>4, <1>5

(* The explanation of a row                                                *)
LEMMA RowExplained ==
  ASSUME NEW row, Kept(row), Rated(row)
  PROVE  LET explanation == Explain(row, key)
             parts == explanation.parts
         IN  /\ Scored(row) =>
                  /\ explanation.verified
                  /\ explanation.score = Min({ 100, parts[1] + parts[2] + parts[3] })
                  /\ \A record \in row.ti.records :
                       Flagged(record) => explanation.score > 0 /\ parts[2] > 0
                  /\ "points do not add up" \notin explanation.warnings
                  /\ key /\ "coverage incomplete" \in explanation.warnings =>
                       2 * row.confidence <= 250 * Min({ 40, CountAll(row.iocs) })
             /\ ~ Scored(row) => explanation.score = 0 /\ parts = << 0, 0, 0 >>
             /\ explanation.malicious + explanation.suspicious
                  = Cardinality({ r \in row.ti.records : r.found # "no" /\ Flagged(r) })
             /\ explanation.relationships >= Cardinality(row.ti.records)
<1>1. PICK verified : verified =
        (Total(LAMBDA c : c.points, Categories(row.iocs)) = row.ioc_score)
  OBVIOUS
<1>2. PICK overview : overview = Overview(row, key)
  OBVIOUS
<1>3. PICK e : e = Explain(row, key)
  OBVIOUS
<1>4. /\ e.score = row.risk_score /\ e.verified = verified
      /\ e.parts = << row.ioc_score, row.threat_intel_score, row.cve_score >>
      /\ e.malicious = Verdicts(row, "Malicious")
      /\ e.suspicious = Verdicts(row, "Suspicious")
      /\ e.relationships = Cardinality(Correlate(row))
      /\ e.warnings = Warnings(verified, overview)
  BY <1>1, <1>2, <1>3, Zenon DEF Explain
<1>5. /\ e.parts[1] = row.ioc_score /\ e.parts[2] = row.threat_intel_score
      /\ e.parts[3] = row.cve_score
  BY <1>4
<1>6. ASSUME Scored(row)
      PROVE  /\ e.verified
             /\ e.score = Min({ 100, e.parts[1] + e.parts[2] + e.parts[3] })
             /\ \A record \in row.ti.records :
                  Flagged(record) => e.score > 0 /\ e.parts[2] > 0
             /\ "points do not add up" \notin e.warnings
             /\ key /\ "coverage incomplete" \in e.warnings =>
                  2 * row.confidence <= 250 * Min({ 40, CountAll(row.iocs) })
  <2>1. /\ row.ioc_score = IocScore(row.iocs)
        /\ row.threat_intel_score = ThreatIntelScore(row.ti)
        /\ row.cve_score = CveScore(row.iocs)
        /\ LET sum == row.ioc_score + row.threat_intel_score + row.cve_score IN
             row.risk_score = IF sum <= 100 THEN sum ELSE 100
        /\ row.confidence = Confidence(row.iocs, row.ti)
    BY <1>6, RatedRow
  <2>2. verified
    BY <1>1, <2>1, CategoriesAddUp
  <2>3. /\ row.ioc_score \in Nat /\ row.threat_intel_score \in Nat
        /\ row.cve_score \in Nat
    BY <2>1, Sums
  <2>4. PICK sum : sum = row.ioc_score + row.threat_intel_score + row.cve_score
    OBVIOUS
  <2>5. sum \in Nat /\ row.risk_score = IF sum <= 100 THEN sum ELSE 100
    BY <2>1, <2>3, <2>4
  <2>6. Min({ 100, sum }) = row.risk_score
    BY <2>5, OfTwo
  <2>7. \A record \in row.ti.records : Flagged(record) => row.threat_intel_score > 0
    BY <2>1, FlaggedScores
  <2>8. row.threat_intel_score > 0 => row.risk_score > 0
    BY <2>3, <2>4, <2>5
  <2>9. "points do not add up" \notin e.warnings
    BY <1>4, <2>2, Warned, Zenon
  <2>10. ASSUME key, "coverage incomplete" \in e.warnings
         PROVE  2 * row.confidence <= 250 * Min({ 40, CountAll(row.iocs) })
    <3>1. overview.state \notin { "enriched", "not_enriched" }
      BY <1>4, <2>10, Warned, Zenon
    <3>2. row.ti.status = "partial"
      BY <1>2, <2>10, <3>1, OverviewTells
    <3>3. ~ Checked(row.ti)
      BY <3>2 DEF Checked
    <3> QED
      BY <2>1, <3>3, HalfSure
  <2>11. \A record \in row.ti.records :
           Flagged(record) => e.score > 0 /\ e.parts[2] > 0
    BY <1>4, <1>5, <2>7, <2>8, Zenon
  <2>12. e.score = Min({ 100, e.parts[1] + e.parts[2] + e.parts[3] })
    BY <1>4, <1>5, <2>4, <2>6, Zenon
  <2> QED
    BY <1>4, <2>2, <2>9, <2>10, <2>11, <2>12, Zenon
<1>7. ~ Scored(row) => e.score = 0 /\ e.parts = << 0, 0, 0 >>
  BY <1>4, RatedRow, Zenon
<1>8. e.malicious + e.suspicious
        = Cardinality({ r \in row.ti.records : r.found # "no" /\ Flagged(r) })
  BY <1>4, FlaggedCounted, Zenon
<1>9. e.relationships >= Cardinality(row.ti.records)
  BY <1>4, LinksCounted, Zenon
<1> QED
  BY <1>3, <1>6, <1>7, <1>8, <1>9, Zenon

(* Whatever is stored, and with a key or without: a score is the sum of    *)
(* its explained parts up to the maximum, a flagged record always counts,  *)
(* a higher score is never a lower severity, and confidence is whole only  *)
(* for a check that the explanation does not warn about.                   *)
THEOREM ScoresExplained == Spec => []ScoreExplained
<1>1. WholeInv => ScoreExplained
  <2> SUFFICES ASSUME WholeInv PROVE ScoreExplained
    OBVIOUS
  <2>1. \A row \in Stored : Kept(row) /\ Rated(row)
    BY DEF WholeInv, Whole, Kept
  <2>2. \A row \in Stored :
          Evidence(row).risk_calculated = Integrity(row).risk_calculation_completed
    BY DEF Evidence, Integrity
  <2>3. ASSUME NEW r \in Stored, NEW s \in Stored,
               NEW i \in DOMAIN Severities, NEW j \in DOMAIN Severities,
               r.severity = Severities[i], s.severity = Severities[j], i < j
        PROVE  r.risk_score < s.risk_score
    <3>1. \A k \in DOMAIN Severities : Severities[k] # "NOT_SCORED"
      BY DEF Severities
    <3>2. Scored(r) /\ Scored(s)
      BY <2>3, <3>1 DEF Scored
    <3>3. /\ r.risk_score \in Int /\ s.risk_score \in Int
          /\ DetermineSeverity(r.risk_score) = Severities[i]
          /\ DetermineSeverity(s.risk_score) = Severities[j]
      BY <2>1, <2>3, <3>2, RatedRow
    <3> QED
      BY <2>3, <3>3, SeverityGrows
  <2> QED
    BY <2>1, <2>2, <2>3, RowExplained, Zenon DEF ScoreExplained
<1> QED
  BY <1>1, AccountInit, AccountStep, WholeInit, WholeStep, PTL DEF Spec

-----------------------------------------------------------------------------
(***************************************************************************)
(* Totals, lists and documents agree                                       *)
(***************************************************************************)

(* A document's tables have a row for each type and one for each record,   *)
(* and the indicators of the first add up.                                 *)
LEMMA TablesCounted ==
  ASSUME NEW row, Kept(row)
  PROVE  /\ Cardinality(IocRows(BuildReport(row))) = 10
         /\ Cardinality(ThreatRows(BuildReport(row))) = Cardinality(row.ti.records)
         /\ Total(LAMBDA r : r.count, IocRows(BuildReport(row))) = CountAll(row.iocs)
<1> DEFINE b == [ type \in IocTypes |-> [ type |-> type, count |-> Count(row.iocs, type) ] ]
           I == { b[type] : type \in IocTypes }
           g == [ r \in I |-> r.count ]
           f == CountsByType(row.iocs)
           t == [ r \in row.ti.records |-> ThreatRow(r) ]
<1>1. IocRows(BuildReport(row)) = I
  BY DEF IocRows, BuildReport
<1>2. ThreatRows(BuildReport(row)) = { t[r] : r \in row.ti.records }
  BY ThreatTable, Zenon
<1>3. \A type \in IocTypes : /\ b[type].type = type /\ b[type] \in I
                             /\ f[type] = g[b[type]]
  BY DEF CountsByType
<1>4. Total(LAMBDA r : r.count, I) = SumFunctionOnSet(g, I)
  BY DEF Total, SumFunction
<1>5. Numbers(f, IocTypes) /\ CountAll(row.iocs) = SumFunctionOnSet(f, IocTypes)
  BY Sums DEF Counts, Numbers
<1>6. \A r, s \in row.ti.records : t[r] = t[s] => r = s
  <2>1. \A r \in row.ti.records : t[r].indicator = r.ioc
    BY DEF ThreatRow
  <2>2. \A r, s \in row.ti.records : r.ioc = s.ioc => r = s
    BY RowRecords
  <2> HIDE DEF t
  <2> QED
    BY <2>1, <2>2
<1> HIDE DEF b, g, f, t
<1>7. \A x, y \in IocTypes : b[x] = b[y] => x = y
  BY <1>3
<1>8. SumFunctionOnSet(g, { b[type] : type \in IocTypes }) = SumFunctionOnSet(f, IocTypes)
  BY <1>3, <1>5, <1>7, TenTypes, SumRenamed
<1>9. Cardinality({ b[type] : type \in IocTypes }) = 10
  BY <1>7, TenTypes, NamesCounted
<1>10. Cardinality({ t[r] : r \in row.ti.records }) = Cardinality(row.ti.records)
  BY <1>6, RowRecords, NamesCounted
<1> QED
  BY <1>1, <1>2, <1>4, <1>5, <1>8, <1>9, <1>10

(* Twenty rows of the threat table are on the page.                        *)
LEMMA OnePage ==
  ASSUME NEW report, Cardinality(IocRows(report)) = 10
  PROVE  ThreatRowsOnPage(report) = 20
<1>1. IocTableTop = 207 /\ PageHeight - 70 = 722 /\ BottomMargin + 150 = 210
  BY DEF IocTableTop, AfterDetails, AfterSummary, AfterHeader, PageHeight, BottomMargin
<1>2. IocTableHeight(report) = 220
  BY DEF IocTableHeight, TableRow
<1>3. AfterIocTable(report) = 722
  BY <1>1, <1>2 DEF AfterIocTable
<1>4. ThreatTableTop(report) = 422
  BY <1>2, <1>3 DEF ThreatTableTop
<1> QED
  BY <1>4 DEF ThreatRowsOnPage, TableRow

(* A row's indicators, those that can be looked up, and those that were    *)
LEMMA FewerEnriched ==
  ASSUME NEW row, Kept(row)
  PROVE  LET evidence == Evidence(row)
         IN  /\ evidence.observed = CountAll(row.iocs)
             /\ Covered(row) => evidence.enriched = Cardinality(row.ti.records)
             /\ evidence.enriched <= evidence.enrichable
             /\ evidence.enrichable <= evidence.observed
<1> DEFINE f == CountsByType(row.iocs)
           S == Enrichable(row.iocs)
           h == [ type \in EnrichableTypes |-> Count(row.iocs, type) ]
           c == [ ioc \in S |-> TypeOf(ioc) ]
<1>1. PICK e : e = Evidence(row)
  OBVIOUS
<1>2. /\ e.observed = CountAll(row.iocs)
      /\ e.enrichable = Total(LAMBDA t : Count(row.iocs, t), EnrichableTypes)
      /\ e.enriched = IF Covered(row) THEN row.ti.coverage.succeeded ELSE 0
  BY <1>1 DEF Evidence, Covered
<1>3. Total(LAMBDA t : Count(row.iocs, t), EnrichableTypes)
        = SumFunctionOnSet(h, EnrichableTypes)
  BY DEF Total, SumFunction
<1>4. EnrichableTypes \in SUBSET IocTypes
  BY DEF EnrichableTypes, IocTypes
<1>5. IsFiniteSet(EnrichableTypes) /\ IsFiniteSet(IocTypes)
  BY <1>4, TenTypes, FS_Subset
<1>6. \A ioc \in S : c[ioc] \in EnrichableTypes
  BY <1>4 DEF Enrichable, Kept, Sorted
<1>7. \A type \in EnrichableTypes : h[type] = Cardinality(ClassOf(S, c, type))
  <2>1. ASSUME NEW type \in EnrichableTypes PROVE ClassOf(S, c, type) = row.iocs[type]
    <3>1. \A ioc \in S : ioc \in row.iocs[TypeOf(ioc)]
      BY <1>4 DEF Enrichable, Kept, Sorted
    <3>2. row.iocs[type] \subseteq S
      BY DEF Enrichable
    <3>3. \A ioc \in row.iocs[type] : TypeOf(ioc) = type
      BY <1>4 DEF Kept, Sorted
    <3> QED
      BY <3>1, <3>2, <3>3 DEF ClassOf
  <2> QED
    BY <2>1 DEF Count
<1>8. \A type \in EnrichableTypes : h[type] = f[type]
  BY <1>4 DEF CountsByType
<1>9. Counts(f, IocTypes) /\ CountAll(row.iocs) = SumFunctionOnSet(f, IocTypes)
  BY Sums
<1>10. IsFiniteSet(S) /\ Cardinality(row.ti.records) <= Cardinality(S)
  BY RowRecords
<1> HIDE DEF f, S, h, c
<1>11. SumFunctionOnSet(h, EnrichableTypes) = Cardinality(S)
  BY <1>5, <1>6, <1>7, <1>10, ClassesCounted
<1>12. SumFunctionOnSet(h, EnrichableTypes) <= SumFunctionOnSet(f, IocTypes)
  <2>1. Numbers(f, EnrichableTypes) /\ Numbers(h, EnrichableTypes)
    BY <1>4, <1>8, <1>9 DEF Counts, Numbers
  <2>2. SumFunctionOnSet(h, EnrichableTypes) = SumFunctionOnSet(f, EnrichableTypes)
    BY <1>5, <1>8, <2>1, SumSame
  <2> QED
    BY <1>4, <1>5, <1>9, <2>2, SumOfFewer
<1>13. Covered(row) => row.ti.coverage.succeeded = Cardinality(row.ti.records)
  BY DEF Kept, Accounted
<1>14. Cardinality(S) \in Nat
  BY <1>10, FS_CardinalityType
<1> QED
  BY <1>1, <1>2, <1>3, <1>9, <1>10, <1>11, <1>12, <1>13, <1>14

(* What the command line previews of the indicators, and what it says      *)
(* there is more.                                                          *)
LEMMA PreviewsAddUp ==
  ASSUME NEW row, Kept(row)
  PROVE  Total(LAMBDA t : CliDetails(row).iocs[t].preview.shown
                            + CliDetails(row).iocs[t].preview.more, IocTypes)
           = CountAll(row.iocs)
<1> DEFINE f == CountsByType(row.iocs)
           g == [ t \in IocTypes |-> CliDetails(row).iocs[t].preview.shown
                                       + CliDetails(row).iocs[t].preview.more ]
<1>1. \A t \in IocTypes : g[t] = f[t]
  <2> SUFFICES ASSUME NEW t \in IocTypes PROVE g[t] = f[t]
    OBVIOUS
  <2>1. f[t] = Cardinality(row.iocs[t])
    BY DEF CountsByType, Count
  <2>2. Cardinality(row.iocs[t]) \in Nat
    BY FS_CardinalityType DEF Kept, Sorted
  <2>3. CliDetails(row).iocs[t].preview = IocPreview(row.iocs[t])
    BY DEF CliDetails
  <2>4. PICK n : n = Cardinality(row.iocs[t])
    OBVIOUS
  <2>5. PICK m : m = Min({ n, 5 })
    OBVIOUS
  <2>6. m = IF n <= 5 THEN n ELSE 5
    BY <2>2, <2>4, <2>5, OfTwo
  <2>7. /\ IocPreview(row.iocs[t]).shown = m
        /\ IocPreview(row.iocs[t]).more = IF n > 5 THEN n - 5 ELSE 0
    BY <2>4, <2>5 DEF IocPreview, MaxIocPreview
  <2> QED
    BY <2>1, <2>2, <2>3, <2>4, <2>6, <2>7
<1>2. Numbers(f, IocTypes) /\ CountAll(row.iocs) = SumFunctionOnSet(f, IocTypes)
  BY Sums DEF Counts, Numbers
<1>3. Total(LAMBDA t : CliDetails(row).iocs[t].preview.shown
                         + CliDetails(row).iocs[t].preview.more, IocTypes)
        = SumFunctionOnSet(g, IocTypes)
  BY DEF Total, SumFunction
<1> HIDE DEF f, g
<1>4. SumFunctionOnSet(f, IocTypes) = SumFunctionOnSet(g, IocTypes)
  BY <1>1, <1>2, TenTypes, SumSame
<1> QED
  BY <1>2, <1>3, <1>4

(* Relationships are between indicators of the row.                        *)
LEMMA EndsObserved ==
  ASSUME NEW row, Kept(row), NEW c \in Correlate(row)
  PROVE  c.primary \in Observed(row) /\ c.related \in Observed(row)
<1>1. \A kind, p, q : /\ Correlation(kind, p, q).primary = p
                      /\ Correlation(kind, p, q).related = q
  BY DEF Correlation
<1>2. CASE c \in Duplicates(row.iocs)
  <2>1. PICK ioc \in Observed(row) :
          LET spellings == Spellings(row.iocs, TypeOf(ioc), Normalize(ioc))
          IN  c \in { Correlation("duplicate_ioc", Canonical(spellings), other) :
                        other \in spellings \ { Canonical(spellings) } }
    BY <1>2, Zenon DEF Duplicates, Observed
  <2>2. PICK s : s = Spellings(row.iocs, TypeOf(ioc), Normalize(ioc))
    OBVIOUS
  <2>3. PICK other \in s : c = Correlation("duplicate_ioc", Canonical(s), other)
    BY <2>1, <2>2
  <2>4. Canonical(s) \in s
    BY <2>3 DEF Canonical
  <2>5. s \subseteq Observed(row)
    BY <2>2 DEF Spellings, Observed, Kept, Sorted
  <2> QED
    BY <1>1, <2>3, <2>4, <2>5
<1>3. CASE c \in DomainHosts(row.iocs)
  BY <1>1, <1>3 DEF DomainHosts, Observed, IocTypes
<1>4. CASE c \in ThreatIntelLinks(row)
  BY <1>1, <1>4 DEF ThreatIntelLinks, Enrichable, EnrichableTypes, Observed, IocTypes
<1> QED
  BY <1>2, <1>3, <1>4 DEF Correlate

(* An investigation opens if its timeline says that it was correlated.     *)
LEMMA OpensIfCorrelated ==
  ASSUME NEW row
  PROVE  Opens(row) <=> \E e \in TimelineEntries(row, {}) : e[1] = "correlation.completed"
<1>1. CASE CorrelationRaises(row)
  <2>1. TimelineEntries(row, {})
          = { << "investigation.created", 0 >>, << "report.imported", 0 >>,
              << "analysis.started", 0 >>, << "analysis.completed", 0 >> }
    BY <1>1 DEF TimelineEntries
  <2> QED
    BY <1>1, <2>1 DEF Opens
<1>2. CASE ~ CorrelationRaises(row)
  <2>1. << "correlation.completed", Cardinality(Correlate(row)) >>
          \in TimelineEntries(row, {})
    BY <1>2 DEF TimelineEntries
  <2> QED
    BY <1>2, <2>1 DEF Opens
<1> QED
  BY <1>1, <1>2

(* Every document of a row shows all of it.                                *)
LEMMA DocumentsAgree ==
  ASSUME NEW row, Kept(row)
  PROVE  DocumentsWhole(row)
<1>1. PICK report : report = BuildReport(row)
  OBVIOUS
<1>2. PICK html : html = HtmlReport(report)
  OBVIOUS
<1>3. PICK pdf : pdf = PdfReport(report)
  OBVIOUS
<1>4. PICK evidence : evidence = Evidence(row)
  OBVIOUS
<1>5. /\ html.total_iocs = Total(LAMBDA r : r.count, IocRows(report))
      /\ html.threat_entries = Cardinality(report.ti.records)
      /\ html.threat_rows = ThreatRows(report)
      /\ pdf.threat_rows = ThreatRows(report)
      /\ pdf.cut_off <=> Cardinality(ThreatRows(report)) > ThreatRowsOnPage(report)
  BY <1>2, <1>3 DEF HtmlReport, PdfReport
<1>6. report.ti = row.ti /\ report.iocs = row.iocs
  BY <1>1 DEF BuildReport
<1>7. /\ Cardinality(IocRows(report)) = 10
      /\ Cardinality(ThreatRows(report)) = Cardinality(row.ti.records)
      /\ Total(LAMBDA r : r.count, IocRows(report)) = CountAll(row.iocs)
  BY <1>1, TablesCounted
<1>8. /\ evidence.observed = CountAll(row.iocs)
      /\ Covered(row) => evidence.enriched = Cardinality(row.ti.records)
      /\ evidence.enriched <= evidence.enrichable
      /\ evidence.enrichable <= evidence.observed
  BY <1>4, FewerEnriched
<1>9. Cardinality(row.ti.records) \in Nat
  BY RowRecords, FS_CardinalityType
<1>10. html.threat_entries <= 20 => ~ pdf.cut_off
  BY <1>5, <1>6, <1>7, <1>9, OnePage
<1>11. MarkdownReport(report).indicators = Observed(row)
  <2>1. MarkdownReport(report).indicators = UNION { report.iocs[type] : type \in IocTypes }
    BY DEF MarkdownReport
  <2> QED
    BY <1>6, <2>1, Zenon DEF Observed
<1>12. { p.ioc : p \in Provenance(row) } = Observed(row)
  <2> DEFINE entry(ioc) == [ ioc |-> ioc, method |-> TypeOf(ioc), report |-> row.report,
                             hashed |-> row.hashed, state |-> "OBSERVED" ]
  <2>1. Provenance(row) = { entry(ioc) : ioc \in Observed(row) }
    BY DEF Provenance
  <2>2. \A ioc : entry(ioc).ioc = ioc
    OBVIOUS
  <2> HIDE DEF entry
  <2> QED
    BY <2>1, <2>2
<1>13. \A c \in Correlate(row) : { c.primary, c.related } \subseteq Observed(row)
  BY EndsObserved
<1>14. Total(LAMBDA t : CliDetails(row).iocs[t].preview.shown
                          + CliDetails(row).iocs[t].preview.more, IocTypes)
         = evidence.observed
  BY <1>8, PreviewsAddUp
<1>15. /\ html.total_iocs = evidence.observed
       /\ html.threat_entries = Cardinality(html.threat_rows)
       /\ pdf.threat_rows = html.threat_rows
       /\ Covered(row) => evidence.enriched = html.threat_entries
  BY <1>5, <1>6, <1>7, <1>8
<1> QED
  BY <1>1, <1>2, <1>3, <1>4, <1>8, <1>10, <1>11, <1>12, <1>13, <1>14, <1>15,
     OpensIfCorrelated, Zenon DEF DocumentsWhole

(* A list of rows is numbered.                                             *)
LEMMA ListNumbered ==
  ASSUME NEW stored, stored \in Seq(Range(stored))
  PROVE  /\ Len(stored) \in Nat /\ DOMAIN stored = 1 .. Len(stored)
         /\ IsFiniteSet(DOMAIN stored) /\ Cardinality(DOMAIN stored) = Len(stored)
<1>1. Len(stored) \in Nat /\ DOMAIN stored = 1 .. Len(stored)
  OBVIOUS
<1>2. PICK n \in Nat : n = Len(stored)
  BY <1>1
<1>3. IsFiniteSet(1 .. n) /\ Cardinality(1 .. n) = n
  BY FS_Interval
<1> QED
  BY <1>1, <1>2, <1>3

(* A distribution counts everything once.                                  *)
LEMMA DistributionCounts ==
  ASSUME NEW D, IsFiniteSet(D), NEW c, NEW h, DOMAIN h = { c[i] : i \in D },
         \A k \in DOMAIN h : h[k] = Cardinality(ClassOf(D, c, k))
  PROVE  /\ Values(h) = Cardinality(D)
         /\ \A k : At0(h, k) = Cardinality(ClassOf(D, c, k))
<1> DEFINE K == DOMAIN h
           g == [ k \in K |-> h[k] ]
<1>1. Values(h) = SumFunctionOnSet(g, K)
  BY DEF Values, Total, SumFunction
<1>2. IsFiniteSet(K)
  BY ImageFinite
<1>3. \A k \in K : g[k] = Cardinality(ClassOf(D, c, k))
  OBVIOUS
<1>4. \A i \in D : c[i] \in K
  OBVIOUS
<1>5. \A k : k \notin K => ClassOf(D, c, k) = {}
  BY DEF ClassOf
<1> HIDE DEF g
<1>6. SumFunctionOnSet(g, K) = Cardinality(D)
  BY <1>2, <1>3, <1>4, ClassesCounted
<1> QED
  BY <1>1, <1>5, <1>6, FS_EmptySet DEF At0

(* So do those of the dashboard.                                           *)
LEMMA RowsDistributed ==
  ASSUME NEW stored, stored \in Seq(Range(stored))
  PROVE  /\ Values(SeverityDistribution(stored)) = Len(stored)
         /\ Values(StatusCounts(stored)) = Len(stored)
         /\ Values(ActivityByDate(stored)) = Len(stored)
         /\ \A k : At0(SeverityDistribution(stored), k)
                     = Cardinality({ i \in DOMAIN stored :
                                       OrUnknown(stored[i].severity) = k })
<1> DEFINE D == DOMAIN stored
           severities == [ i \in D |-> OrUnknown(stored[i].severity) ]
           statuses == [ i \in D |-> OrUnknown(stored[i].status) ]
           days == [ i \in D |-> stored[i].day ]
<1>1. IsFiniteSet(D) /\ Cardinality(D) = Len(stored)
  BY ListNumbered
<1>2. \A k : /\ ClassOf(D, severities, k)
                  = { i \in D : OrUnknown(stored[i].severity) = k }
             /\ ClassOf(D, statuses, k) = { i \in D : OrUnknown(stored[i].status) = k }
             /\ ClassOf(D, days, k) = { i \in D : stored[i].day = k }
  BY DEF ClassOf
<1>3. PICK s : s = SeverityDistribution(stored)
  OBVIOUS
<1>4. PICK t : t = StatusCounts(stored)
  OBVIOUS
<1>5. PICK d : d = ActivityByDate(stored)
  OBVIOUS
<1>6. /\ DOMAIN s = { severities[i] : i \in D }
      /\ \A k \in DOMAIN s : s[k] = Cardinality(ClassOf(D, severities, k))
  BY <1>2, <1>3 DEF SeverityDistribution, CountBy, CountOf
<1>7. /\ DOMAIN t = { statuses[i] : i \in D }
      /\ \A k \in DOMAIN t : t[k] = Cardinality(ClassOf(D, statuses, k))
  BY <1>2, <1>4 DEF StatusCounts, CountBy, CountOf
<1>8. /\ DOMAIN d = { days[i] : i \in D }
      /\ \A k \in DOMAIN d : d[k] = Cardinality(ClassOf(D, days, k))
  BY <1>2, <1>5 DEF ActivityByDate, CountBy, CountOf
<1> HIDE DEF D, severities, statuses, days
<1>9. Values(s) = Len(stored) /\ \A k : At0(s, k) = Cardinality(ClassOf(D, severities, k))
  BY <1>1, <1>6, DistributionCounts
<1>10. Values(t) = Len(stored)
  BY <1>1, <1>7, DistributionCounts
<1>11. Values(d) = Len(stored)
  BY <1>1, <1>8, DistributionCounts
<1> QED
  BY <1>2, <1>3, <1>4, <1>5, <1>9, <1>10, <1>11 DEF D

(* The indicators add up row by row and type by type.                      *)
LEMMA IndicatorsAddUp ==
  ASSUME NEW stored, stored \in Seq(Range(stored)), \A i \in DOMAIN stored : Kept(stored[i])
  PROVE  LET total == SumOver(stored, LAMBDA row : CountAll(row.iocs))
         IN  /\ Values(IocDistribution(stored)) = total
             /\ Total(LAMBDA i : CliHistory(stored)[i].iocs, DOMAIN stored) = total
<1> DEFINE D == DOMAIN stored
           m == [ i \in D |-> CountsByType(stored[i].iocs) ]
           r == [ i \in D |-> CountAll(stored[i].iocs) ]
           q == [ type \in IocTypes |-> SumFunctionOnSet(Column(m, D, type), D) ]
<1>1. IsFiniteSet(D) /\ IsFiniteSet(IocTypes)
  BY ListNumbered, TenTypes
<1>2. SumOver(stored, LAMBDA row : CountAll(row.iocs)) = SumFunctionOnSet(r, D)
  BY DEF SumOver, Total, SumFunction
<1>3. Total(LAMBDA i : CliHistory(stored)[i].iocs, DOMAIN stored) = SumFunctionOnSet(r, D)
  <2>1. \A i \in D : CliHistory(stored)[i].iocs = CountAll(stored[i].iocs)
    BY DEF CliHistory
  <2>2. [ i \in D |-> CliHistory(stored)[i].iocs ] = r
    BY <2>1
  <2>3. Total(LAMBDA i : CliHistory(stored)[i].iocs, DOMAIN stored)
          = SumFunctionOnSet([ i \in D |-> CliHistory(stored)[i].iocs ], D)
    BY DEF Total, SumFunction
  <2> QED
    BY <2>2, <2>3
<1>4. Values(IocDistribution(stored)) = SumFunctionOnSet(q, IocTypes)
  <2>1. ASSUME NEW type \in IocTypes
        PROVE  IocDistribution(stored)[type] = SumFunctionOnSet(Column(m, D, type), D)
    <3>1. IocDistribution(stored)[type]
            = SumFunctionOnSet([ i \in D |-> Count(stored[i].iocs, type) ], D)
      BY DEF IocDistribution, SumOver, Total, SumFunction
    <3>2. \A i \in D : m[i][type] = Count(stored[i].iocs, type)
      BY DEF CountsByType
    <3>3. [ i \in D |-> Count(stored[i].iocs, type) ] = Column(m, D, type)
      BY <3>2 DEF Column
    <3> QED
      BY <3>1, <3>3
  <2>2. DOMAIN IocDistribution(stored) = IocTypes
    BY DEF IocDistribution
  <2>3. [ type \in IocTypes |-> IocDistribution(stored)[type] ] = q
    BY <2>1
  <2>4. Values(IocDistribution(stored))
          = SumFunctionOnSet([ type \in IocTypes |-> IocDistribution(stored)[type] ],
                             IocTypes)
    BY <2>2, Zenon DEF Values, Total, SumFunction
  <2> QED
    BY <2>3, <2>4
<1>5. \A i \in D : /\ Numbers(m[i], IocTypes)
                   /\ r[i] = SumFunctionOnSet(m[i], IocTypes)
  BY Sums DEF Counts, Numbers
<1>6. \A type \in IocTypes : q[type] = SumFunctionOnSet(Column(m, D, type), D)
  OBVIOUS
<1> HIDE DEF D, m, r, q
<1>7. SumFunctionOnSet(r, D) = SumFunctionOnSet(q, IocTypes)
  BY <1>1, <1>5, <1>6, SumSwapped
<1> QED
  BY <1>2, <1>3, <1>4, <1>7 DEF D

(* The rows of a high risk are those of the two highest severities.        *)
LEMMA HighRiskCounted ==
  ASSUME NEW stored, stored \in Seq(Range(stored))
  PROVE  LET risks == SeverityDistribution(stored)
             high == CountOf(stored, HighRisk)
         IN  /\ high = At0(risks, "HIGH") + At0(risks, "CRITICAL")
             /\ ThreatStatus(stored) = "NORMAL" <=> high = 0
<1> DEFINE D == DOMAIN stored
           Of(severity) == { i \in D : stored[i].severity = severity }
<1>1. IsFiniteSet(D)
  BY ListNumbered
<1>2. /\ { i \in D : OrUnknown(stored[i].severity) = "HIGH" } = Of("HIGH")
      /\ { i \in D : OrUnknown(stored[i].severity) = "CRITICAL" } = Of("CRITICAL")
  BY DEF OrUnknown
<1>3. /\ At0(SeverityDistribution(stored), "HIGH") = Cardinality(Of("HIGH"))
      /\ At0(SeverityDistribution(stored), "CRITICAL") = Cardinality(Of("CRITICAL"))
  BY <1>2, RowsDistributed
<1>4. CountOf(stored, HighRisk) = Cardinality(Of("HIGH") \cup Of("CRITICAL"))
  <2>1. { i \in D : HighRisk(stored[i]) } = Of("HIGH") \cup Of("CRITICAL")
    BY DEF HighRisk
  <2> QED
    BY <2>1 DEF CountOf
<1>5. ThreatStatus(stored) = "NORMAL" <=>
        ~ (Cardinality(Of("CRITICAL")) > 0) /\ ~ (Cardinality(Of("HIGH")) > 0)
  <2>1. /\ CountOf(stored, LAMBDA row : row.severity = "CRITICAL")
             = Cardinality(Of("CRITICAL"))
        /\ CountOf(stored, LAMBDA row : row.severity = "HIGH") = Cardinality(Of("HIGH"))
    BY DEF CountOf
  <2> HIDE DEF Of
  <2> QED
    BY <2>1, Zenon DEF ThreatStatus
<1>6. /\ Of("HIGH") \in SUBSET D /\ Of("CRITICAL") \in SUBSET D
      /\ Of("HIGH") \cap Of("CRITICAL") = {}
  OBVIOUS
<1> HIDE DEF D, Of
<1>7. /\ Cardinality(Of("HIGH") \cup Of("CRITICAL"))
           = Cardinality(Of("HIGH")) + Cardinality(Of("CRITICAL"))
      /\ Cardinality(Of("HIGH")) \in Nat /\ Cardinality(Of("CRITICAL")) \in Nat
  BY <1>1, <1>6, DisjointCount
<1>8. CountOf(stored, HighRisk) = 0 <=>
        ~ (Cardinality(Of("CRITICAL")) > 0) /\ ~ (Cardinality(Of("HIGH")) > 0)
  BY <1>4, <1>7
<1> QED
  BY <1>3, <1>4, <1>5, <1>7, <1>8, Zenon

(* The tenths of a percent                                                 *)
Tenths == 0 .. 1000

(* So much is a part of a whole.                                           *)
LEMMA Percentage ==
  ASSUME NEW part \in Nat, NEW whole \in Nat, whole # 0, part <= whole
  PROVE  (2000 * part + whole) \div (2 * whole) \in Tenths
BY DEF Tenths

(* A percentage, or none                                                   *)
InTenths(coverage) == \A i \in DOMAIN coverage : coverage[i] \in Tenths

(* One percentage                                                          *)
LEMMA OfOne ==
  ASSUME NEW percent \in Tenths
  PROVE  InTenths(<< percent >>)
<1>1. DOMAIN << percent >> = { 1 } /\ << percent >>[1] = percent
  OBVIOUS
<1>2. PICK one : one = << percent >>
  OBVIOUS
<1>3. \A i \in DOMAIN one : one[i] = percent
  BY <1>1, <1>2
<1> QED
  BY <1>2, <1>3, Zenon DEF InTenths

(* No more lookups succeed than were asked for.                            *)
LEMMA CoverageBounded ==
  ASSUME NEW stored, stored \in Seq(Range(stored)), \A i \in DOMAIN stored : Kept(stored[i])
  PROVE  InTenths(CoveragePercent(stored))
<1> DEFINE D == DOMAIN stored
           f == [ i \in D |-> stored[i].ti.coverage.succeeded ]
           g == [ i \in D |-> stored[i].ti.coverage.requested ]
<1>1. IsFiniteSet(D)
  BY ListNumbered
<1>2. PICK coverage : coverage = CoveragePercent(stored)
  OBVIOUS
<1>3. coverage = IF SumFunctionOnSet(g, D) = 0 THEN << >>
                 ELSE << (2000 * SumFunctionOnSet(f, D) + SumFunctionOnSet(g, D))
                           \div (2 * SumFunctionOnSet(g, D)) >>
  BY <1>2 DEF CoveragePercent, SumOver, Total, SumFunction
<1>4. \A i \in D : f[i] \in Nat /\ g[i] \in Nat /\ f[i] <= g[i]
  <2> SUFFICES ASSUME NEW i \in D PROVE f[i] \in Nat /\ g[i] \in Nat /\ f[i] <= g[i]
    OBVIOUS
  <2>1. PICK row : row = stored[i] /\ Kept(row)
    OBVIOUS
  <2>2. f[i] = row.ti.coverage.succeeded /\ g[i] = row.ti.coverage.requested
    BY <2>1
  <2>3. CASE Covered(row)
    <3>1. /\ row.ti.coverage.succeeded = Cardinality(row.ti.records)
          /\ row.ti.coverage.requested = Cardinality(Enrichable(row.iocs))
      BY <2>1, <2>3 DEF Kept, Accounted
    <3>2. /\ IsFiniteSet(Enrichable(row.iocs)) /\ IsFiniteSet(row.ti.records)
          /\ Cardinality(row.ti.records) <= Cardinality(Enrichable(row.iocs))
      BY <2>1, RowRecords
    <3> QED
      BY <2>2, <3>1, <3>2, FS_CardinalityType
  <2>4. CASE ~ Covered(row)
    BY <2>1, <2>2, <2>4 DEF Kept, NoCoverage
  <2> QED
    BY <2>3, <2>4
<1> HIDE DEF D, f, g
<1>5. /\ Counts(f, D) /\ Counts(g, D) /\ Numbers(f, D) /\ Numbers(g, D)
  BY <1>4 DEF Counts, Numbers
<1>6. PICK part : part = SumFunctionOnSet(f, D)
  OBVIOUS
<1>7. PICK whole : whole = SumFunctionOnSet(g, D)
  OBVIOUS
<1>8. part \in Nat /\ whole \in Nat
  BY <1>1, <1>5, <1>6, <1>7, SumNat
<1>9. part <= whole
  BY <1>1, <1>4, <1>5, <1>6, <1>7, SumMonotone
<1>10. PICK percent : percent = (2000 * part + whole) \div (2 * whole)
  OBVIOUS
<1>11. coverage = IF whole = 0 THEN << >> ELSE << percent >>
  BY <1>3, <1>6, <1>7, <1>10
<1>12. whole # 0 => percent \in Tenths
  BY <1>8, <1>9, <1>10, Percentage
<1>13. InTenths(<< >>)
  BY DEF InTenths
<1>14. CASE whole = 0
  BY <1>2, <1>11, <1>13, <1>14
<1>15. CASE whole # 0
  <2>1. InTenths(<< percent >>)
    BY <1>12, <1>15, OfOne
  <2> QED
    BY <1>2, <1>11, <1>15, <2>1
<1> QED
  BY <1>14, <1>15

(* A search for its name exports a report; a search for nothing, them all. *)
LEMMA SearchFinds ==
  ASSUME NEW stored, stored \in Seq(Range(stored)),
         NEW i \in DOMAIN stored, Findable(stored[i].report)
  PROVE  \E n \in DOMAIN CsvExport(stored, stored[i].report).rows :
           CsvExport(stored, stored[i].report).rows[n].id = stored[i].id
<1>1. PICK text : text = stored[i].report
  OBVIOUS
<1>2. PICK found : found = FilterRows(stored, text)
  OBVIOUS
<1>3. /\ DOMAIN CsvExport(stored, text).rows = DOMAIN found
      /\ \A n \in DOMAIN found : CsvExport(stored, text).rows[n].id = found[n].id
  BY <1>2 DEF CsvExport, CsvRow
<1>4. \E n \in DOMAIN found : found[n] = stored[i]
  <2>1. CASE text = ""
    BY <1>2, <2>1 DEF FilterRows
  <2>2. CASE text # ""
    <3> DEFINE S == Matching(stored, text)
               r == [ k \in S |-> Rank(S, k) ]
    <3>1. found = [ n \in 1 .. Cardinality(S) |->
                      stored[CHOOSE k \in S : Rank(S, k) = n] ]
      BY <1>2, <2>2 DEF FilterRows
    <3>2. i \in S
      BY <1>1 DEF Matching, MatchesSearch, Findable
    <3>3. S \in SUBSET DOMAIN stored
      BY DEF Matching
    <3>4. IsFiniteSet(S) /\ S \subseteq Int
      BY <3>3, ListNumbered, FS_Subset
    <3>5. \A k \in S : r[k] = Cardinality({ j \in S : j <= k }) /\ r[k] = Rank(S, k)
      BY DEF Rank
    <3> HIDE DEF S, r
    <3>6. r[i] \in 1 .. Cardinality(S) /\ \A k \in S : r[k] = r[i] => k = i
      BY <3>2, <3>4, <3>5, RankOfOne
    <3>7. (CHOOSE k \in S : Rank(S, k) = r[i]) = i
      BY <3>2, <3>5, <3>6
    <3> QED
      BY <3>1, <3>6, <3>7
  <2> QED
    BY <2>1, <2>2
<1> QED
  BY <1>1, <1>3, <1>4

(* The feed and the timeline of the dashboard name the same reports.       *)
LEMMA SameTitles ==
  ASSUME NEW stored, NEW limit
  PROVE  { f.title : f \in Range(ThreatFeed(stored, limit)) }
           = { t.title : t \in Range(DashboardTimeline(stored, limit)) }
<1> DEFINE D == DOMAIN FindRecent(stored, limit)
<1>1. PICK feed : feed = ThreatFeed(stored, limit)
  OBVIOUS
<1>2. PICK timeline : timeline = DashboardTimeline(stored, limit)
  OBVIOUS
<1>3. /\ DOMAIN feed = D /\ DOMAIN timeline = D
      /\ \A i \in D : /\ feed[i].title = stored[i].report
                      /\ timeline[i].title = stored[i].report
  BY <1>1, <1>2 DEF ThreatFeed, DashboardTimeline
<1> HIDE DEF D
<1>4. /\ { f.title : f \in Range(feed) } = { stored[i].report : i \in D }
      /\ { t.title : t \in Range(timeline) } = { stored[i].report : i \in D }
  BY <1>3 DEF Range
<1> QED
  BY <1>1, <1>2, <1>4

(* Whatever is stored: whatever adds the investigations up comes to the    *)
(* same numbers, a search for its name exports a report, and every         *)
(* document of one investigation shows all of it.                          *)
THEOREM TotalsAgreed == Spec => []TotalsAgree
<1>1. AccountInv /\ WholeInv => TotalsAgree
  <2> SUFFICES ASSUME AccountInv, WholeInv PROVE TotalsAgree
    OBVIOUS
  <2>1. \A row \in Stored : Kept(row) /\ Findable(row.report)
    BY DEF WholeInv, Whole, Kept
  <2>2. rows \in Seq(Range(rows))
    BY DEF AccountInv
  <2>3. \A i \in DOMAIN rows : Kept(rows[i]) /\ Findable(rows[i].report)
    BY <2>1 DEF Stored
  <2> DEFINE summary == DashboardSummary(rows, 5)
             aggregate == AggregateSummary(rows)
  <2>4. /\ summary.metrics = DashboardMetrics(rows)
        /\ summary.coverage = CoveragePercent(rows)
        /\ summary.status_counts = StatusCounts(rows)
        /\ summary.risk_distribution = SeverityDistribution(rows)
        /\ summary.ioc_distribution = IocDistribution(rows)
        /\ aggregate.total = Len(rows) /\ aggregate.by_date = ActivityByDate(rows)
    BY DEF DashboardSummary, AggregateSummary
  <2> HIDE DEF summary, aggregate
  <2>5. PICK metrics : metrics = DashboardMetrics(rows)
    OBVIOUS
  <2>6. /\ metrics.report_count = Len(rows)
        /\ metrics.total_iocs = SumOver(rows, LAMBDA row : CountAll(row.iocs))
        /\ metrics.high_risk = CountOf(rows, HighRisk)
    BY <2>5 DEF DashboardMetrics
  <2>7. \A row \in Stored : DocumentsWhole(row)
    BY <2>1, DocumentsAgree
  <2>8. /\ Values(summary.risk_distribution) = Len(rows)
         /\ Values(summary.status_counts) = Len(rows)
         /\ Values(aggregate.by_date) = Len(rows)
    BY <2>2, <2>4, RowsDistributed
  <2>9. /\ Values(summary.ioc_distribution) = summary.metrics.total_iocs
         /\ summary.metrics.total_iocs
              = Total(LAMBDA i : CliHistory(rows)[i].iocs, DOMAIN rows)
    <3>1. /\ Values(IocDistribution(rows)) = SumOver(rows, LAMBDA row : CountAll(row.iocs))
          /\ Total(LAMBDA i : CliHistory(rows)[i].iocs, DOMAIN rows)
               = SumOver(rows, LAMBDA row : CountAll(row.iocs))
      BY <2>2, <2>3, IndicatorsAddUp
    <3> QED
      BY <2>4, <2>5, <2>6, <3>1, Zenon
  <2>10. /\ summary.metrics.high_risk = At0(summary.risk_distribution, "HIGH")
                                          + At0(summary.risk_distribution, "CRITICAL")
         /\ ThreatStatus(rows) = "NORMAL" <=> summary.metrics.high_risk = 0
    BY <2>2, <2>4, <2>5, <2>6, HighRiskCounted
  <2>11. \A i \in DOMAIN summary.coverage : summary.coverage[i] \in 0 .. 1000
    <3>1. \A i \in DOMAIN rows : Kept(rows[i])
      BY <2>3
    <3>2. InTenths(CoveragePercent(rows))
      BY <2>2, <3>1, CoverageBounded
    <3>3. InTenths(summary.coverage)
      BY <2>4, <3>2
    <3>4. \A i \in DOMAIN summary.coverage : summary.coverage[i] \in Tenths
      BY <3>3, Zenon DEF InTenths
    <3> QED
      BY <3>4, Zenon DEF Tenths
  <2>12. CsvExport(rows, "").row_count = Len(rows)
    BY DEF CsvExport, FilterRows
  <2>13. \A row \in Stored :
           \E i \in DOMAIN CsvExport(rows, row.report).rows :
             CsvExport(rows, row.report).rows[i].id = row.id
    <3> SUFFICES ASSUME NEW row \in Stored
                 PROVE  \E i \in DOMAIN CsvExport(rows, row.report).rows :
                          CsvExport(rows, row.report).rows[i].id = row.id
      OBVIOUS
    <3>1. PICK i \in DOMAIN rows : row = rows[i]
      BY DEF Stored
    <3>2. Findable(rows[i].report)
      BY <2>3
    <3> QED
      BY <2>2, <3>1, <3>2, SearchFinds
  <2>14. summary.metrics.report_count = Len(rows) /\ aggregate.total = Len(rows)
    BY <2>4, <2>5, <2>6
  <2> QED
    BY <2>7, <2>8, <2>9, <2>10, <2>11, <2>12, <2>13, <2>14, SameTitles,
       Zenon DEF TotalsAgree, summary, aggregate
<1> QED
  BY <1>1, AccountInit, AccountStep, WholeInit, WholeStep, PTL DEF Spec
=============================================================================
