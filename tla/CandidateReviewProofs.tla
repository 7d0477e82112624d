----------------------- MODULE CandidateReviewProofs -----------------------
(* Proofs about CandidateReview, for any drafts, suggestions, companies and  *)
(* locations, and lists that arrive in any order.                            *)
EXTENDS CandidateReview, FiniteSetTheorems, WellFoundedInduction, TLAPS

-----------------------------------------------------------------------------
(* The types.                                                                *)

Candidate ==
  [client : Companies \union {None}, newClient : BOOLEAN,
   location : Locations \union {None}, newLocation : BOOLEAN,
   status : {"pending", "confirmed"}]

CandidatesOK(cs) ==
  /\ cs \in [Drafts -> Candidate]
  /\ \A d \in Drafts : /\ cs[d].client # None => ~cs[d].newClient
                       /\ cs[d].location # None => ~cs[d].newLocation

StoreOK ==
  store \in [companies : SUBSET Known, scope : {"active", "all"}, loading : BOOLEAN,
             locations : SUBSET Locations, requested : SUBSET Known,
             asking : SUBSET store.requested, loaded : SUBSET store.requested]

ServerOK ==
  server \in [companies : [Companies -> Names \union {None}],
              locations : [Locations -> [company : Companies \union {None},
                                         place : Places \union {None}]],
              parents : [Parents -> Locations \union {None}],
              streams : [Drafts -> Stream \union {None}]]

\* A decision on its way names the client and the location it was made with.
DecisionOK ==
  /\ decision \in [draft : 0..DraftCount, client : Companies \union {None, New},
                   location : Locations \union {None, New}, answer : {"none", "confirmed", "refused"}]
  /\ decision.draft # 0 => decision.client # None /\ decision.location # None

Types ==
  /\ suggested \in [Drafts -> Suggestion]
  /\ CandidatesOK(candidates) /\ StoreOK /\ ServerOK /\ DecisionOK
  /\ edits \in 0..MaxEdits

LEMMA TypesGiveType == Types => ReviewTypeOK
  <1> SUFFICES ASSUME Types PROVE ReviewTypeOK
      OBVIOUS
  <1>1. server.streams \in [Drafts -> Stream \union {None}]
    BY DEF Types, ServerOK
  <1> QED
    BY <1>1 DEF Types, CandidatesOK, Candidate, StoreOK, DecisionOK, ReviewTypeOK

-----------------------------------------------------------------------------
(* Changes of one field.                                                     *)

LEMMA NoneIsNoId ==
  /\ None \notin Companies /\ None \notin Locations /\ None # New
  /\ New \notin Companies /\ New \notin Locations
  BY ReviewAssumption

LEMMA WithClientIs ==
  ASSUME NEW cand \in Candidate, NEW c \in Companies \union {New}
  PROVE  /\ WithClient(cand, c) \in Candidate
         /\ WithClient(cand, c).client = IF c = New THEN None ELSE c
         /\ WithClient(cand, c).newClient = (c = New)
         /\ \/ WithClient(cand, c).location = None /\ ~WithClient(cand, c).newLocation
            \/ /\ c # New /\ cand.client = c
               /\ WithClient(cand, c).location = cand.location
               /\ WithClient(cand, c).newLocation = cand.newLocation
  <1>1. CASE c # New /\ cand.client = c
    BY <1>1 DEF WithClient, Candidate
  <1>2. CASE ~(c # New /\ cand.client = c)
    <2>1. PICK client \in Companies \union {None} : client = IF c = New THEN None ELSE c
      OBVIOUS
    <2>2. PICK new \in BOOLEAN : new = (c = New)
      OBVIOUS
    <2>3. WithClient(cand, c) = [cand EXCEPT !.client = client, !.newClient = new,
                                             !.location = None, !.newLocation = FALSE]
      BY <1>2, <2>1, <2>2 DEF WithClient
    <2>4. WithClient(cand, c) \in Candidate
      BY <2>3 DEF Candidate
    <2> QED
      BY <2>1, <2>2, <2>3, <2>4 DEF Candidate
  <1> QED
    BY <1>1, <1>2

\* Whom a change of the client of draft d reaches, and what it makes of him.
Reached(cs, d, c, e) == e = d \/ (c # New /\ SharesClient(cs, d, e))

LEMMA SetClientIs ==
  ASSUME NEW cs, CandidatesOK(cs), NEW d \in Drafts, NEW c \in Companies \union {New}
  PROVE  /\ CandidatesOK(SetClient(cs, d, c))
         /\ \A e \in Drafts :
              SetClient(cs, d, c)[e] = IF Reached(cs, d, c, e) THEN WithClient(cs[e], c) ELSE cs[e]
  <1>1. \A e \in Drafts :
          SetClient(cs, d, c)[e] = IF Reached(cs, d, c, e) THEN WithClient(cs[e], c) ELSE cs[e]
    BY DEF SetClient, Reached
  <1>2. SetClient(cs, d, c) = [e \in Drafts |-> SetClient(cs, d, c)[e]]
    BY DEF SetClient
  <1>3. ASSUME NEW e \in Drafts
        PROVE  /\ SetClient(cs, d, c)[e] \in Candidate
               /\ SetClient(cs, d, c)[e].client # None => ~SetClient(cs, d, c)[e].newClient
               /\ SetClient(cs, d, c)[e].location # None => ~SetClient(cs, d, c)[e].newLocation
    <2>1. /\ cs[e] \in Candidate
          /\ cs[e].client # None => ~cs[e].newClient
          /\ cs[e].location # None => ~cs[e].newLocation
      BY DEF CandidatesOK
    <2>2. CASE Reached(cs, d, c, e)
      <3>1. PICK w : w = WithClient(cs[e], c)
        OBVIOUS
      <3>2. /\ w \in Candidate /\ w.client = (IF c = New THEN None ELSE c) /\ w.newClient = (c = New)
            /\ \/ w.location = None
               \/ w.location = cs[e].location /\ w.newLocation = cs[e].newLocation
        BY <2>1, <3>1, WithClientIs
      <3>3. w.client # None => ~w.newClient
        BY <3>2
      <3>4. w.location # None => ~w.newLocation
        BY <2>1, <3>2
      <3> QED
        BY <1>1, <2>2, <3>1, <3>2, <3>3, <3>4
    <2>3. CASE ~Reached(cs, d, c, e)
      BY <1>1, <2>1, <2>3
    <2> QED
      BY <2>2, <2>3
  <1> QED
    BY <1>1, <1>2, <1>3 DEF CandidatesOK

LEMMA SetLocationIs ==
  ASSUME NEW cs, CandidatesOK(cs), NEW d \in Drafts, NEW l \in Locations \union {None, New}
  PROVE  /\ CandidatesOK(SetLocation(cs, d, l))
         /\ \A e \in Drafts :
              /\ SetLocation(cs, d, l)[e].client = cs[e].client
              /\ SetLocation(cs, d, l)[e].newClient = cs[e].newClient
              /\ e # d => SetLocation(cs, d, l)[e] = cs[e]
         /\ SetLocation(cs, d, l)[d].location = IF l = New THEN None ELSE l
  <1>1. cs \in [Drafts -> Candidate] /\ cs[d] \in Candidate
    BY DEF CandidatesOK
  <1>2. PICK place \in Locations \union {None} : place = IF l = New THEN None ELSE l
    OBVIOUS
  <1>3. PICK new \in BOOLEAN : new = (l = New)
    OBVIOUS
  <1>4. PICK cand : cand = [cs[d] EXCEPT !.location = place, !.newLocation = new]
    OBVIOUS
  <1>5. SetLocation(cs, d, l) = [cs EXCEPT ![d] = cand]
    BY <1>1, <1>2, <1>3, <1>4 DEF SetLocation
  <1>6. /\ cand \in Candidate /\ cand.client = cs[d].client /\ cand.newClient = cs[d].newClient
        /\ cand.location = place /\ cand.newLocation = new
    BY <1>1, <1>4 DEF Candidate
  <1>7. cand.location # None => ~cand.newLocation
    BY <1>2, <1>3, <1>6
  <1> QED
    BY <1>1, <1>2, <1>5, <1>6, <1>7 DEF CandidatesOK

\* Every location shown is one of the client shown.
Located(cs) ==
  \A d \in Drafts : cs[d].location # None =>
    cs[d].client # None /\ cs[d].location \in At(cs[d].client)

LEMMA SetClientLocated ==
  ASSUME NEW cs, CandidatesOK(cs), Located(cs), NEW d \in Drafts, NEW c \in Companies \union {New}
  PROVE  Located(SetClient(cs, d, c))
  <1> SUFFICES ASSUME NEW e \in Drafts, SetClient(cs, d, c)[e].location # None
               PROVE  /\ SetClient(cs, d, c)[e].client # None
                      /\ SetClient(cs, d, c)[e].location \in At(SetClient(cs, d, c)[e].client)
      BY DEF Located
  <1>1. SetClient(cs, d, c)[e] = IF Reached(cs, d, c, e) THEN WithClient(cs[e], c) ELSE cs[e]
    BY SetClientIs
  <1>2. CASE Reached(cs, d, c, e)
    <2>1. cs[e] \in Candidate
      BY DEF CandidatesOK
    <2>2. /\ c # New /\ cs[e].client = c /\ SetClient(cs, d, c)[e].client = c
          /\ SetClient(cs, d, c)[e].location = cs[e].location
      BY <1>1, <1>2, <2>1, WithClientIs
    <2> QED
      BY <2>2 DEF Located
  <1>3. CASE ~Reached(cs, d, c, e)
    BY <1>1, <1>3 DEF Located
  <1> QED
    BY <1>2, <1>3

LEMMA SetLocationLocated ==
  ASSUME NEW cs, CandidatesOK(cs), Located(cs), NEW d \in Drafts, NEW l \in Locations \union {None, New},
         l \in Locations => cs[d].client # None /\ l \in At(cs[d].client)
  PROVE  Located(SetLocation(cs, d, l))
  <1> SUFFICES ASSUME NEW e \in Drafts, SetLocation(cs, d, l)[e].location # None
               PROVE  /\ SetLocation(cs, d, l)[e].client # None
                      /\ SetLocation(cs, d, l)[e].location \in At(SetLocation(cs, d, l)[e].client)
      BY DEF Located
  <1>1. SetLocation(cs, d, l)[e].client = cs[e].client
    BY SetLocationIs
  <1>2. CASE e = d
    <2>1. SetLocation(cs, d, l)[d].location = IF l = New THEN None ELSE l
      BY SetLocationIs
    <2>2. l \in Locations /\ SetLocation(cs, d, l)[d].location = l
      BY <1>2, <2>1
    <2> QED
      BY <1>1, <1>2, <2>2
  <1>3. CASE e # d
    <2>1. SetLocation(cs, d, l)[e] = cs[e]
      BY <1>3, SetLocationIs
    <2> QED
      BY <2>1 DEF Located
  <1> QED
    BY <1>2, <1>3

\* Clients of drafts are companies the server has.
KnownClients(cs) == \A d \in Drafts : cs[d].client \in Known \union {None}

LEMMA SetClientKnown ==
  ASSUME NEW cs, CandidatesOK(cs), KnownClients(cs), NEW d \in Drafts, NEW c \in Known \union {New}
  PROVE  KnownClients(SetClient(cs, d, c))
  <1>1. c \in Companies \union {New}
    BY DEF Known
  <1> SUFFICES ASSUME NEW e \in Drafts PROVE SetClient(cs, d, c)[e].client \in Known \union {None}
      BY DEF KnownClients
  <1>2. SetClient(cs, d, c)[e] = IF Reached(cs, d, c, e) THEN WithClient(cs[e], c) ELSE cs[e]
    BY <1>1, SetClientIs
  <1>3. cs[e] \in Candidate
    BY DEF CandidatesOK
  <1>4. WithClient(cs[e], c).client = IF c = New THEN None ELSE c
    BY <1>1, <1>3, WithClientIs
  <1> QED
    BY <1>2, <1>4 DEF KnownClients

LEMMA SetLocationKnown ==
  ASSUME NEW cs, CandidatesOK(cs), KnownClients(cs), NEW d \in Drafts,
         NEW l \in Locations \union {None, New}
  PROVE  KnownClients(SetLocation(cs, d, l))
  BY SetLocationIs DEF KnownClients

-----------------------------------------------------------------------------
(* What the prefill effect calls for.                                        *)

Ambiguous(d) == \E a, b \in Matches(d) : a # b

LEMMA OneMatch ==
  ASSUME Types, NEW d \in Drafts
  PROVE  /\ Matches(d) \subseteq Companies
         /\ Cardinality(Matches(d)) = 1 => \E c \in Companies : Matches(d) = {c}
         /\ Cardinality(Matches(d)) # 1 => Matches(d) = {} \/ Ambiguous(d)
  <1>1. store.companies \subseteq Companies
    BY DEF Types, StoreOK, Known
  <1>2. Matches(d) \subseteq Companies
    BY <1>1 DEF Matches
  <1>3. IsFiniteSet(Matches(d))
    BY <1>2, ReviewAssumption, FS_Subset
  <1>4. Cardinality(Matches(d)) = 1 <=> \E c : Matches(d) = {c}
    BY <1>3, FS_Singleton
  <1>5. (\A c : Matches(d) # {c}) => Matches(d) = {} \/ Ambiguous(d)
    BY DEF Ambiguous
  <1> QED
    BY <1>2, <1>4, <1>5

LEMMA ClientPrefillIs ==
  ASSUME Types, NEW d \in Drafts
  PROVE  /\ ClientPrefill(d) \in Companies \union {New, None}
         /\ HasClient(d) => ClientPrefill(d) = None
         /\ ClientPrefill(d) \in Companies => Matches(d) = {ClientPrefill(d)}
         /\ ClientPrefill(d) = New => Matches(d) = {} /\ suggested[d].name \in Names \ SplitNames
         /\ ~HasClient(d) /\ ClientPrefill(d) = None =>
              Ambiguous(d) \/ suggested[d].name \notin Names \ SplitNames
  <1>1. CASE HasClient(d)
    BY <1>1, NoneIsNoId DEF ClientPrefill
  <1>2. CASE ~HasClient(d) /\ Cardinality(Matches(d)) = 1
    <2>1. PICK c \in Companies : Matches(d) = {c}
      BY <1>2, OneMatch
    <2>2. (CHOOSE x \in Companies : x \in Matches(d)) = c
      BY <2>1
    <2>3. ClientPrefill(d) = c
      BY <1>2, <2>2 DEF ClientPrefill
    <2> QED
      BY <1>2, <2>1, <2>3, NoneIsNoId
  <1>3. CASE ~HasClient(d) /\ Cardinality(Matches(d)) # 1
    <2>1. ClientPrefill(d) =
            IF Matches(d) = {} /\ suggested[d].name \in Names \ SplitNames THEN New ELSE None
      BY <1>3 DEF ClientPrefill
    <2>2. Matches(d) = {} \/ Ambiguous(d)
      BY <1>3, OneMatch
    <2> QED
      BY <1>3, <2>1, <2>2, NoneIsNoId
  <1> QED
    BY <1>1, <1>2, <1>3

LEMMA LocationPrefillIs ==
  ASSUME Types, NEW d \in Drafts
  PROVE  /\ LocationPrefill(d) \in Locations \union {New, None}
         /\ candidates[d].location # None => LocationPrefill(d) = None
         /\ LocationPrefill(d) \in Locations =>
              /\ ExistingClient(d) # None
              /\ LocationPrefill(d) \in At(ExistingClient(d))
  <1> DEFINE existing == ExistingClient(d)
             matches == IF existing = None THEN {} ELSE LocationMatches(d, existing)
  <1>1. \/ LocationPrefill(d) \in {None, New}
        \/ /\ Cardinality(matches) = 1
           /\ LocationPrefill(d) = CHOOSE l \in Locations : l \in matches
    BY DEF LocationPrefill
  <1>2. candidates[d].location # None => LocationPrefill(d) = None
    BY DEF LocationPrefill
  <1>3. matches \subseteq Locations
    BY DEF LocationMatches, At
  <1>4. IsFiniteSet(matches)
    BY <1>3, ReviewAssumption, FS_Subset
  <1>5. matches # {} => existing # None /\ matches \subseteq At(existing)
    BY DEF LocationMatches
  <1> HIDE DEF matches, existing
  <1>6. ASSUME Cardinality(matches) = 1,
               LocationPrefill(d) = CHOOSE l \in Locations : l \in matches
        PROVE  LocationPrefill(d) \in matches
    <2>1. PICK x : matches = {x}
      BY <1>4, <1>6, FS_Singleton
    <2> QED
      BY <1>3, <1>6, <2>1
  <1>7. LocationPrefill(d) \in {None, New} \/ LocationPrefill(d) \in matches
    BY <1>1, <1>6
  <1> QED
    BY <1>2, <1>3, <1>5, <1>7, NoneIsNoId DEF existing

-----------------------------------------------------------------------------
(* The changes of the first n drafts, one after the other.                   *)

LEMMA LeastNumber ==
  ASSUME NEW S \in SUBSET Nat, S # {}
  PROVE  \E m \in S : \A k \in S : m <= k
  <1> DEFINE R == {ss \in Nat \X Nat : ss[1] < ss[2]}
  <1>1. IsWellFoundedOn(R, Nat)
    BY NatLessThanWellFounded DEF OpToRel
  <1> HIDE DEF R
  <1>2. PICK m \in S : \A k \in S : <<k, m>> \notin R
    BY <1>1, WFMin
  <1>3. ASSUME NEW k \in S PROVE m <= k
    <2>1. k \in Nat /\ m \in Nat /\ ~(k < m)
      BY <1>2 DEF R
    <2> QED
      BY <2>1
  <1> QED
    BY <1>3

\* Induction over a set of numbers.
LEMMA NumbersByInduction ==
  ASSUME NEW S, 0 \in S, \A n \in Nat : n \in S => n + 1 \in S
  PROVE  \A n \in Nat : n \in S
  <1> SUFFICES ASSUME Nat \ S # {} PROVE FALSE
      OBVIOUS
  <1>1. PICK m \in Nat \ S : \A k \in Nat \ S : m <= k
    BY LeastNumber
  <1>2. m - 1 \in Nat /\ m - 1 \in S
    BY <1>1
  <1> QED
    BY <1>1, <1>2

\* f follows the recursion of Prefilled up to k.
Follows(f, k) ==
  f = [n \in 0..k |-> IF n = 0 THEN candidates ELSE WithPrefills(f[n - 1], n)]

LEMMA PrefilledExists == \A k \in Nat : \E f : Follows(f, k)
  <1> DEFINE S == {k \in Nat : \E f : Follows(f, k)}
  <1>1. 0 \in S
    <2> DEFINE f == [n \in 0..0 |-> candidates]
    <2>1. Follows(f, 0)
      BY DEF Follows
    <2> QED
      BY <2>1
  <1>2. ASSUME NEW k \in Nat, k \in S PROVE k + 1 \in S
    <2>1. PICK f : Follows(f, k)
      BY <1>2
    <2> DEFINE g == [n \in 0..(k + 1) |-> IF n = 0 THEN candidates ELSE WithPrefills(f[n - 1], n)]
    <2>2. ASSUME NEW n \in 0..k PROVE g[n] = f[n]
      <3>1. n \in 0..(k + 1)
        OBVIOUS
      <3> QED
        BY <2>1, <3>1 DEF Follows
    <2>3. ASSUME NEW n \in 0..(k + 1), n # 0 PROVE g[n] = WithPrefills(g[n - 1], n)
      <3>1. n - 1 \in 0..k
        BY <2>3
      <3>2. g[n - 1] = f[n - 1]
        BY <2>2, <3>1
      <3>3. g[n] = WithPrefills(f[n - 1], n)
        BY <2>3
      <3> QED
        BY <3>2, <3>3
    <2>4. g[0] = candidates
      OBVIOUS
    <2>5. g = [n \in 0..(k + 1) |-> g[n]]
      OBVIOUS
    <2> HIDE DEF g
    <2>6. Follows(g, k + 1)
      BY <2>3, <2>4, <2>5 DEF Follows
    <2> QED
      BY <2>6
  <1> HIDE DEF S
  <1>3. \A k \in Nat : k \in S
    BY <1>1, <1>2, NumbersByInduction
  <1> QED
    BY <1>3 DEF S

LEMMA PrefilledIs ==
  /\ Prefilled[0] = candidates
  /\ \A n \in 0..DraftCount : n # 0 => Prefilled[n] = WithPrefills(Prefilled[n - 1], n)
  <1>1. \E f : Follows(f, DraftCount)
    BY PrefilledExists, ReviewAssumption
  <1>2. Follows(Prefilled, DraftCount)
    BY <1>1 DEF Prefilled, Follows
  <1> QED
    BY <1>2, ReviewAssumption DEF Follows

-----------------------------------------------------------------------------
(* What the changes of a prefill, taken together, leave as it was.           *)

\* Of two drafts of one suggestion, if one has accepted the new client the other has
\* a client as well, or there are two clients of that name for good.
NewIsShared ==
  \A d, e \in Drafts :
    candidates[e].newClient /\ suggested[d].name = suggested[e].name /\ suggested[d].name # None =>
      HasClient(d) \/ (store.scope = "all" /\ Ambiguous(d))

Given(cand) == cand.client # None \/ cand.newClient

\* The clients and locations that drafts have are kept on the candidates cs.
KeepsChoices(cs) ==
  \A d \in Drafts :
    /\ HasClient(d) => cs[d].client = candidates[d].client /\ cs[d].newClient = candidates[d].newClient
    /\ candidates[d].location # None => cs[d] = candidates[d]

\* A new client is one accepted before or called for; the first n drafts have theirs.
GivenUpTo(cs, n) ==
  \A d \in Drafts :
    /\ cs[d].newClient => candidates[d].newClient \/ ClientPrefill(d) = New
    /\ d <= n /\ ClientPrefill(d) # None => Given(cs[d])

PrefillOK(cs, n) ==
  /\ CandidatesOK(cs) /\ Located(cs) /\ KnownClients(cs)
  /\ KeepsChoices(cs) /\ GivenUpTo(cs, n)

Settling == Types /\ Located(candidates) /\ KnownClients(candidates) /\ NewIsShared

\* A client called for draft d reaches no draft that has one.
LEMMA PrefillReaches ==
  ASSUME Settling, NEW cs, KeepsChoices(cs), NEW d \in Drafts, ClientPrefill(d) # None,
         NEW e \in Drafts, Reached(cs, d, ClientPrefill(d), e)
  PROVE  ~HasClient(e)
  <1>1. CASE e = d
    BY <1>1, ClientPrefillIs DEF Settling
  <1>2. CASE e # d
    <2>1. ClientPrefill(d) # New /\ SharesClient(cs, d, e)
      BY <1>2 DEF Reached
    <2>2. Matches(d) = {ClientPrefill(d)} /\ ~HasClient(d)
      BY <2>1, ClientPrefillIs DEF Settling
    <2>3. ~Ambiguous(d)
      BY <2>2 DEF Ambiguous
    <2>4. suggested[d].name = suggested[e].name /\ suggested[d].name # None /\ cs[e].client = None
      BY <2>1 DEF SharesClient
    <2>5. ~candidates[e].newClient
      BY <2>2, <2>3, <2>4 DEF Settling, NewIsShared
    <2>6. HasClient(e) => candidates[e].client = None
      BY <2>4 DEF KeepsChoices
    <2> QED
      BY <2>5, <2>6 DEF HasClient
  <1> QED
    BY <1>1, <1>2

LEMMA LocatedHasClient ==
  ASSUME Settling, NEW d \in Drafts, candidates[d].location # None
  PROVE  HasClient(d)
  BY DEF Settling, Located, HasClient

LEMMA ClientPrefillOK ==
  ASSUME Settling, NEW cs, NEW d \in Drafts, PrefillOK(cs, d - 1)
  PROVE  PrefillOK(WithClientPrefill(cs, d), d)
  <1>0. d \in Nat /\ ClientPrefill(d) \in Companies \union {New, None}
    BY ClientPrefillIs, ReviewAssumption DEF Settling, Drafts
  <1>1. CASE ClientPrefill(d) = None
    <2>1. WithClientPrefill(cs, d) = cs
      BY <1>1 DEF WithClientPrefill
    <2>2. ASSUME NEW e \in Drafts, e <= d, ClientPrefill(e) # None PROVE e <= d - 1
      <3>1. e \in Nat /\ e # d
        BY <1>1, <2>2, ReviewAssumption DEF Drafts
      <3> QED
        BY <1>0, <2>2, <3>1
    <2> QED
      BY <2>1, <2>2 DEF PrefillOK, GivenUpTo
  <1>2. CASE ClientPrefill(d) # None
    <2> DEFINE c == ClientPrefill(d)
               next == SetClient(cs, d, c)
    <2>1. WithClientPrefill(cs, d) = next
      BY <1>2 DEF WithClientPrefill
    <2>2. c \in Companies \union {New}
      BY <1>0, <1>2
    <2>3. CandidatesOK(next) /\ Located(next) /\ KnownClients(next)
      <3>1. c \in Known \union {New}
        BY <2>2, ClientPrefillIs DEF Settling, Types, StoreOK, Matches
      <3> QED
        BY <2>2, <3>1, SetClientIs, SetClientLocated, SetClientKnown DEF PrefillOK
    <2>4. \A e \in Drafts : next[e] = IF Reached(cs, d, c, e) THEN WithClient(cs[e], c) ELSE cs[e]
      BY <2>2, SetClientIs DEF PrefillOK
    <2>5. \A e \in Drafts : HasClient(e) => ~Reached(cs, d, c, e)
      BY <1>2, PrefillReaches DEF PrefillOK
    <2>6. \A e \in Drafts : cs[e] \in Candidate
      BY DEF PrefillOK, CandidatesOK
    <2> HIDE DEF next, c
    <2>7. KeepsChoices(next)
      BY <2>4, <2>5, LocatedHasClient DEF PrefillOK, KeepsChoices
    <2>8. ASSUME NEW e \in Drafts
          PROVE  /\ next[e].newClient => candidates[e].newClient \/ ClientPrefill(e) = New
                 /\ e <= d /\ ClientPrefill(e) # None => Given(next[e])
      <3>1. CASE Reached(cs, d, c, e)
        <4>1. /\ next[e].client = IF c = New THEN None ELSE c
              /\ next[e].newClient = (c = New)
          BY <2>2, <2>4, <2>6, <3>1, WithClientIs
        <4>2. Given(next[e])
          BY <2>2, <4>1, NoneIsNoId DEF Given
        <4>3. next[e].newClient => e = d /\ ClientPrefill(e) = New
          BY <3>1, <4>1 DEF Reached, c
        <4> QED
          BY <4>2, <4>3
      <3>2. CASE ~Reached(cs, d, c, e)
        <4>1. next[e] = cs[e] /\ e # d
          BY <2>4, <3>2 DEF Reached
        <4>2. e <= d => e <= d - 1
          BY <1>0, <4>1, ReviewAssumption DEF Drafts
        <4> QED
          BY <4>1, <4>2 DEF PrefillOK, GivenUpTo
      <3> QED
        BY <3>1, <3>2
    <2>9. GivenUpTo(next, d)
      BY <2>8 DEF GivenUpTo
    <2> QED
      BY <2>1, <2>3, <2>7, <2>9 DEF PrefillOK
  <1> QED
    BY <1>1, <1>2

\* Once its client is set, draft d has the existing client its location was looked for at.
LEMMA ClientIsExisting ==
  ASSUME Settling, NEW cs, NEW d \in Drafts, PrefillOK(cs, d - 1), ExistingClient(d) # None
  PROVE  WithClientPrefill(cs, d)[d].client = ExistingClient(d)
  <1>0. ClientPrefill(d) \in Companies \union {New, None}
    BY ClientPrefillIs DEF Settling
  <1>1. CASE candidates[d].client # None
    <2>1. HasClient(d) /\ ExistingClient(d) = candidates[d].client
      BY <1>1 DEF HasClient, ExistingClient
    <2>2. WithClientPrefill(cs, d) = cs
      BY <2>1, ClientPrefillIs DEF WithClientPrefill, Settling
    <2> QED
      BY <2>1, <2>2 DEF PrefillOK, KeepsChoices
  <1>2. CASE candidates[d].client = None
    <2>1. ClientPrefill(d) \in Companies /\ ExistingClient(d) = ClientPrefill(d) /\ ClientPrefill(d) # New
      BY <1>0, <1>2, NoneIsNoId DEF ExistingClient
    <2>2. WithClientPrefill(cs, d) = SetClient(cs, d, ClientPrefill(d))
      BY <2>1, NoneIsNoId DEF WithClientPrefill
    <2>3. SetClient(cs, d, ClientPrefill(d))[d] = WithClient(cs[d], ClientPrefill(d))
      BY <2>1, SetClientIs DEF PrefillOK, Reached
    <2>4. cs[d] \in Candidate
      BY DEF PrefillOK, CandidatesOK
    <2> QED
      BY <2>1, <2>2, <2>3, <2>4, WithClientIs
  <1> QED
    BY <1>1, <1>2

LEMMA PrefillStepOK ==
  ASSUME Settling, NEW cs, NEW d \in Drafts, PrefillOK(cs, d - 1)
  PROVE  PrefillOK(WithPrefills(cs, d), d)
  <1> DEFINE with == WithClientPrefill(cs, d)
             l == LocationPrefill(d)
             next == SetLocation(with, d, l)
  <1>1. PrefillOK(with, d)
    BY ClientPrefillOK
  <1>2. /\ l \in Locations \union {New, None}
        /\ candidates[d].location # None => l = None
        /\ l \in Locations => ExistingClient(d) # None /\ l \in At(ExistingClient(d))
    BY LocationPrefillIs DEF Settling
  <1>3. l \in Locations => with[d].client # None /\ l \in At(with[d].client)
    BY <1>2, ClientIsExisting
  <1>4. CASE l = None
    BY <1>1, <1>4 DEF WithPrefills
  <1>5. CASE l # None
    <2>1. WithPrefills(cs, d) = next
      BY <1>5 DEF WithPrefills
    <2> HIDE DEF with, l
    <2>2. CandidatesOK(next) /\ Located(next) /\ KnownClients(next)
      BY <1>1, <1>2, <1>3, SetLocationIs, SetLocationLocated, SetLocationKnown DEF PrefillOK
    <2>3. \A e \in Drafts : /\ next[e].client = with[e].client
                            /\ next[e].newClient = with[e].newClient
                            /\ e # d => next[e] = with[e]
      BY <1>1, <1>2, SetLocationIs DEF PrefillOK
    <2>4. candidates[d].location = None
      BY <1>2, <1>5
    <2> HIDE DEF next
    <2>5. KeepsChoices(next)
      BY <1>1, <2>3, <2>4 DEF PrefillOK, KeepsChoices
    <2>6. GivenUpTo(next, d)
      BY <1>1, <2>3 DEF PrefillOK, GivenUpTo, Given
    <2> QED
      BY <2>1, <2>2, <2>5, <2>6 DEF PrefillOK
  <1> QED
    BY <1>4, <1>5

LEMMA PrefilledOK ==
  ASSUME Settling
  PROVE  PrefillOK(Prefilled[DraftCount], DraftCount)
  <1> DEFINE S == {n \in Nat : n <= DraftCount => PrefillOK(Prefilled[n], n)}
  <1>1. 0 \in S
    <2>1. KeepsChoices(candidates)
      BY DEF KeepsChoices
    <2>2. GivenUpTo(candidates, 0)
      BY ReviewAssumption DEF GivenUpTo, Drafts
    <2> QED
      BY <2>1, <2>2, PrefilledIs DEF PrefillOK, Settling, Types
  <1>2. ASSUME NEW n \in Nat, n \in S PROVE n + 1 \in S
    <2> SUFFICES ASSUME n + 1 <= DraftCount PROVE PrefillOK(Prefilled[n + 1], n + 1)
        BY DEF S
    <2>1. n + 1 \in Drafts /\ n + 1 \in 0..DraftCount /\ n + 1 # 0 /\ (n + 1) - 1 = n /\ n <= DraftCount
      BY ReviewAssumption DEF Drafts
    <2>2. PrefillOK(Prefilled[n], n)
      BY <1>2, <2>1
    <2>3. Prefilled[n + 1] = WithPrefills(Prefilled[n], n + 1)
      BY <2>1, PrefilledIs
    <2>4. PrefillOK(Prefilled[n], (n + 1) - 1)
      BY <2>1, <2>2
    <2> QED
      BY <2>1, <2>3, <2>4, PrefillStepOK
  <1>3. DraftCount \in Nat
    BY ReviewAssumption
  <1> HIDE DEF S
  <1>4. DraftCount \in S
    BY <1>1, <1>2, <1>3, NumbersByInduction
  <1> QED
    BY <1>3, <1>4 DEF S

\* After a prefill every draft of a suggestion has a client if one has the new one.
LEMMA PrefillShares ==
  ASSUME Settling, Prefill
  PROVE  Settling'
  <1>1. PrefillOK(candidates', DraftCount)
    BY PrefilledOK DEF Prefill
  <1>2. UNCHANGED <<suggested, store, decision, server, edits>>
    BY DEF Prefill
  <1>3. Types'
    BY <1>1, <1>2 DEF PrefillOK, Settling, Types, StoreOK, ServerOK, DecisionOK, Known, CandidatesOK
  <1>4. Located(candidates)' /\ KnownClients(candidates)'
    BY <1>1, <1>2 DEF PrefillOK, Located, At, KnownClients, Known
  <1>5. NewIsShared'
    <2> SUFFICES ASSUME NEW d \in Drafts, NEW e \in Drafts, candidates'[e].newClient,
                        suggested[d].name = suggested[e].name, suggested[d].name # None,
                        ~Given(candidates'[d])
                 PROVE  store.scope = "all" /\ Ambiguous(d)
        BY <1>2 DEF NewIsShared, HasClient, Given, Ambiguous, Matches
    <2>1. ~HasClient(d)
      BY <1>1 DEF PrefillOK, KeepsChoices, HasClient, Given
    <2>2. d <= DraftCount
      BY ReviewAssumption DEF Drafts
    <2>3. ClientPrefill(d) = None
      BY <1>1, <2>2 DEF PrefillOK, GivenUpTo
    <2>4. CASE candidates[e].newClient
      BY <2>1, <2>4 DEF Settling, NewIsShared
    <2>5. CASE ClientPrefill(e) = New
      <3>1. Matches(e) = {} /\ suggested[e].name \in Names \ SplitNames
        BY <2>5, ClientPrefillIs DEF Settling
      <3>2. Matches(d) = {} /\ suggested[d].name \in Names \ SplitNames
        BY <3>1 DEF Matches
      <3> QED
        BY <2>1, <2>3, <3>2, ClientPrefillIs DEF Settling, Ambiguous
    <2> QED
      BY <1>1, <2>4, <2>5 DEF PrefillOK, GivenUpTo
  <1> QED
    BY <1>3, <1>4, <1>5 DEF Settling

-----------------------------------------------------------------------------
(* The other actions.  The server only ever adds.                            *)

ServerGrows ==
  /\ \A c \in Companies : server.companies[c] # None => server'.companies[c] = server.companies[c]
  /\ \A l \in Locations : server.locations[l].company # None => server'.locations[l] = server.locations[l]

LEMMA ServerSame == server' = server => ServerGrows
  BY DEF ServerGrows

LEMMA GrownSets ==
  ASSUME ServerGrows
  PROVE  /\ Known \subseteq Known'
         /\ \A c : c # None => At(c) \subseteq At(c)'
  BY DEF ServerGrows, Known, At

LEMMA LocatedStays ==
  ASSUME ServerGrows, Located(candidates') PROVE Located(candidates)'
  BY GrownSets DEF Located

LEMMA KnownStays ==
  ASSUME ServerGrows, KnownClients(candidates') PROVE KnownClients(candidates)'
  BY GrownSets DEF KnownClients

LEMMA SharedStays ==
  ASSUME Settling, ServerGrows, suggested' = suggested,
         store.scope = "all" => store'.scope = "all" /\ store.companies \subseteq store'.companies,
         \A d \in Drafts : /\ candidates'[d].newClient => candidates[d].newClient
                           /\ HasClient(d) => HasClient(d)'
  PROVE  NewIsShared'
  <1> SUFFICES ASSUME NEW d \in Drafts, NEW e \in Drafts, candidates'[e].newClient,
                      suggested[d].name = suggested[e].name, suggested[d].name # None
               PROVE  HasClient(d)' \/ (store'.scope = "all" /\ Ambiguous(d)')
      BY DEF NewIsShared
  <1>1. HasClient(d) \/ (store.scope = "all" /\ Ambiguous(d))
    BY DEF Settling, NewIsShared
  <1>2. ASSUME store.scope = "all", Ambiguous(d) PROVE Ambiguous(d)'
    <2>1. \A c \in Matches(d) : c \in Companies /\ c \in store'.companies /\ server.companies[c] # None
      BY <1>2 DEF Matches, Settling, Types, StoreOK, Known
    <2>2. Matches(d) \subseteq Matches(d)'
      BY <2>1 DEF Matches, ServerGrows
    <2> QED
      BY <1>2, <2>2 DEF Ambiguous
  <1> QED
    BY <1>1, <1>2

OrphansChosen == \A d \in Drafts : Orphan(d) => Chosen(d)

LEMMA OrphansStay ==
  ASSUME Types, OrphansChosen, ServerGrows, suggested' = suggested, server'.streams = server.streams
  PROVE  OrphansChosen'
  <1> SUFFICES ASSUME NEW d \in Drafts, Orphan(d), server.streams[d] # None
               PROVE  server.streams[d].location \in At(server.streams[d].client)'
      BY DEF OrphansChosen, Orphan, Chosen
  <1>1. server.streams[d].location \in At(server.streams[d].client)
    BY DEF OrphansChosen, Chosen
  <1>2. server.streams[d] \in Stream
    BY DEF Types, ServerOK
  <1>3. server.streams[d].client # None
    BY <1>2, NoneIsNoId DEF Stream
  <1> QED
    BY <1>1, <1>3, GrownSets

IInv == Settling /\ OrphansChosen

\* A change of the lists alone.
LEMMA StoreOnly ==
  ASSUME IInv, UNCHANGED <<suggested, candidates, decision, server>>, edits' \in 0..MaxEdits,
         StoreOK',
         store.scope = "all" => store'.scope = "all" /\ store.companies \subseteq store'.companies
  PROVE  IInv'
  <1>1. ServerGrows
    BY ServerSame
  <1>2. Types'
    BY DEF IInv, Settling, Types, CandidatesOK, ServerOK, DecisionOK
  <1>3. Located(candidates)' /\ KnownClients(candidates)'
    BY <1>1, LocatedStays, KnownStays DEF IInv, Settling
  <1>4. NewIsShared'
    BY <1>1, SharedStays DEF IInv, Settling, HasClient
  <1>5. OrphansChosen'
    BY <1>1, OrphansStay DEF IInv, Settling
  <1> QED
    BY <1>2, <1>3, <1>4, <1>5 DEF IInv, Settling

LEMMA LoadOK ==
  ASSUME IInv, Load PROVE IInv'
  <1>0. Types /\ UNCHANGED <<suggested, candidates, decision, server, edits>>
    BY DEF IInv, Settling, Load, CompaniesAnswered, RequestLocations, LocationsAnswered
  <1>1. edits' \in 0..MaxEdits /\ Known' = Known
    BY <1>0 DEF Types, Known
  <1>2. CASE CompaniesAnswered
    <2>1. store' = [store EXCEPT !.companies = Known, !.loading = FALSE] \/ store' = [store EXCEPT !.loading = FALSE]
      BY <1>2 DEF CompaniesAnswered
    <2>2. StoreOK' /\ store'.scope = store.scope /\ store.companies \subseteq store'.companies
      BY <1>0, <1>1, <2>1 DEF Types, StoreOK
    <2> QED
      BY <1>0, <1>1, <2>2, StoreOnly
  <1>3. CASE RequestLocations
    <2> DEFINE clients == {candidates[d].client : d \in Drafts} \ {None}
    <2>1. store' = [store EXCEPT !.requested = store.requested \union clients,
                                 !.asking = store.asking \union (clients \ store.requested)]
      BY <1>3 DEF RequestLocations
    <2>2. clients \subseteq Known
      BY DEF IInv, Settling, KnownClients
    <2> HIDE DEF clients
    <2>3. StoreOK' /\ store'.scope = store.scope /\ store.companies \subseteq store'.companies
      BY <1>0, <1>1, <2>1, <2>2 DEF Types, StoreOK
    <2> QED
      BY <1>0, <1>1, <2>3, StoreOnly
  <1>4. ASSUME NEW c \in Companies, LocationsAnswered(c) PROVE IInv'
    <2>1. At(c) \subseteq Locations
      BY DEF At
    <2>2. StoreOK' /\ store'.scope = store.scope /\ store.companies \subseteq store'.companies
      <3>1. ASSUME c \in store.asking, NEW e, e = LocationsEnded(c, TRUE) \/ e = LocationsEnded(c, FALSE),
                   store' = e \/ store' = [e EXCEPT !.locations = store.locations \union At(c)]
            PROVE  StoreOK' /\ store'.scope = store.scope /\ store.companies \subseteq store'.companies
        <4>1. e = [store EXCEPT !.asking = store.asking \ {c}, !.loaded = store.loaded \union {c}]
          BY <3>1 DEF LocationsEnded
        <4>2. StoreOK /\ c \in store.requested
          BY <1>0, <3>1 DEF Types, StoreOK
        <4>3. /\ e.companies = store.companies /\ e.scope = store.scope
              /\ e \in [companies : SUBSET Known, scope : {"active", "all"}, loading : BOOLEAN,
                        locations : SUBSET Locations, requested : SUBSET Known,
                        asking : SUBSET e.requested, loaded : SUBSET e.requested]
          BY <4>1, <4>2 DEF StoreOK
        <4>4. CASE store' = e
          BY <1>1, <4>3, <4>4 DEF StoreOK
        <4>5. CASE store' = [e EXCEPT !.locations = store.locations \union At(c)]
          <5>1. store.locations \union At(c) \in SUBSET Locations
            BY <2>1, <4>2 DEF StoreOK
          <5> QED
            BY <1>1, <4>3, <4>5, <5>1 DEF StoreOK
        <4> QED
          BY <3>1, <4>4, <4>5
      <3>2. CASE store' = [store EXCEPT !.locations = store.locations \union At(c)]
        BY <1>0, <1>1, <2>1, <3>2 DEF Types, StoreOK
      <3> QED
        BY <1>4, <3>1, <3>2 DEF LocationsAnswered
    <2> QED
      BY <1>0, <1>1, <2>2, StoreOnly
  <1> QED
    BY <1>2, <1>3, <1>4 DEF Load

\* The reviewer picks a client for draft d.
LEMMA ChooseClientOK ==
  ASSUME IInv, NEW d \in Drafts, NEW c \in Companies \union {New}, ChooseClient(d, c)
  PROVE  /\ CandidatesOK(candidates') /\ Located(candidates')
         /\ \A e \in Drafts :
              /\ candidates'[e].newClient => candidates[e].newClient \/ (e = d /\ c = New)
              /\ HasClient(e) => HasClient(e)'
              /\ candidates'[e].client \in {candidates[e].client, c, None}
  <1> DEFINE cs == SetClient(candidates, d, c)
  <1>1. CandidatesOK(candidates) /\ Located(candidates)
    BY DEF IInv, Settling, Types
  <1>2. CandidatesOK(cs) /\ Located(cs)
    BY <1>1, SetClientIs, SetClientLocated
  <1>3. ASSUME NEW e \in Drafts
        PROVE  /\ cs[e].newClient => candidates[e].newClient \/ (e = d /\ c = New)
               /\ HasClient(e) => cs[e].client # None \/ cs[e].newClient
               /\ cs[e].client \in {candidates[e].client, c, None}
    <2>1. cs[e] = IF Reached(candidates, d, c, e) THEN WithClient(candidates[e], c) ELSE candidates[e]
      BY <1>1, SetClientIs
    <2>2. candidates[e] \in Candidate
      BY <1>1 DEF CandidatesOK
    <2> HIDE DEF cs
    <2>3. CASE Reached(candidates, d, c, e)
      <3>1. /\ cs[e].client = IF c = New THEN None ELSE c
            /\ cs[e].newClient = (c = New)
        BY <2>1, <2>2, <2>3, WithClientIs
      <3> QED
        BY <2>3, <3>1, NoneIsNoId DEF Reached
    <2>4. CASE ~Reached(candidates, d, c, e)
      BY <2>1, <2>4 DEF HasClient
    <2> QED
      BY <2>3, <2>4
  <1> HIDE DEF cs
  <1>4. CASE candidates' = cs
    BY <1>2, <1>3, <1>4 DEF HasClient
  <1>5. CASE candidates' = SetLocation(cs, d, None)
    <2>1. CandidatesOK(candidates') /\ Located(candidates')
      BY <1>2, <1>5, SetLocationIs, SetLocationLocated, NoneIsNoId
    <2>2. \A e \in Drafts : candidates'[e].client = cs[e].client /\ candidates'[e].newClient = cs[e].newClient
      BY <1>2, <1>5, SetLocationIs
    <2> QED
      BY <1>3, <2>1, <2>2 DEF HasClient
  <1> QED
    BY <1>4, <1>5 DEF ChooseClient, cs

LEMMA EditsType ==
  ASSUME Types, NEW d, Editing(d) PROVE edits' \in 0..MaxEdits /\ AtRest
  BY ReviewAssumption DEF Types, Editing

LEMMA SelectClientOK ==
  ASSUME IInv, NEW d \in Drafts, SelectClient(d) PROVE IInv'
  <1>1. /\ store.scope = "all" /\ edits' \in 0..MaxEdits /\ AtRest
        /\ UNCHANGED <<suggested, store, decision, server>>
    BY EditsType DEF SelectClient, IInv, Settling
  <1>2. PICK c \in Companies \union {New} :
          /\ ChooseClient(d, c)
          /\ c # New => c \in store.companies
          /\ c = New => suggested[d].name \in Names \ SplitNames
    <2>1. store.companies \subseteq Companies
      BY DEF IInv, Settling, Types, StoreOK, Known
    <2> QED
      BY <2>1, NoneIsNoId DEF SelectClient
  <1>3. ServerGrows
    BY <1>1, ServerSame
  <1>4. Located(candidates)'
    BY <1>2, <1>3, ChooseClientOK, LocatedStays
  <1>5. KnownClients(candidates)'
    <2>1. c # New => c \in Known
      BY <1>2 DEF IInv, Settling, Types, StoreOK
    <2>2. \A e \in Drafts : candidates'[e] \in Candidate
      BY <1>2, ChooseClientOK DEF CandidatesOK
    <2>3. KnownClients(candidates')
      BY <1>2, <2>1, <2>2, ChooseClientOK, NoneIsNoId DEF KnownClients, Candidate, IInv, Settling
    <2> QED
      BY <1>3, <2>3, KnownStays
  <1>6. Types'
    BY <1>1, <1>2, ChooseClientOK DEF IInv, Settling, Types, CandidatesOK, StoreOK, ServerOK, DecisionOK, Known
  <1>7. NewIsShared'
    <2>1. CASE c # New
      BY <1>1, <1>2, <1>3, <2>1, ChooseClientOK, SharedStays DEF IInv, Settling
    <2>2. CASE c = New
      <3> SUFFICES ASSUME NEW x \in Drafts, NEW e \in Drafts, candidates'[e].newClient,
                          suggested[x].name = suggested[e].name, suggested[x].name # None,
                          ~HasClient(x)'
                   PROVE  Ambiguous(x)
          BY <1>1 DEF NewIsShared, Ambiguous, Matches
      <3>1. ~HasClient(x)
        BY <1>2, ChooseClientOK
      <3>2. CASE candidates[e].newClient
        BY <3>1, <3>2 DEF IInv, Settling, NewIsShared
      <3>3. CASE ~candidates[e].newClient
        <4>1. e = d
          BY <1>2, <3>3, ChooseClientOK
        <4>2. suggested[x].name \in Names \ SplitNames
          BY <1>2, <2>2, <4>1
        <4>3. ClientPrefill(x) = None
          BY <1>1 DEF AtRest
        <4> QED
          BY <3>1, <4>2, <4>3, ClientPrefillIs DEF IInv, Settling
      <3> QED
        BY <3>2, <3>3
    <2> QED
      BY <2>1, <2>2
  <1>8. OrphansChosen'
    BY <1>1, <1>3, OrphansStay DEF IInv, Settling
  <1> QED
    BY <1>4, <1>5, <1>6, <1>7, <1>8 DEF IInv, Settling

LEMMA AddClientOK ==
  ASSUME IInv, NEW d \in Drafts, AddClient(d) PROVE IInv'
  <1>1. /\ store.scope = "all" /\ edits' \in 0..MaxEdits /\ UNCHANGED <<suggested, decision>>
    BY EditsType DEF AddClient, IInv, Settling
  <1>2. PICK c \in Companies \ Known, name \in Names :
          /\ server' = [server EXCEPT !.companies[c] = name]
          /\ ChooseClient(d, c)
          /\ store' = [store EXCEPT !.companies = store.companies \union {c}, !.loading = TRUE]
    BY DEF AddClient
  <1>3. name # None /\ server.companies[c] = None
    BY <1>2, ReviewAssumption DEF Known
  <1>4. ServerOK' /\ ServerGrows /\ server'.streams = server.streams /\ c \in Known'
    <2>1. ServerOK
      BY DEF IInv, Settling, Types
    <2>2. server'.companies = [server.companies EXCEPT ![c] = name]
      BY <1>2, <2>1 DEF ServerOK
    <2>3. /\ server'.locations = server.locations /\ server'.parents = server.parents
          /\ server'.streams = server.streams
      BY <1>2, <2>1 DEF ServerOK
    <2>4. server.companies \in [Companies -> Names \union {None}]
      BY <2>1 DEF ServerOK
    <2>5. ServerOK'
      BY <1>2, <2>1 DEF ServerOK
    <2> QED
      BY <1>3, <2>2, <2>3, <2>4, <2>5 DEF ServerGrows, Known
  <1>5. StoreOK' /\ store'.scope = store.scope /\ store.companies \subseteq store'.companies
    BY <1>2, <1>4, GrownSets DEF IInv, Settling, Types, StoreOK
  <1>6. Located(candidates)'
    BY <1>2, <1>4, ChooseClientOK, LocatedStays
  <1>7. KnownClients(candidates)'
    BY <1>2, <1>4, GrownSets, ChooseClientOK DEF KnownClients, IInv, Settling
  <1>8. Types'
    BY <1>1, <1>2, <1>4, <1>5, ChooseClientOK DEF IInv, Settling, Types, CandidatesOK, DecisionOK
  <1>9. NewIsShared'
    <2>1. c # New
      BY NoneIsNoId
    <2> QED
      BY <1>1, <1>2, <1>4, <1>5, <2>1, ChooseClientOK, SharedStays DEF IInv, Settling
  <1>10. OrphansChosen'
    BY <1>1, <1>4, OrphansStay DEF IInv, Settling
  <1> QED
    BY <1>6, <1>7, <1>8, <1>9, <1>10 DEF IInv, Settling

LEMMA OpenRowOK ==
  ASSUME IInv, NEW d \in Drafts, OpenRow(d) PROVE IInv'
  <1>1. /\ store.scope = "active" /\ edits' \in 0..MaxEdits
        /\ UNCHANGED <<suggested, candidates, decision, server>>
        /\ store' = loadCompanies("all")
    BY EditsType DEF OpenRow, IInv, Settling
  <1>2. StoreOK'
    BY <1>1 DEF loadCompanies, IInv, Settling, Types, StoreOK, Known
  <1> QED
    BY <1>1, <1>2, StoreOnly

LEMMA SelectLocationOK ==
  ASSUME IInv, NEW d \in Drafts, SelectLocation(d) PROVE IInv'
  <1>1. edits' \in 0..MaxEdits /\ UNCHANGED <<suggested, store, decision, server>>
    BY EditsType DEF SelectLocation, IInv, Settling
  <1>2. PICK l \in Locations \union {New} :
          /\ candidates' = SetLocation(candidates, d, l)
          /\ l \in Locations => candidates[d].client # None /\ l \in At(candidates[d].client)
    <2>1. At(candidates[d].client) \subseteq Locations
      BY DEF At
    <2> QED
      BY <2>1, NoneIsNoId DEF SelectLocation
  <1>3. ServerGrows
    BY <1>1, ServerSame
  <1>4. CandidatesOK(candidates) /\ Located(candidates) /\ KnownClients(candidates)
    BY DEF IInv, Settling, Types
  <1>5. Located(candidates)' /\ KnownClients(candidates)' /\ CandidatesOK(candidates')
    BY <1>2, <1>3, <1>4, SetLocationIs, SetLocationLocated, SetLocationKnown, LocatedStays, KnownStays
  <1>6. Types'
    BY <1>1, <1>5 DEF IInv, Settling, Types, CandidatesOK, StoreOK, ServerOK, DecisionOK, Known
  <1>7. \A e \in Drafts : /\ candidates'[e].client = candidates[e].client
                          /\ candidates'[e].newClient = candidates[e].newClient
    BY <1>2, <1>4, SetLocationIs
  <1>8. NewIsShared'
    BY <1>1, <1>3, <1>7, SharedStays DEF IInv, Settling, HasClient
  <1>9. OrphansChosen'
    BY <1>1, <1>3, OrphansStay DEF IInv, Settling
  <1> QED
    BY <1>5, <1>6, <1>8, <1>9 DEF IInv, Settling

LEMMA ConfirmOK ==
  ASSUME IInv, NEW d \in Drafts, handleConfirmCandidate(d) PROVE IInv'
  <1>1. /\ Confirmable(d) /\ UNCHANGED <<suggested, candidates, store, server, edits>>
        /\ decision' = [draft |-> d, answer |-> "none",
                        client |-> IF candidates[d].client # None THEN candidates[d].client ELSE New,
                        location |-> IF candidates[d].location # None THEN candidates[d].location ELSE New]
    BY DEF handleConfirmCandidate
  <1>2. candidates[d] \in Candidate
    BY DEF IInv, Settling, Types, CandidatesOK
  <1>3. d \in 0..DraftCount
    BY ReviewAssumption DEF Drafts
  <1>4. DecisionOK'
    BY <1>1, <1>2, <1>3, NoneIsNoId DEF DecisionOK, Candidate
  <1>5. StoreOK' /\ ServerOK' /\ CandidatesOK(candidates') /\ Located(candidates)' /\ KnownClients(candidates)'
    BY <1>1 DEF IInv, Settling, Types, StoreOK, ServerOK, CandidatesOK, Located, At, KnownClients, Known
  <1>6. Types'
    BY <1>1, <1>4, <1>5 DEF IInv, Settling, Types, CandidatesOK
  <1>7. NewIsShared'
    BY <1>1, ServerSame, SharedStays DEF IInv, Settling, HasClient
  <1>8. OrphansChosen'
    BY <1>1, ServerSame, OrphansStay DEF IInv, Settling
  <1> QED
    BY <1>5, <1>6, <1>7, <1>8 DEF IInv, Settling

\* Only the status of a draft, or nothing of it.
LEMMA AnsweredOK ==
  ASSUME IInv, DecisionAnswered PROVE IInv'
  <1>1. UNCHANGED <<suggested, store, server, edits>> /\ decision' = NoDecision
    BY DEF DecisionAnswered
  <1>2. CandidatesOK(candidates)
    BY DEF IInv, Settling, Types
  <1>3. /\ CandidatesOK(candidates')
        /\ \A e \in Drafts : /\ candidates'[e].client = candidates[e].client
                             /\ candidates'[e].newClient = candidates[e].newClient
                             /\ candidates'[e].location = candidates[e].location
    <2>1. CASE candidates' = candidates
      BY <1>2, <2>1 DEF CandidatesOK
    <2>2. CASE candidates' = [candidates EXCEPT ![decision.draft].status = "confirmed"]
      <3>1. PICK d : d = decision.draft
        OBVIOUS
      <3>2. PICK cand : cand = [candidates[d] EXCEPT !.status = "confirmed"]
        OBVIOUS
      <3>3. candidates' = [candidates EXCEPT ![d] = cand]
        BY <2>2, <3>1, <3>2
      <3>4. d \in Drafts => /\ cand \in Candidate
                           /\ cand.client = candidates[d].client /\ cand.newClient = candidates[d].newClient
                           /\ cand.location = candidates[d].location
                           /\ cand.newLocation = candidates[d].newLocation
        BY <1>2, <3>2 DEF CandidatesOK, Candidate
      <3> QED
        BY <1>2, <3>3, <3>4 DEF CandidatesOK
    <2> QED
      BY <2>1, <2>2 DEF DecisionAnswered
  <1>4. DecisionOK'
    BY <1>1, ReviewAssumption DEF NoDecision, DecisionOK
  <1>5. StoreOK' /\ ServerOK' /\ Located(candidates)' /\ KnownClients(candidates)'
    BY <1>1, <1>3 DEF IInv, Settling, Types, StoreOK, ServerOK, Located, At, KnownClients, Known
  <1>6. Types'
    BY <1>1, <1>3, <1>4, <1>5 DEF IInv, Settling, Types, CandidatesOK
  <1>7. NewIsShared'
    BY <1>1, <1>3, ServerSame, SharedStays DEF IInv, Settling, HasClient
  <1>8. OrphansChosen'
    BY <1>1, ServerSame, OrphansStay DEF IInv, Settling
  <1> QED
    BY <1>5, <1>6, <1>7, <1>8 DEF IInv, Settling

\* What the server makes of a decision: nothing that was there changes, and a location
\* that was free or of the company is one of the company.
LEMMA CreatedIs ==
  ASSUME Types, decision.draft \in Drafts, NEW c \in Companies, NEW l \in Locations,
         NEW parents \in [Parents -> Locations \union {None}], Created(decision, c, l, parents)
  PROVE  /\ ServerOK' /\ ServerGrows
         /\ server'.streams = [server.streams EXCEPT ![decision.draft] = [client |-> c, location |-> l]]
         /\ server.locations[l].company \in {None, c} => l \in At(c)'
  <1> DEFINE d == decision.draft
  <1>1. PICK name : name = IF server.companies[c] = None THEN suggested[d].name ELSE server.companies[c]
    OBVIOUS
  <1>2. PICK at : at = IF server.locations[l].company = None
                       THEN [company |-> c, place |-> suggested[d].place] ELSE server.locations[l]
    OBVIOUS
  <1>3. PICK s : s = [client |-> c, location |-> l]
    OBVIOUS
  <1>4. server' = [server EXCEPT !.companies[c] = name, !.locations[l] = at,
                                 !.parents = parents, !.streams[d] = s]
    BY <1>1, <1>2, <1>3 DEF Created
  <1>5. ServerOK /\ suggested[d] \in Suggestion
    BY DEF Types
  <1>6. /\ server.companies \in [Companies -> Names \union {None}]
        /\ server.locations \in [Locations -> [company : Companies \union {None}, place : Places \union {None}]]
        /\ server.streams \in [Drafts -> Stream \union {None}]
    BY <1>5 DEF ServerOK
  <1>7. /\ server'.companies = [server.companies EXCEPT ![c] = name]
        /\ server'.locations = [server.locations EXCEPT ![l] = at]
        /\ server'.parents = parents
        /\ server'.streams = [server.streams EXCEPT ![d] = s]
    BY <1>4, <1>5 DEF ServerOK
  <1>8. name \in Names \union {None} /\ at \in [company : Companies \union {None}, place : Places \union {None}]
        /\ s \in Stream
    BY <1>1, <1>2, <1>3, <1>5, <1>6 DEF Suggestion, Stream
  <1>9. server' = [companies |-> server'.companies, locations |-> server'.locations,
                   parents |-> server'.parents, streams |-> server'.streams]
    BY <1>4, <1>5 DEF ServerOK
  <1>10. /\ server'.companies \in [Companies -> Names \union {None}]
         /\ server'.locations \in [Locations -> [company : Companies \union {None}, place : Places \union {None}]]
         /\ server'.streams \in [Drafts -> Stream \union {None}]
    BY <1>6, <1>7, <1>8
  <1>11. ServerOK'
    BY <1>7, <1>9, <1>10 DEF ServerOK
  <1>12. ServerGrows
    <2>1. server.companies[c] # None => name = server.companies[c]
      BY <1>1
    <2>2. server.locations[l].company # None => at = server.locations[l]
      BY <1>2
    <2> QED
      BY <1>6, <1>7, <2>1, <2>2 DEF ServerGrows
  <1>13. ASSUME server.locations[l].company \in {None, c} PROVE l \in At(c)'
    <2>1. at.company = c
      BY <1>2, <1>13
    <2>2. server'.locations[l] = at
      BY <1>6, <1>7
    <2> QED
      BY <2>1, <2>2 DEF At
  <1> QED
    BY <1>3, <1>7, <1>11, <1>12, <1>13

LEMMA ServeOK ==
  ASSUME IInv, ServeDecision PROVE IInv'
  <1>1. /\ decision.draft # 0 /\ UNCHANGED <<suggested, candidates, store, edits>>
        /\ DecisionOK' /\ decision.draft \in Drafts
    BY DEF ServeDecision, IInv, Settling, Types, DecisionOK, Drafts
  <1>2. Types /\ OrphansChosen
    BY DEF IInv, Settling
  <1> DEFINE d == decision.draft
  <1>3. ASSUME NEW c \in Companies, NEW l \in Locations,
               NEW parents \in [Parents -> Locations \union {None}], Created(decision, c, l, parents),
               Orphan(d) => server.locations[l].company \in {None, c}
        PROVE  ServerOK' /\ ServerGrows /\ OrphansChosen'
    <2>1. /\ ServerOK' /\ ServerGrows
          /\ server'.streams = [server.streams EXCEPT ![d] = [client |-> c, location |-> l]]
          /\ server.locations[l].company \in {None, c} => l \in At(c)'
      BY <1>1, <1>2, <1>3, CreatedIs
    <2>2. ASSUME NEW e \in Drafts, Orphan(e), server'.streams[e] # None
          PROVE  server'.streams[e].location \in At(server.streams[e].client)'
      <3>1. CASE e = d
        <4>1. server'.streams[e] = [client |-> c, location |-> l]
          BY <1>1, <1>2, <2>1, <3>1 DEF Types, ServerOK
        <4> QED
          BY <1>3, <2>1, <2>2, <3>1, <4>1
      <3>2. CASE e # d
        <4>1. server'.streams[e] = server.streams[e]
          BY <1>2, <2>1, <3>2 DEF Types, ServerOK
        <4>2. server.streams[e].location \in At(server.streams[e].client) /\ server.streams[e] \in Stream
          BY <1>2, <2>2, <4>1 DEF OrphansChosen, Chosen, Types, ServerOK
        <4>3. server.streams[e].client # None
          BY <4>2, NoneIsNoId DEF Stream
        <4> QED
          BY <2>1, <4>1, <4>2, <4>3, GrownSets
      <3> QED
        BY <3>1, <3>2
    <2>3. OrphansChosen'
      BY <1>1, <2>2 DEF OrphansChosen, Orphan, Chosen
    <2> QED
      BY <2>1, <2>3
  <1>4. ServerOK' /\ ServerGrows /\ OrphansChosen'
    <2>1. CASE server' = server
      <3>1. ServerOK' /\ ServerGrows /\ server'.streams = server.streams
        BY <1>2, <2>1, ServerSame DEF Types, ServerOK
      <3> QED
        BY <1>1, <1>2, <3>1, OrphansStay
    <2>2. CASE server' # server
      <3>1. PICK c \in CompanyFor(decision) :
              IF Orphan(d) THEN ConfirmOrphan(c) ELSE ConfirmAtParent(c) \/ ConfirmLinked(c)
        BY <2>2 DEF ServeDecision
      <3>2. c \in Companies
        BY <1>1, <1>2, <3>1 DEF CompanyFor, Known, Types, DecisionOK
      <3>3. server.parents \in [Parents -> Locations \union {None}]
        BY <1>2 DEF Types, ServerOK
      <3>4. ASSUME NEW l \in LocationFor(decision, c)
            PROVE  l \in Locations /\ server.locations[l].company \in {None, c}
        BY DEF LocationFor, Identical, At
      <3>5. CASE Orphan(d)
        <4>1. PICK l \in LocationFor(decision, c) : Created(decision, c, l, server.parents)
          BY <3>1, <3>5 DEF ConfirmOrphan
        <4> QED
          BY <1>3, <3>2, <3>3, <3>4, <4>1
      <3>6. CASE ~Orphan(d)
        <4> DEFINE p == suggested[d].parent
        <4>1. p \in Parents
          BY <1>1, <1>2, <3>6 DEF Types, Suggestion, Orphan
        <4>2. CASE ConfirmAtParent(c)
          <5>1. server.parents[p] \in Locations
            BY <3>3, <4>1, <4>2 DEF ConfirmAtParent
          <5>2. [server.parents EXCEPT ![p] = None] \in [Parents -> Locations \union {None}]
            BY <3>3
          <5>3. Created(decision, c, server.parents[p], [server.parents EXCEPT ![p] = None])
            BY <4>2 DEF ConfirmAtParent
          <5> QED
            BY <1>3, <3>2, <3>6, <5>1, <5>2, <5>3
        <4>3. CASE ConfirmLinked(c)
          <5>1. PICK l \in LocationFor(decision, c) :
                  Created(decision, c, l, [server.parents EXCEPT ![p] = l])
            BY <4>3 DEF ConfirmLinked
          <5>2. [server.parents EXCEPT ![p] = l] \in [Parents -> Locations \union {None}]
            BY <3>3, <3>4
          <5> QED
            BY <1>3, <3>2, <3>4, <3>6, <5>1, <5>2
        <4> QED
          BY <3>1, <3>6, <4>2, <4>3
      <3> QED
        BY <3>5, <3>6
    <2> QED
      BY <2>1, <2>2
  <1>5. Located(candidates)' /\ KnownClients(candidates)'
    BY <1>1, <1>4, LocatedStays, KnownStays DEF IInv, Settling
  <1>6. StoreOK'
    BY <1>1, <1>2, <1>4, GrownSets DEF Types, StoreOK
  <1>7. Types'
    BY <1>1, <1>2, <1>4, <1>6 DEF Types, CandidatesOK
  <1>8. NewIsShared'
    BY <1>1, <1>4, SharedStays DEF IInv, Settling, HasClient
  <1> QED
    BY <1>4, <1>5, <1>7, <1>8 DEF IInv, Settling

-----------------------------------------------------------------------------
(* The theorems.                                                             *)

LEMMA InitIInv == Init => IInv
  <1> SUFFICES ASSUME Init PROVE IInv
      OBVIOUS
  <1>1. Unresolved \in Candidate /\ Unresolved.client = None /\ Unresolved.location = None /\ ~Unresolved.newClient
    BY DEF Unresolved, Candidate
  <1>2. CandidatesOK(candidates)
    BY <1>1 DEF Init, CandidatesOK
  <1>3. ServerOK
    <2>1. server \in [companies : [Companies -> Names \union {None}],
                      locations : [Locations -> [company : Companies \union {None}, place : Places \union {None}]],
                      parents : [Parents -> {None}], streams : [Drafts -> {None}]]
      BY DEF Init
    <2>2. server.parents \in [Parents -> Locations \union {None}] /\ server.streams \in [Drafts -> Stream \union {None}]
      BY <2>1
    <2> QED
      BY <2>1, <2>2 DEF ServerOK
  <1>4. StoreOK
    BY DEF Init, StoreOK
  <1>5. DecisionOK
    BY ReviewAssumption DEF Init, NoDecision, DecisionOK
  <1>6. Types
    BY <1>2, <1>3, <1>4, <1>5, ReviewAssumption DEF Init, Types
  <1>7. Located(candidates) /\ KnownClients(candidates) /\ NewIsShared
    BY <1>1 DEF Init, Located, KnownClients, NewIsShared
  <1>8. OrphansChosen
    BY DEF Init, OrphansChosen, Chosen
  <1> QED
    BY <1>6, <1>7, <1>8 DEF IInv, Settling

LEMMA NextIInv == IInv /\ [Next]_vars => IInv'
  <1> SUFFICES ASSUME IInv, [Next]_vars PROVE IInv'
      OBVIOUS
  <1>1. CASE Prefill
    <2>1. Settling'
      BY <1>1, PrefillShares DEF IInv
    <2>2. OrphansChosen'
      BY <1>1, ServerSame, OrphansStay DEF Prefill, IInv, Settling
    <2> QED
      BY <2>1, <2>2 DEF IInv
  <1>2. CASE UNCHANGED vars
    <2>1. edits' \in 0..MaxEdits /\ StoreOK'
      BY <1>2 DEF vars, IInv, Settling, Types, StoreOK, Known
    <2> QED
      BY <1>2, <2>1, StoreOnly DEF vars
  <1> QED
    BY <1>1, <1>2, LoadOK, ServeOK, AnsweredOK, ConfirmOK, OpenRowOK, SelectClientOK, AddClientOK,
       SelectLocationOK DEF Next, Edit

LEMMA InvStays == Spec => []IInv
  BY InitIInv, NextIInv, PTL DEF Spec

\* Drafts, lists, the decision on its way and what the server made keep their types;
\* what the browser has asked for is never more than the companies there are.
THEOREM TypeCorrect == Spec => []ReviewTypeOK
  <1>1. IInv => ReviewTypeOK
    BY TypesGiveType DEF IInv, Settling
  <1> QED
    BY <1>1, InvStays, PTL

\* For any number of drafts that share suggestions, and lists that load in any order
\* or not at all: the location shown for a draft belongs to the client shown.
THEOREM LocationFollowsClient == Spec => []LocationOfClient
  <1>1. IInv => LocationOfClient
    BY DEF IInv, Settling, Located, LocationOfClient
  <1> QED
    BY <1>1, InvStays, PTL

\* The changes of a prefill, however many drafts it sets one after the other, leave
\* every client and location that a draft has.
THEOREM PrefillLeavesChoices == Spec => PrefillKeepsChoices
  <1> DEFINE Keeps == Prefill => \A d \in Drafts :
       /\ HasClient(d) => /\ candidates'[d].client = candidates[d].client
                          /\ candidates'[d].newClient = candidates[d].newClient
       /\ candidates[d].location # None => candidates'[d] = candidates[d]
  <1>1. IInv => Keeps
    BY PrefilledOK DEF IInv, Prefill, PrefillOK, KeepsChoices
  <1>2. IInv /\ [Next]_vars => Keeps
    BY <1>1
  <1> QED
    BY InitIInv, NextIInv, <1>2, PTL DEF Spec, PrefillKeepsChoices

\* A draft without a parent item becomes a stream at a location of the client it was
\* confirmed for, whatever the server had before and whoever decided before.
THEOREM OrphansAreChosen == Spec => []OrphanAsChosen
  <1>1. IInv => OrphanAsChosen
    BY DEF IInv, OrphansChosen, OrphanAsChosen
  <1> QED
    BY <1>1, InvStays, PTL
=============================================================================
