------------------------ MODULE KeyOwnershipProofs -------------------------
(* Theorems of KeyOwnership, for any users, services, values and fees, and  *)
(* any number of records and certificates.                                  *)
EXTENDS KeyOwnership, WellFoundedInduction, TLAPS

(* Numbers only grow: nothing kept or sent is newer than the last one given.*)
SeqInv == \A k \in Key : rec[k] # None => rec[k].seq <= seq
SentInv == \A p \in puts : p.rec.seq <= seq

(* The certificates that travel with a record have been issued.             *)
IsIssued(r) ==
  r.data # None => /\ r.data.cert \in prepares
                   /\ r.data.tx # None => r.data.tx \in receipts
IssuedInv == \A p \in puts : IsIssued(p.rec)

(* Who has a key has had it, and the name of an approved service has been   *)
(* one when its record arrived: certificates only get old.                  *)
HadInv == \A k \in Key : rec[k] # None => <<k, rec[k].owner>> \in had
OpenInv ==
  \A k \in Key :
    /\ rec[k] # None /\ k = GetGunKey(k.rest)
    /\ HasServiceCertFor(rec[k].value, rec[k].owner, now)
    => k.rest \in opened

(* A record that was good when it arrived is good as long as its time lasts.*)
StoredInv ==
  \A k \in Key :
    rec[k] # None /\ now <= rec[k].till => ValidateValue(k, rec[k].value, rec[k].till)

(* Who has put a record may have, also while it is on its way.              *)
AdmitInv ==
  /\ \A k \in Key : rec[k] # None => Admitted(k, rec[k])
  /\ \A p \in puts : Admitted(p.key, p.rec)

(* What CheckTransferPara has seen of a record that it let pass.            *)
WasChecked(p) ==
  /\ p.rec.data # None
  /\ VerifyCertTransferPrepare(p.key, p.rec.data.cert, p.read.owner, p.rec.owner)
  /\ p.rec.data.tx # None =>
       VerifyCertTxCompleted2(p.key, p.rec.data.cert, p.rec.data.tx,
                              p.read.owner, p.rec.owner)
CheckInv == \A p \in puts : p.read # None => WasChecked(p)

(* The record of a user's certificates has the first of each name that he   *)
(* was given, in the order of their giving.                                 *)
FirstOfName(cv, i) == \A j \in 1..i - 1 : cv[j].name # cv[i].name
Named(gv, cv) == \A i \in DOMAIN gv : \E n \in DOMAIN cv : cv[n].name = gv[i].name
Ordered(gv, cv) ==
  \A n \in DOMAIN cv : \E i \in DOMAIN gv :
    /\ cv[n] = gv[i]
    /\ FirstOfName(gv, i)
    /\ \A m \in n + 1..Len(cv), j \in 1..i : gv[j].name # cv[m].name
CertsInv ==
  \A u \in User : Named(given[u], certs[u]) /\ Ordered(given[u], certs[u])

IInv ==
  /\ TypeOK /\ SeqInv /\ SentInv /\ IssuedInv /\ HadInv /\ OpenInv /\ StoredInv
  /\ AdmitInv /\ CheckInv /\ CertsInv

-----------------------------------------------------------------------------
LEMMA InitInv == Init => IInv
<1> SUFFICES ASSUME Init PROVE IInv
  OBVIOUS
<1> DEFINE CertSeq == Seq(Cert(User, 0..MaxNow))
<1>1. certs \in [User -> CertSeq] /\ given \in [User -> CertSeq]
  <2>1. <<>> \in CertSeq
    OBVIOUS
  <2>2. QED
    BY <2>1 DEF Init
<1>2. TypeOK
  <2>1. rec \in [Key -> Record \cup {None}]
    BY DEF Init
  <2>2. now \in 0..MaxNow /\ seq \in 0..MaxSeq
    BY BoundAssumption DEF Init
  <2>3. QED
    BY <1>1, <2>1, <2>2 DEF Init, TypeOK
<1>3. CertsInv
  BY DEF Init, CertsInv, Named, Ordered
<1>4. QED
  BY <1>2, <1>3 DEF Init, IInv, SeqInv, SentInv, IssuedInv, HadInv, OpenInv,
                    StoredInv, AdmitInv, CheckInv

(* A set of naturals has a least one.                                       *)
LEMMA LeastOf ==
  ASSUME NEW T, T \subseteq Nat, T # {}
  PROVE  \E x \in T : \A y \in T : x <= y
<1>1. PICK x \in T : \A y \in T : <<y, x>> \notin OpToRel(<, Nat)
  BY NatLessThanWellFounded, WFMin, Zenon
<1>2. \A y \in T : ~(y < x)
  BY <1>1, Zenon DEF OpToRel
<1>3. QED
  BY <1>2

(* What a list has under a name, and of an issuer.                          *)
LEMMA NameFound ==
  ASSUME NEW cv \in Seq(Cert(User, 0..MaxNow)), NEW x
  PROVE  SearchCertByName(cv, x) # None <=> \E n \in DOMAIN cv : cv[n].name = x
<1> DEFINE first == {i \in DOMAIN cv :
                       cv[i].name = x /\ \A j \in 1..i - 1 : ~(cv[j].name = x)}
           named == {i \in DOMAIN cv : cv[i].name = x}
<1>1. SearchCertByName(cv, x) =
        IF first = {} THEN None ELSE cv[CHOOSE i \in first : TRUE]
  BY DEF SearchCertByName, First
<1>2. ASSUME first # {} PROVE SearchCertByName(cv, x) # None
  <2>1. (CHOOSE i \in first : TRUE) \in DOMAIN cv
    BY <1>2
  <2>2. SearchCertByName(cv, x) \in Cert(User, 0..MaxNow)
    BY <1>1, <1>2, <2>1
  <2>3. QED
    BY <2>2, NoneAssumption
<1>3. ASSUME named # {} PROVE first # {}
  <2>1. named \subseteq Nat
    OBVIOUS
  <2>2. PICK i \in named : \A j \in named : i <= j
    <3> HIDE DEF named
    <3>1. QED
      BY <1>3, <2>1, LeastOf
  <2>3. i \in first
    BY <2>2
  <2>4. QED
    BY <2>3
<1>4. first \subseteq named
  OBVIOUS
<1>5. QED
  BY <1>1, <1>2, <1>3, <1>4

LEMMA IssuerFound ==
  ASSUME NEW cv \in Seq(Cert(User, 0..MaxNow)), NEW k, NEW n \in DOMAIN cv, cv[n].by = k
  PROVE  \E m \in 1..n : SearchCertByPubkey(cv, k) = cv[m] /\ cv[m].by = k
<1> DEFINE first == {i \in DOMAIN cv :
                       cv[i].by = k /\ \A j \in 1..i - 1 : ~(cv[j].by = k)}
           issued == {i \in DOMAIN cv : cv[i].by = k}
<1>1. SearchCertByPubkey(cv, k) =
        IF first = {} THEN None ELSE cv[CHOOSE i \in first : TRUE]
  BY DEF SearchCertByPubkey, First
<1>2. first # {}
  <2>1. issued \subseteq Nat /\ issued # {}
    OBVIOUS
  <2>2. PICK i \in issued : \A j \in issued : i <= j
    <3> HIDE DEF issued
    <3>1. QED
      BY <2>1, LeastOf
  <2>3. i \in first
    BY <2>2
  <2>4. QED
    BY <2>3
<1>3. PICK m \in first : SearchCertByPubkey(cv, k) = cv[m]
  BY <1>1, <1>2
<1>4. m <= n
  BY <1>3
<1>5. QED
  BY <1>3, <1>4

LEMMA NoneOfIssuer ==
  ASSUME NEW cv \in Seq(Cert(User, 0..MaxNow)), NEW k, SearchCertByPubkey(cv, k) # None
  PROVE  \E n \in DOMAIN cv : SearchCertByPubkey(cv, k) = cv[n] /\ cv[n].by = k
<1> DEFINE first == {i \in DOMAIN cv :
                       cv[i].by = k /\ \A j \in 1..i - 1 : ~(cv[j].by = k)}
<1>1. SearchCertByPubkey(cv, k) =
        IF first = {} THEN None ELSE cv[CHOOSE i \in first : TRUE]
  BY DEF SearchCertByPubkey, First
<1>2. first # {}
  BY <1>1
<1>3. (CHOOSE i \in first : TRUE) \in first
  BY <1>2
<1>4. QED
  BY <1>1, <1>2, <1>3

(* What is found for a service is the good certificate of one of its keys,  *)
(* and something is when one of its keys has one.                           *)
LEMMA ServiceFound ==
  ASSUME NEW cv, NEW sn \in DOMAIN dkvsServiceNameMap, NEW keys \in Seq(User),
         keys = dkvsServiceNameMap[sn],
         NEW f, f = FindPublicServiceCertByServiceName(cv, sn, now)
  PROVE  /\ f # None => \E q \in DOMAIN keys :
                          f = SearchCertByPubkey(cv, keys[q]) /\ VerifyCert(f, now)
         /\ \A q \in DOMAIN keys :
              VerifyCert(SearchCertByPubkey(cv, keys[q]), now) => f # None
<1> DEFINE found == [i \in DOMAIN keys |-> SearchCertByPubkey(cv, keys[i])]
           good == {i \in DOMAIN keys : VerifyCert(found[i], now)}
           first == {i \in DOMAIN found :
                       /\ VerifyCert(found[i], now)
                       /\ \A j \in 1..i - 1 : ~VerifyCert(found[j], now)}
<1>1. f = IF first = {} THEN None ELSE found[CHOOSE i \in first : TRUE]
  BY DEF FindPublicServiceCertByServiceName, IsPublicServiceName, First
<1>2. \A i \in first : i \in DOMAIN keys /\ VerifyCert(found[i], now)
  OBVIOUS
<1>3. ASSUME good # {} PROVE first # {}
  <2>1. good \subseteq Nat
    OBVIOUS
  <2>2. PICK i \in good : \A j \in good : i <= j
    <3> HIDE DEF good
    <3>1. QED
      BY <1>3, <2>1, LeastOf
  <2>3. i \in first
    BY <2>2
  <2>4. QED
    BY <2>3
<1>4. ASSUME first # {}
      PROVE  \E q \in DOMAIN keys : f = found[q] /\ VerifyCert(f, now)
  <2>1. (CHOOSE i \in first : TRUE) \in first
    BY <1>4
  <2>2. QED
    BY <1>1, <1>2, <1>4, <2>1
<1>5. \A q \in DOMAIN keys : found[q] = SearchCertByPubkey(cv, keys[q])
  OBVIOUS
<1>6. f # None => \E q \in DOMAIN keys :
                    f = SearchCertByPubkey(cv, keys[q]) /\ VerifyCert(f, now)
  <2>1. f # None => first # {}
    BY <1>1
  <2> HIDE DEF first, found
  <2>2. QED
    BY <2>1, <1>4, <1>5
<1>7. ASSUME NEW q \in DOMAIN keys, VerifyCert(SearchCertByPubkey(cv, keys[q]), now)
      PROVE  f # None
  <2>1. q \in good
    BY <1>7
  <2>2. \E p \in DOMAIN keys : f = found[p] /\ VerifyCert(f, now)
    <3> HIDE DEF first, found, good
    <3>1. QED
      BY <2>1, <1>3, <1>4
  <2>3. QED
    BY <2>2 DEF VerifyCert
<1>8. QED
  BY <1>6, <1>7

(* A list gives one of its certificates, or none.                           *)
LEMMA FoundType ==
  ASSUME NEW cv \in Seq(Cert(User, 0..MaxNow)), NEW k
  PROVE  SearchCertByPubkey(cv, k) \in Cert(User, 0..MaxNow) \cup {None}
<1> DEFINE first == {i \in DOMAIN cv :
                       cv[i].by = k /\ \A j \in 1..i - 1 : ~(cv[j].by = k)}
<1>1. SearchCertByPubkey(cv, k) =
        IF first = {} THEN None ELSE cv[CHOOSE i \in first : TRUE]
  BY DEF SearchCertByPubkey, First
<1>2. CASE first = {}
  BY <1>1, <1>2
<1>3. CASE first # {}
  <2>1. (CHOOSE i \in first : TRUE) \in DOMAIN cv
    BY <1>3
  <2>2. QED
    BY <1>1, <1>3, <2>1
<1>4. QED
  BY <1>2, <1>3

(* A record that is an approved service's now was one at any time before.   *)
LEMMA ApprovedBefore ==
  ASSUME TypeOK, NEW r \in Record, NEW t \in Nat, now <= t,
         HasServiceCertFor(r.value, r.owner, t)
  PROVE  HasServiceCertFor(r.value, r.owner, now)
<1>1. PICK sn \in DOMAIN dkvsServiceNameMap :
        \E i \in DOMAIN dkvsServiceNameMap[sn] :
          LET c == SearchCertByPubkey(r.value, dkvsServiceNameMap[sn][i])
          IN  VerifyCert(c, t) /\ c.user = r.owner
  BY DEF HasServiceCertFor
<1>2. PICK i \in DOMAIN dkvsServiceNameMap[sn] :
        LET c == SearchCertByPubkey(r.value, dkvsServiceNameMap[sn][i])
        IN  VerifyCert(c, t) /\ c.user = r.owner
  BY <1>1
<1> DEFINE c == SearchCertByPubkey(r.value, dkvsServiceNameMap[sn][i])
<1>3. r.value \in Seq(Cert(User, 0..MaxNow))
  BY ValueAssumption DEF Record
<1>4. c # None /\ t <= c.till
  BY <1>2 DEF VerifyCert
<1>5. c.till \in 0..MaxNow
  <2>1. c \in Cert(User, 0..MaxNow)
    BY <1>3, <1>4, FoundType
  <2>2. QED
    BY <2>1 DEF Cert
<1>6. now <= c.till
  BY <1>4, <1>5, BoundAssumption DEF TypeOK
<1>7. VerifyCert(c, now)
  BY <1>4, <1>6 DEF VerifyCert
<1>8. QED
  BY <1>2, <1>7 DEF HasServiceCertFor

(* The certificate of a gun that is found now is found as long as it is     *)
(* good: what comes before it in the order of the search was no good, and   *)
(* does not get better.                                                     *)
LEMMA GunStays ==
  ASSUME NEW cv \in Seq(Cert(User, 0..MaxNow)), NEW t \in Nat, NEW t2 \in Nat,
         NEW till, t <= t2, t2 <= till, VerifyGunRecordValue(cv, till, t)
  PROVE  VerifyGunRecordValue(cv, till, t2)
<1> DEFINE keys == dkvsServiceNameMap["gun"]
           found == [i \in DOMAIN keys |-> SearchCertByPubkey(cv, keys[i])]
           first(x) == {i \in DOMAIN found :
                          /\ VerifyCert(found[i], x)
                          /\ \A j \in 1..i - 1 : ~VerifyCert(found[j], x)}
<1>1. keys \in Seq(User) /\ "gun" \in DOMAIN dkvsServiceNameMap
  BY ServiceAssumption
<1>2. ASSUME NEW x
      PROVE  FindPublicServiceCertByServiceName(cv, "gun", x) =
               IF first(x) = {} THEN None ELSE found[CHOOSE i \in first(x) : TRUE]
  BY <1>1 DEF FindPublicServiceCertByServiceName, IsPublicServiceName, First
<1>3. \A i \in DOMAIN keys : found[i] \in Cert(User, 0..MaxNow) \cup {None}
  BY FoundType
<1>4. \A i \in DOMAIN keys : VerifyCert(found[i], t2) => VerifyCert(found[i], t)
  <2> SUFFICES ASSUME NEW i \in DOMAIN keys, VerifyCert(found[i], t2)
               PROVE  VerifyCert(found[i], t)
    OBVIOUS
  <2>1. found[i] # None /\ t2 <= found[i].till /\ found[i] \in Cert(User, 0..MaxNow)
    BY <1>3 DEF VerifyCert
  <2>2. found[i].till \in Int
    BY <2>1, BoundAssumption DEF Cert
  <2>3. QED
    BY <2>1, <2>2 DEF VerifyCert
<1>5. PICK i \in first(t) :
        found[i].name = "gun" /\ found[i].till = till /\ found[i] # None
  <2>1. first(t) # {}
    BY <1>2 DEF VerifyGunRecordValue
  <2>2. (CHOOSE i \in first(t) : TRUE) \in first(t)
    BY <2>1
  <2>3. QED
    BY <1>2, <2>1, <2>2 DEF VerifyGunRecordValue
<1>6. i \in DOMAIN keys /\ DOMAIN keys \subseteq Nat
  BY <1>1, <1>5
<1>7. i \in first(t2)
  <2>1. VerifyCert(found[i], t2)
    BY <1>5 DEF VerifyCert
  <2>2. ASSUME NEW j \in 1..i - 1 PROVE ~VerifyCert(found[j], t2)
    <3>1. ~VerifyCert(found[j], t)
      BY <1>5
    <3>2. j \in DOMAIN keys
      BY <1>1, <1>6
    <3>3. QED
      BY <1>4, <3>1, <3>2
  <2>3. QED
    BY <1>6, <2>1, <2>2
<1>8. \A k \in first(t2) : k = i
  <2> SUFFICES ASSUME NEW k \in first(t2) PROVE k = i
    OBVIOUS
  <2>1. k \in Nat /\ i \in Nat
    BY <1>6
  <2>2. /\ VerifyCert(found[k], t2) /\ VerifyCert(found[i], t2)
        /\ \A j \in 1..i - 1 : ~VerifyCert(found[j], t2)
        /\ \A j \in 1..k - 1 : ~VerifyCert(found[j], t2)
    BY <1>7
  <2>3. k \notin 1..i - 1 /\ i \notin 1..k - 1
    BY <2>2
  <2>4. k >= 1 /\ i >= 1
    BY <1>1, <1>6
  <2>5. QED
    BY <2>1, <2>3, <2>4
<1>9. FindPublicServiceCertByServiceName(cv, "gun", t2) = found[i]
  <2>1. (CHOOSE k \in first(t2) : TRUE) = i /\ first(t2) # {}
    BY <1>7, <1>8
  <2>2. QED
    BY <1>2, <2>1
<1>10. QED
  BY <1>5, <1>9 DEF VerifyGunRecordValue

LEMMA CertsStay ==
  ASSUME CertsInv, UNCHANGED <<certs, given>>
  PROVE  CertsInv'
BY DEF CertsInv

(* A certificate is added to the record when it is the first of its name.   *)
LEMMA CertsGrow ==
  ASSUME TypeOK, CertsInv, NEW u \in User, NEW c \in Cert(User, 0..MaxNow), Give(u, c)
  PROVE  CertsInv'
<1> DEFINE gv == given[u]
           cv == certs[u]
<1>1. c \in Cert(User, 0..MaxNow)
  OBVIOUS
<1>2. gv \in Seq(Cert(User, 0..MaxNow)) /\ cv \in Seq(Cert(User, 0..MaxNow))
  BY DEF TypeOK
<1>3. /\ given' = [given EXCEPT ![u] = Append(gv, c)]
      /\ certs' = [certs EXCEPT ![u] = EncodeCertsRecordValueWithCert(cv, c)]
      /\ given'[u] = Append(gv, c)
      /\ certs'[u] = EncodeCertsRecordValueWithCert(cv, c)
  BY DEF Give, TypeOK
<1>4. /\ Len(given'[u]) = Len(gv) + 1 /\ given'[u][Len(gv) + 1] = c
      /\ \A i \in DOMAIN gv : given'[u][i] = gv[i]
      /\ DOMAIN given'[u] = DOMAIN gv \cup {Len(gv) + 1}
  BY <1>1, <1>2, <1>3
<1>5. Named(gv, cv) /\ Ordered(gv, cv)
  BY DEF CertsInv
<1>6. ASSUME NEW v \in User, v # u
      PROVE  Named(given'[v], certs'[v]) /\ Ordered(given'[v], certs'[v])
  <2>1. given'[v] = given[v] /\ certs'[v] = certs[v]
    BY <1>3, <1>6 DEF TypeOK
  <2>2. QED
    BY <2>1 DEF CertsInv
<1>7. CASE \E n \in DOMAIN cv : cv[n].name = c.name
  <2>1. certs'[u] = cv
    BY <1>2, <1>3, <1>7, NameFound DEF EncodeCertsRecordValueWithCert
  <2>2. Named(given'[u], cv)
    BY <1>1, <1>4, <1>5, <1>7 DEF Named
  <2>3. ASSUME NEW n \in DOMAIN cv
        PROVE  \E i \in DOMAIN given'[u] :
                 /\ cv[n] = given'[u][i]
                 /\ FirstOfName(given'[u], i)
                 /\ \A m \in n + 1..Len(cv), j \in 1..i : given'[u][j].name # cv[m].name
    <3>1. PICK i \in DOMAIN gv :
            /\ cv[n] = gv[i]
            /\ FirstOfName(gv, i)
            /\ \A m \in n + 1..Len(cv), j \in 1..i : gv[j].name # cv[m].name
      BY <1>5 DEF Ordered
    <3>2. /\ i \in Nat /\ i \in DOMAIN given'[u] /\ given'[u][i] = gv[i]
          /\ \A j \in 1..i : given'[u][j] = gv[j]
      BY <1>2, <1>4
    <3>3. FirstOfName(given'[u], i)
      <4>1. FirstOfName(gv, i)
        BY <3>1
      <4>2. QED
        BY ONLY <3>2, <4>1 DEF FirstOfName
    <3>4. \A m \in n + 1..Len(cv), j \in 1..i : given'[u][j].name # cv[m].name
      BY ONLY <3>1, <3>2
    <3>5. cv[n] = given'[u][i]
      BY ONLY <3>1, <3>2
    <3>6. QED
      BY ONLY <3>2, <3>3, <3>4, <3>5
  <2>4. Named(given'[u], certs'[u]) /\ Ordered(given'[u], certs'[u])
    BY <2>1, <2>2, <2>3 DEF Ordered
  <2>5. QED
    BY ONLY <2>4, <1>6 DEF CertsInv
<1>8. CASE \A n \in DOMAIN cv : cv[n].name # c.name
  <2>1. certs'[u] = Append(cv, c)
    BY <1>2, <1>3, <1>8, NameFound DEF EncodeCertsRecordValueWithCert
  <2>2. /\ Len(certs'[u]) = Len(cv) + 1 /\ certs'[u][Len(cv) + 1] = c
        /\ \A n \in DOMAIN cv : certs'[u][n] = cv[n]
        /\ DOMAIN certs'[u] = DOMAIN cv \cup {Len(cv) + 1}
    BY <1>1, <1>2, <2>1
  <2>3. \A i \in DOMAIN gv : gv[i].name # c.name
    BY <1>5, <1>8 DEF Named
  <2>4. Named(given'[u], certs'[u])
    BY <1>1, <1>4, <1>5, <2>2 DEF Named
  <2>5. ASSUME NEW n \in DOMAIN certs'[u]
        PROVE  \E i \in DOMAIN given'[u] :
                 /\ certs'[u][n] = given'[u][i]
                 /\ FirstOfName(given'[u], i)
                 /\ \A m \in n + 1..Len(certs'[u]), j \in 1..i :
                       given'[u][j].name # certs'[u][m].name
    <3>1. CASE n = Len(cv) + 1
      <4>1. \A j \in 1..Len(gv) : j \in DOMAIN gv
        BY <1>2
      <4>2. FirstOfName(given'[u], Len(gv) + 1)
        BY <1>2, <1>4, <2>3, <4>1 DEF FirstOfName
      <4>3. n + 1..Len(certs'[u]) = {}
        BY <1>2, <2>2, <3>1
      <4>4. QED
        BY <1>4, <2>2, <3>1, <4>2, <4>3
    <3>2. CASE n \in DOMAIN cv
      <4>1. PICK i \in DOMAIN gv :
              /\ cv[n] = gv[i]
              /\ FirstOfName(gv, i)
              /\ \A m \in n + 1..Len(cv), j \in 1..i : gv[j].name # cv[m].name
        BY <1>5, <3>2 DEF Ordered
      <4>2. \A j \in 1..i : j \in DOMAIN gv
        BY <1>2
      <4>3. /\ i \in DOMAIN given'[u] /\ certs'[u][n] = given'[u][i]
            /\ FirstOfName(given'[u], i)
        <5>1. /\ i \in DOMAIN given'[u] /\ given'[u][i] = gv[i]
              /\ \A j \in 1..i - 1 : given'[u][j] = gv[j]
          BY <1>2, <1>4, <4>2
        <5>2. certs'[u][n] = given'[u][i]
          BY <2>2, <3>2, <4>1, <5>1
        <5>3. FirstOfName(given'[u], i)
          BY ONLY <4>1, <5>1 DEF FirstOfName
        <5>4. QED
          BY <5>1, <5>2, <5>3
      <4>4. ASSUME NEW m \in n + 1..Len(certs'[u]), NEW j \in 1..i
            PROVE  given'[u][j].name # certs'[u][m].name
        <5>1. given'[u][j] = gv[j] /\ j \in DOMAIN gv
          BY <1>4, <4>2
        <5>2. CASE m = Len(cv) + 1
          BY <2>2, <2>3, <5>1, <5>2
        <5>3. CASE m # Len(cv) + 1
          <6>1. m \in n + 1..Len(cv) /\ m \in DOMAIN cv
            BY <1>2, <2>2, <3>2, <5>3
          <6>2. QED
            BY <2>2, <4>1, <5>1, <6>1
        <5>4. QED
          BY <5>2, <5>3
      <4>5. QED
        BY ONLY <4>3, <4>4
    <3>3. QED
      BY <2>2, <3>1, <3>2
  <2>6. Ordered(given'[u], certs'[u])
    BY <2>5 DEF Ordered
  <2>7. QED
    BY <2>4, <2>6, <1>6 DEF CertsInv
<1>9. QED
  BY <1>7, <1>8

(* What a history has of who may have put a record only grows.              *)
LEMMA AdmittedStays ==
  ASSUME NEW k, NEW r, Admitted(k, r), had \subseteq had', opened \subseteq opened'
  PROVE  Admitted(k, r)'
BY DEF Admitted, MayHavePut, HasHad

LEMMA AdmitStays ==
  ASSUME AdmitInv, had \subseteq had', opened \subseteq opened', puts' \subseteq puts,
         UNCHANGED rec
  PROVE  AdmitInv'
BY AdmittedStays DEF AdmitInv

(* What is read is what is kept.                                            *)
LEMMA LocalType ==
  ASSUME TypeOK, NEW k, GetLocal(k) # None
  PROVE  /\ k \in Key /\ GetLocal(k) = rec[k] /\ rec[k] \in Record
         /\ ValidateRecord(k, rec[k])
BY DEF GetLocal, TypeOK

(* Steps that leave the records kept alone.                                 *)
LEMMA KeptStays ==
  ASSUME HadInv, OpenInv, StoredInv, UNCHANGED <<rec, now, history>>
  PROVE  HadInv' /\ OpenInv' /\ StoredInv'
BY DEF HadInv, OpenInv, StoredInv, ValidateValue, history

LEMMA CheckStays ==
  ASSUME CheckInv, puts' \subseteq puts
  PROVE  CheckInv'
BY DEF CheckInv, WasChecked, VerifyCertTransferPrepare, VerifyCertTxCompleted2,
       VerifyCertTxCompleted

LEMMA PrepareInv ==
  ASSUME IInv, NEW c \in Offer, IssueCertTransferPrepare(c)
  PROVE  IInv'
<1> USE DEF IInv, certVars, history
<1>1. TypeOK'
  BY CertAssumption DEF TypeOK, IssueCertTransferPrepare
<1>2. IssuedInv'
  BY DEF IssuedInv, IsIssued, IssueCertTransferPrepare
<1>3. SeqInv' /\ SentInv' /\ CheckInv'
  BY CheckStays DEF SeqInv, SentInv, IssueCertTransferPrepare
<1>4. HadInv' /\ OpenInv' /\ StoredInv' /\ AdmitInv'
  BY KeptStays, AdmitStays DEF IssueCertTransferPrepare
<1>5. CertsInv'
  BY CertsStay DEF IssueCertTransferPrepare
<1>6. QED
  BY <1>1, <1>2, <1>3, <1>4, <1>5

LEMMA ReceiptInv ==
  ASSUME IInv, NEW t \in Payment, IssueCertTxCompleted(t)
  PROVE  IInv'
<1> USE DEF IInv, certVars, history
<1>1. TypeOK'
  BY CertAssumption DEF TypeOK, IssueCertTxCompleted
<1>2. IssuedInv'
  BY DEF IssuedInv, IsIssued, IssueCertTxCompleted
<1>3. SeqInv' /\ SentInv' /\ CheckInv'
  BY CheckStays DEF SeqInv, SentInv, IssueCertTxCompleted
<1>4. HadInv' /\ OpenInv' /\ StoredInv' /\ AdmitInv'
  BY KeptStays, AdmitStays DEF IssueCertTxCompleted
<1>5. CertsInv'
  BY CertsStay DEF IssueCertTxCompleted
<1>6. QED
  BY <1>1, <1>2, <1>3, <1>4, <1>5

LEMMA GiveInv ==
  ASSUME IInv, NEW u \in User, NEW c \in Cert(User, 0..MaxNow), Give(u, c)
  PROVE  IInv'
<1> DEFINE CertSeq == Seq(Cert(User, 0..MaxNow))
<1> USE DEF IInv, certVars, history
<1>1. \A cv \in CertSeq : Append(cv, c) \in CertSeq
  OBVIOUS
<1>2. \A cv \in CertSeq : EncodeCertsRecordValueWithCert(cv, c) \in CertSeq
  BY <1>1 DEF EncodeCertsRecordValueWithCert
<1>3. given' \in [User -> CertSeq] /\ certs' \in [User -> CertSeq]
  BY <1>1, <1>2 DEF Give, TypeOK
<1>4. TypeOK'
  BY <1>3 DEF Give, TypeOK
<1>5. SeqInv' /\ SentInv' /\ IssuedInv' /\ CheckInv'
  BY CheckStays DEF SeqInv, SentInv, IssuedInv, IsIssued, Give
<1>6. HadInv' /\ OpenInv' /\ StoredInv' /\ AdmitInv'
  BY KeptStays, AdmitStays DEF Give
<1>7. CertsInv'
  BY CertsGrow
<1>8. QED
  BY <1>4, <1>5, <1>6, <1>7

LEMMA TickInv ==
  ASSUME IInv, Tick
  PROVE  IInv'
<1> USE DEF IInv, certVars, history
<1>1. TypeOK'
  BY BoundAssumption DEF TypeOK, Tick
<1>2. OpenInv'
  <2> SUFFICES ASSUME NEW k \in Key, rec[k] # None, k = GetGunKey(k.rest),
                      HasServiceCertFor(rec[k].value, rec[k].owner, now + 1)
               PROVE  k.rest \in opened
    BY DEF OpenInv, Tick
  <2>1. rec[k] \in Record /\ now \in Nat
    BY BoundAssumption DEF TypeOK
  <2>2. HasServiceCertFor(rec[k].value, rec[k].owner, now)
    BY <2>1, ApprovedBefore
  <2>3. QED
    BY <2>2 DEF OpenInv
<1>3. StoredInv'
  <2> SUFFICES ASSUME NEW k \in Key, rec[k] # None, now + 1 <= rec[k].till, IsGunName(k)
               PROVE  VerifyGunRecordValue(rec[k].value, rec[k].till, now + 1)
    BY DEF StoredInv, ValidateValue, Tick
  <2>1. now \in Nat /\ rec[k].till \in Nat /\ rec[k].value \in Seq(Cert(User, 0..MaxNow))
    BY BoundAssumption, ValueAssumption DEF TypeOK, Record
  <2>2. VerifyGunRecordValue(rec[k].value, rec[k].till, now)
    BY <2>1 DEF StoredInv, ValidateValue
  <2>3. now <= now + 1 /\ now + 1 \in Nat
    BY <2>1
  <2>4. QED
    BY <2>1, <2>2, <2>3, GunStays
<1>4. SeqInv' /\ SentInv' /\ IssuedInv' /\ HadInv' /\ CheckInv' /\ AdmitInv'
  BY CheckStays, AdmitStays DEF SeqInv, SentInv, IssuedInv, IsIssued, HadInv, Tick
<1>5. CertsInv'
  BY CertsStay DEF Tick
<1>6. QED
  BY <1>1, <1>2, <1>3, <1>4, <1>5

-----------------------------------------------------------------------------
(* Who has a name has had it, and an approved one's is open.                *)
LEMMA PermittedHasHad ==
  ASSUME IInv, NEW n, NEW u, HasPermission(n, u)
  PROVE  HasHad(n, u)
<1>1. /\ GetGunKey(n) \in Key /\ rec[GetGunKey(n)].owner = u
      /\ rec[GetGunKey(n)] # None
  BY LocalType DEF IInv, HasPermission, Owns
<1>2. QED
  BY <1>1 DEF IInv, HadInv, HasHad

LEMMA ApprovedIsOpen ==
  ASSUME IInv, NEW n, IsApprovedService(n)
  PROVE  n \in opened
<1> DEFINE k == GetGunKey(n)
<1>1. k \in Key /\ rec[k] # None /\ HasServiceCertFor(rec[k].value, rec[k].owner, now)
  BY LocalType DEF IInv, IsApprovedService, ApprovedService
<1>2. k.rest = n
  BY DEF GetGunKey
<1>3. QED
  BY <1>1, <1>2 DEF IInv, OpenInv

LEMMA CheckedMayHavePut ==
  ASSUME IInv, NEW k \in Key, NEW u \in User, CheckKeyValidity(k, u)
  PROVE  MayHavePut(k, u)
BY PermittedHasHad, ApprovedIsOpen
   DEF CheckKeyValidity, CheckNameValidity, IsPublicService, MayHavePut

LEMMA PutInv ==
  ASSUME IInv, NEW u \in User, NEW k \in Key, NEW v \in Value, NEW till \in 0..MaxNow,
         Put(u, k, v, till)
  PROVE  IInv'
<1> DEFINE r == NewRecord(u, v, till, None)
           q == [key |-> k, rec |-> r, read |-> None]
<1> USE DEF IInv, certVars, history
<1>1. /\ puts' = puts \cup {q}
      /\ seq' = seq + 1 /\ seq < MaxSeq /\ CheckKeyValidity(k, u)
      /\ UNCHANGED <<rec, prepares, receipts, certVars, history>>
  BY DEF Put, HasRoom, TimestampSeq
<1>2. r \in Record /\ r.owner = u /\ r.data = None /\ r.seq = seq + 1
  BY <1>1, BoundAssumption DEF TypeOK, NewRecord, TimestampSeq, Record
<1>3. TypeOK'
  <2>1. q \in [key : Key, rec : Record, read : Record \cup {None}]
    BY <1>2
  <2>2. seq' \in 0..MaxSeq
    BY <1>1, BoundAssumption DEF TypeOK
  <2>3. QED
    BY <1>1, <2>1, <2>2 DEF TypeOK, certVars, history
<1>4. SeqInv' /\ SentInv'
  BY <1>1, <1>2 DEF SeqInv, SentInv, TypeOK, Record
<1>5. IssuedInv'
  BY <1>1, <1>2 DEF IssuedInv, IsIssued
<1>6. HadInv' /\ OpenInv' /\ StoredInv'
  BY <1>1, KeptStays
<1>7. AdmitInv'
  <2>1. Admitted(k, r)
    BY <1>1, <1>2, CheckedMayHavePut DEF Admitted
  <2>2. QED
    BY <1>1, <2>1, AdmittedStays DEF AdmitInv
<1>8. CheckInv'
  BY <1>1 DEF CheckInv, WasChecked, VerifyCertTransferPrepare,
              VerifyCertTxCompleted2, VerifyCertTxCompleted
<1>9. CertsInv'
  BY <1>1, CertsStay
<1>10. QED
  BY <1>3, <1>4, <1>5, <1>6, <1>7, <1>8, <1>9

LEMMA TransferInv ==
  ASSUME IInv, NEW k \in Key, NEW c \in prepares, NEW tx \in receipts \cup {None},
         NEW u \in User, NEW till \in 0..MaxNow, TransferKey(k, c, tx, u, till)
  PROVE  IInv'
<1> DEFINE old == rec[k]
           d == [cert |-> c, tx |-> tx]
           r == NewRecord(u, old.value, till, d)
           q == [key |-> k, read |-> old, rec |-> r]
<1> USE DEF IInv, certVars, history
<1>1. GetLocal(k) = old /\ old \in Record /\ old.seq <= seq /\ old # None
  BY LocalType, NoneAssumption DEF TransferKey, SeqInv
<1>2. /\ puts' = puts \cup {q}
      /\ seq' = seq + 1 /\ seq < MaxSeq /\ CheckTransferPara(k, c, tx, u)
      /\ UNCHANGED <<rec, prepares, receipts, certVars, history>>
  BY <1>1 DEF TransferKey, HasRoom, TimestampSeq
<1>3. d \in Data
  BY DEF TypeOK, Data
<1>4. /\ r \in Record /\ r.owner = u /\ r.data = d /\ r.seq = seq + 1
      /\ q \in [key : Key, rec : Record, read : Record \cup {None}]
  <2>1. r \in Record
    BY <1>1, <1>2, <1>3, BoundAssumption DEF TypeOK, NewRecord, TimestampSeq, Record
  <2>2. QED
    BY <1>1, <2>1 DEF NewRecord, TimestampSeq
<1>5. TypeOK'
  <2>1. old.seq < r.seq
    BY <1>1, <1>4 DEF TypeOK, Record
  <2>2. seq' \in 0..MaxSeq
    BY <1>2, BoundAssumption DEF TypeOK
  <2>3. QED
    BY <1>2, <1>4, <2>1, <2>2 DEF TypeOK, certVars, history
<1>6. SeqInv' /\ SentInv'
  BY <1>2, <1>4 DEF SeqInv, SentInv, TypeOK, Record
<1>7. IssuedInv'
  BY <1>2, <1>4 DEF IssuedInv, IsIssued
<1>8. HadInv' /\ OpenInv' /\ StoredInv'
  BY <1>2, KeptStays
<1>9. d # None /\ d.cert = c
  BY <1>3, NoneAssumption
<1>10. AdmitInv'
  <2>1. Admitted(k, r)
    <3>1. old.owner = c.by
      BY <1>1, <1>2 DEF CheckTransferPara, Owns
    <3>2. QED
      BY <1>1, <1>4, <1>9, <3>1 DEF Admitted, HadInv
  <2>2. QED
    BY <1>2, <2>1, AdmittedStays DEF AdmitInv
<1>11. CheckInv'
  <2>1. WasChecked(q)
    BY <1>1, <1>2, <1>4, <1>9 DEF CheckTransferPara, WasChecked, Owns
  <2>2. QED
    BY <1>2, <2>1 DEF CheckInv, WasChecked, VerifyCertTransferPrepare,
                      VerifyCertTxCompleted2, VerifyCertTxCompleted
<1>12. CertsInv'
  BY <1>2, CertsStay
<1>13. QED
  BY <1>5, <1>6, <1>7, <1>8, <1>10, <1>11, <1>12

LEMMA DeliverInv ==
  ASSUME IInv, NEW p \in puts, Deliver(p)
  PROVE  IInv'
<1> DEFINE here == {n \in {p.key.rest} : p.key = GetGunKey(n) /\ ApprovedService(p.rec)}
<1> USE DEF IInv, certVars, history
<1>1. /\ p.key \in Key /\ p.rec \in Record /\ p.rec.owner \in User
      /\ p.rec.seq <= seq /\ p.rec # None
  BY NoneAssumption DEF TypeOK, Record, SentInv
<1>2. CASE ~Accepts(p)
  <2>1. puts' \subseteq puts /\ UNCHANGED <<rec, prepares, receipts, certVars, seq, history>>
    BY <1>2 DEF Deliver
  <2>2. TypeOK' /\ SeqInv' /\ SentInv' /\ IssuedInv'
    BY <2>1 DEF TypeOK, SeqInv, SentInv, IssuedInv, IsIssued
  <2>3. QED
    BY <2>1, <2>2, KeptStays, AdmitStays, CheckStays, CertsStay
<1>3. CASE Accepts(p)
  <2>1. /\ puts' \subseteq puts
        /\ rec' = [rec EXCEPT ![p.key] = p.rec]
        /\ had' = had \cup {<<p.key, p.rec.owner>>}
        /\ opened' = opened \cup here
        /\ UNCHANGED <<prepares, receipts, certVars, seq>>
    BY <1>3 DEF Deliver
  <2>2. /\ rec'[p.key] = p.rec
        /\ \A k \in Key \ {p.key} : rec'[k] = rec[k]
    BY <1>1, <2>1 DEF TypeOK
  <2>3. TypeOK' /\ SeqInv' /\ SentInv'
    BY <1>1, <2>1 DEF TypeOK, SeqInv, SentInv
  <2>4. IssuedInv' /\ CheckInv' /\ CertsInv'
    BY <2>1, CheckStays, CertsStay DEF IssuedInv, IsIssued
  <2>5. HadInv'
    BY <2>1, <2>2 DEF HadInv
  <2>6. OpenInv'
    <3> SUFFICES ASSUME NEW k \in Key, rec'[k] # None, k = GetGunKey(k.rest),
                        HasServiceCertFor(rec'[k].value, rec'[k].owner, now)
                 PROVE  k.rest \in opened'
      BY <2>1 DEF OpenInv
    <3>1. CASE k = p.key
      BY <1>1, <2>1, <2>2, <3>1 DEF ApprovedService
    <3>2. CASE k # p.key
      BY <2>1, <2>2, <3>2 DEF OpenInv
    <3>3. QED
      BY <3>1, <3>2
  <2>7. StoredInv'
    BY <1>3, <2>1, <2>2 DEF StoredInv, Accepts, ValidateRecord, ValidateValue
  <2>8. AdmitInv'
    <3>1. \A k \in Key : rec'[k] # None => Admitted(k, rec'[k])
      BY <1>1, <2>2 DEF AdmitInv
    <3>2. \A k, r : Admitted(k, r) => Admitted(k, r)'
      BY <2>1, AdmittedStays
    <3>3. QED
      BY <2>1, <3>1, <3>2 DEF AdmitInv, Admitted, MayHavePut, HasHad
  <2>9. QED
    BY <2>3, <2>4, <2>5, <2>6, <2>7, <2>8
<1>4. QED
  BY <1>2, <1>3

LEMMA StepInv == IInv /\ [Next]_vars => IInv'
<1> SUFFICES ASSUME IInv, [Next]_vars PROVE IInv'
  OBVIOUS
<1>1. CASE UNCHANGED vars
  <2>1. TypeOK' /\ SeqInv' /\ SentInv' /\ IssuedInv'
    BY <1>1 DEF vars, certVars, history, IInv, TypeOK, SeqInv, SentInv, IssuedInv, IsIssued
  <2>2. HadInv' /\ OpenInv' /\ StoredInv' /\ AdmitInv'
    BY <1>1, KeptStays, AdmitStays DEF vars, certVars, history, IInv
  <2>3. CheckInv' /\ CertsInv'
    BY <1>1, CheckStays, CertsStay DEF vars, certVars, IInv
  <2>4. QED
    BY <2>1, <2>2, <2>3 DEF IInv
<1>2. CASE Issue
  <2>1. ASSUME NEW g \in Grant, Give(g[1], g[2]) PROVE IInv'
    <3>1. g[1] \in User /\ g[2] \in Cert(User, 0..MaxNow)
      BY CertAssumption
    <3>2. QED
      BY <2>1, <3>1, GiveInv
  <2>2. QED
    BY <1>2, <2>1, PrepareInv, ReceiptInv, TickInv DEF Issue
<1>3. CASE \E u \in User, k \in Key, v \in Value, till \in 0..MaxNow :
             (IsGunName(k) \/ v = <<>>) /\ Put(u, k, v, till)
  BY <1>3, PutInv
<1>4. CASE \E k \in Key, c \in prepares, tx \in receipts \cup {None}, u \in User,
             till \in 0..MaxNow : TransferKey(k, c, tx, u, till)
  BY <1>4, TransferInv
<1>5. CASE \E p \in puts : Deliver(p)
  BY <1>5, DeliverInv
<1>6. QED
  BY <1>1, <1>2, <1>3, <1>4, <1>5 DEF Next

LEMMA Invariance == Spec => []IInv
BY InitInv, StepInv, PTL DEF Spec

-----------------------------------------------------------------------------
(* Records, certificates and calls stay in their types, and a record on its *)
(* way is newer than the one its call has read.                             *)
THEOREM TypeCorrect == Spec => []TypeOK
<1>1. IInv => TypeOK
  BY DEF IInv
<1>2. QED
  BY <1>1, Invariance, PTL

(* Who has a key in the namespace of a name could have put it at some time, *)
(* by one of the ways that the check of a put leaves open, or has it from   *)
(* one who had it, whatever was put, passed on or expired in between.       *)
THEOREM SubKeysFollowTheName == Spec => []SubIsOfName
<1>1. IInv => SubIsOfName
  BY DEF IInv, AdmitInv, SubIsOfName
<1>2. QED
  BY <1>1, Invariance, PTL

(* A transfer that CheckTransferPara let pass, with its payment where it    *)
(* asks one, is accepted if the record it read is still the one kept.       *)
THEOREM CheckedTransfersAreAccepted == Spec => []CheckedIsAccepted
<1>1. IInv => CheckedIsAccepted
  <2> SUFFICES ASSUME IInv, NEW p \in puts, p.read # None, p.read = rec[p.key],
                      ValidateRecord(p.key, p.rec),
                      p.rec.data.cert.fee # 0 => p.rec.data.tx # None
               PROVE  Accepts(p)
    BY DEF CheckedIsAccepted
  <2>1. WasChecked(p)
    BY DEF IInv, CheckInv
  <2>2. VerifyCertTxCompleted2(p.key, p.rec.data.cert, p.rec.data.tx,
                               p.read.owner, p.rec.owner)
    BY <2>1 DEF WasChecked, VerifyCertTxCompleted2
  <2>3. p.rec.seq > p.read.seq
    <3>1. p.read.seq < p.rec.seq /\ p.rec \in Record /\ p.read \in Record
      BY DEF IInv, TypeOK
    <3>2. QED
      BY <3>1 DEF Record
  <2>4. VerifyPubKey(p.key, p.read, p.rec)
    BY <2>1, <2>2 DEF VerifyPubKey, VerifyCertTransferConfirm, WasChecked
  <2>5. GetLocal(p.key) \in {None, p.read}
    BY DEF GetLocal
  <2>6. QED
    BY <2>3, <2>4, <2>5 DEF Accepts, Select
<1>2. QED
  BY <1>1, Invariance, PTL

-----------------------------------------------------------------------------
(* The steps of the refinement.                                             *)

LEMMA AgreedGrows ==
  ASSUME prepares \subseteq prepares', receipts \subseteq receipts', UNCHANGED <<rec, now>>
  PROVE  Owned!Agree
<1>1. ASSUME NEW x, NEW y, Agree(x, y) PROVE Agree(x, y)'
  BY <1>1 DEF Agree
<1>2. Agreed \subseteq Agreed' /\ Agreed' \subseteq User \X User
  BY <1>1 DEF Agreed
<1>3. UNCHANGED GetLocal(Name)
  BY DEF GetLocal, ValidateRecord, ValidateValue
<1>4. QED
  BY <1>2, <1>3 DEF Owned!Agree, Holding

LEMMA NothingChanges ==
  ASSUME UNCHANGED <<rec, prepares, receipts, now>>
  PROVE  UNCHANGED Owned!vars
BY DEF Owned!vars, Agreed, Agree, GetLocal, ValidateRecord, ValidateValue, Holding

(* A record stays good until its time is over, and then it is none.         *)
LEMMA TickImplements ==
  ASSUME IInv, Tick
  PROVE  Owned!Tick
<1> DEFINE r == rec[Name]
<1>1. IInv'
  BY TickInv
<1>2. Name \in Key /\ UNCHANGED <<rec, prepares, receipts>> /\ now' = now + 1
  BY NameAssumption DEF Tick
<1>3. UNCHANGED Agreed
  BY <1>2 DEF Agreed, Agree
<1>4. r \in Record \cup {None} /\ now \in Nat
  BY <1>2, BoundAssumption DEF IInv, TypeOK
<1>5. CASE GetLocal(Name) = None
  <2>1. r # None => ~(now <= r.till)
    BY <1>2, <1>5 DEF GetLocal, ValidateRecord, IInv, StoredInv
  <2>2. r # None => r.till \in Nat
    BY <1>4, BoundAssumption DEF Record
  <2>3. r # None => ~(now + 1 <= r.till)
    BY <1>4, <2>1, <2>2
  <2>4. GetLocal(Name)' = None
    BY <1>2, <2>3 DEF GetLocal, ValidateRecord
  <2>5. QED
    BY <1>2, <1>3, <1>5, <2>4 DEF Owned!Tick, Holding
<1>6. CASE GetLocal(Name) # None
  <2>1. GetLocal(Name) = r /\ r \in Record /\ r # None
    BY <1>6, LocalType DEF IInv
  <2>2. /\ Holding(GetLocal(Name)) = [owner |-> r.owner, until |-> r.till]
        /\ r.owner \in User /\ r.till \in 0..MaxNow
    BY <2>1 DEF Holding, Record
  <2>3. Holding(GetLocal(Name)) # None /\ Holding(GetLocal(Name)).until = r.till
    BY <2>2, NoneAssumption
  <2>4. CASE r.till < now + 1
    <3>1. GetLocal(Name)' = None
      BY <1>2, <1>4, <2>2, <2>4, BoundAssumption DEF GetLocal, ValidateRecord
    <3>2. QED
      BY <1>2, <1>3, <2>3, <2>4, <3>1 DEF Owned!Tick, Holding
  <2>5. CASE ~(r.till < now + 1)
    <3>1. now' <= r.till
      BY <1>2, <1>4, <2>2, <2>5, BoundAssumption
    <3>2. ValidateRecord(Name, r)'
      BY <1>1, <1>2, <2>1, <3>1 DEF IInv, StoredInv, ValidateRecord
    <3>3. GetLocal(Name)' = r
      BY <1>2, <2>1, <3>2 DEF GetLocal
    <3>4. QED
      BY <1>2, <1>3, <2>1, <2>3, <2>5, <3>3 DEF Owned!Tick, Holding
  <2>6. QED
    BY <2>4, <2>5
<1>7. QED
  BY <1>5, <1>6

LEMMA DeliverImplements ==
  ASSUME IInv, NEW p \in puts, Deliver(p)
  PROVE  [Owned!Next]_Owned!vars
<1> DEFINE old == GetLocal(Name)
<1>1. UNCHANGED <<Agreed, now>> /\ Name \in Key
  BY NameAssumption DEF Deliver, certVars, Agreed, Agree
<1>2. CASE p.key # Name \/ ~Accepts(p)
  <2>1. rec'[Name] = rec[Name]
    BY <1>1, <1>2 DEF Deliver, IInv, TypeOK
  <2>2. UNCHANGED GetLocal(Name)
    BY <1>1, <2>1 DEF GetLocal, ValidateRecord, ValidateValue
  <2>3. QED
    BY <1>1, <2>2 DEF Owned!vars, Holding
<1>3. CASE p.key = Name /\ Accepts(p)
  <2>1. /\ rec'[Name] = p.rec /\ p.rec \in Record /\ p.rec # None
        /\ p.rec.owner \in User /\ p.rec.till \in 0..MaxNow
    <3>1. p.rec \in Record /\ rec'[Name] = p.rec
      BY <1>1, <1>3 DEF Deliver, IInv, TypeOK
    <3>2. p.rec.owner \in User /\ p.rec.till \in 0..MaxNow
      BY <3>1 DEF Record
    <3>3. QED
      BY <3>1, <3>2, NoneAssumption
  <2>2. ValidateRecord(Name, p.rec) /\ Select(Name, old, p.rec)
    BY <1>3 DEF Accepts
  <2>3. GetLocal(Name)' = p.rec
    BY <1>1, <2>1, <2>2 DEF GetLocal, ValidateRecord, ValidateValue
  <2>4. Owned!Hold(p.rec.owner, p.rec.till)
    BY <1>1, <2>1, <2>2, <2>3 DEF Owned!Hold, Holding, ValidateRecord
  <2>5. CASE old = None
    BY <2>1, <2>4, <2>5 DEF Owned!Next, Owned!Register, Holding
  <2>6. ASSUME old # None
        PROVE  /\ old = rec[Name] /\ old \in Record /\ old.owner \in User
               /\ Holding(old) # None /\ Holding(old).owner = old.owner
    <3>1. old = rec[Name] /\ old \in Record
      BY <2>6, LocalType DEF IInv
    <3>2. old.owner \in User /\ old.till \in 0..MaxNow
      BY <3>1 DEF Record
    <3>3. Holding(old) \in [owner : User, until : 0..MaxNow] /\ Holding(old).owner = old.owner
      BY <2>6, <3>2 DEF Holding
    <3>4. QED
      BY <3>1, <3>2, <3>3, NoneAssumption
  <2>7. CASE old # None /\ p.rec.owner = old.owner
    BY <2>1, <2>4, <2>6, <2>7 DEF Owned!Next, Owned!Renew
  <2>8. CASE /\ old # None /\ p.rec.data # None
             /\ VerifyCertTransferConfirm(Name, p.rec.data, old.owner, p.rec.owner)
    <3> DEFINE c == p.rec.data.cert
               tx == p.rec.data.tx
    <3>1. c \in prepares /\ (tx # None => tx \in receipts)
      BY <2>8 DEF IInv, IssuedInv, IsIssued
    <3>2. Agree(old.owner, p.rec.owner)
      <4>1. c.key = Name /\ c.by = old.owner /\ c.to \in {None, p.rec.owner}
        BY <2>8 DEF VerifyCertTransferConfirm, VerifyCertTransferPrepare
      <4>2. c.fee # 0 => VerifyCertTxCompleted(Name, c.fee, tx, old.owner, p.rec.owner)
        BY <2>8 DEF VerifyCertTransferConfirm, VerifyCertTxCompleted2
      <4>3. c.fee # 0 => \E t \in receipts :
              /\ <<old.owner, p.rec.owner>> \in {<<t.from, t.to>>, <<t.to, t.from>>}
              /\ t.key = Name /\ t.fee = c.fee /\ IsPublicServiceNameKey("miner", t.by)
        <5> SUFFICES ASSUME c.fee # 0
                     PROVE  /\ tx \in receipts /\ tx.key = Name /\ tx.fee = c.fee
                            /\ IsPublicServiceNameKey("miner", tx.by)
                            /\ <<old.owner, p.rec.owner>> \in
                                 {<<tx.from, tx.to>>, <<tx.to, tx.from>>}
          OBVIOUS
        <5>1. VerifyCertTxCompleted(Name, c.fee, tx, old.owner, p.rec.owner)
          BY <4>2
        <5>2. <<tx.from, tx.to>> \in
                {<<old.owner, p.rec.owner>>, <<p.rec.owner, old.owner>>}
          BY <5>1 DEF VerifyCertTxCompleted
        <5>3. QED
          BY <3>1, <5>1, <5>2 DEF VerifyCertTxCompleted
      <4>4. QED
        BY <3>1, <4>1, <4>3 DEF Agree
    <3>3. <<Holding(old).owner, p.rec.owner>> \in Agreed
      BY <2>1, <2>6, <2>8, <3>2 DEF Agreed
    <3>4. QED
      BY <2>1, <2>4, <2>6, <2>8, <3>3 DEF Owned!Next, Owned!HandOver
  <2>9. ~SharesService(Name.ns, old, p.rec)
    <3>1. Name.ns = "contract"
      BY NameAssumption DEF IsGunName
    <3>2. QED
      BY <3>1, ServiceAssumption DEF SharesService, IsApprovedPubkey,
         IsPublicServiceNameKey, IsPublicServiceName
  <2>10. QED
    BY <2>2, <2>5, <2>7, <2>8, <2>9 DEF Select, VerifyPubKey
<1>4. QED
  BY <1>2, <1>3

LEMMA StepImplements == IInv /\ [Next]_vars => [Owned!Next]_Owned!vars
<1> SUFFICES ASSUME IInv, [Next]_vars PROVE [Owned!Next]_Owned!vars
  OBVIOUS
<1>1. CASE UNCHANGED vars
  BY <1>1, NothingChanges DEF vars, certVars
<1>2. CASE Issue
  <2>1. CASE Tick
    BY <2>1, TickImplements DEF Owned!Next
  <2>2. CASE ~Tick
    <3>1. prepares \subseteq prepares' /\ receipts \subseteq receipts' /\ UNCHANGED <<rec, now>>
      BY <1>2, <2>2 DEF Issue, IssueCertTransferPrepare, IssueCertTxCompleted, Give, certVars
    <3>2. QED
      BY <3>1, AgreedGrows DEF Owned!Next
  <2>3. QED
    BY <2>1, <2>2
<1>3. CASE \/ \E u \in User, k \in Key, v \in Value, till \in 0..MaxNow :
                (IsGunName(k) \/ v = <<>>) /\ Put(u, k, v, till)
           \/ \E k \in Key, c \in prepares, tx \in receipts \cup {None}, u \in User,
                till \in 0..MaxNow : TransferKey(k, c, tx, u, till)
  <2>1. UNCHANGED <<rec, prepares, receipts, now>>
    BY <1>3 DEF Put, TransferKey, certVars
  <2>2. QED
    BY <2>1, NothingChanges
<1>4. CASE \E p \in puts : Deliver(p)
  BY <1>4, DeliverImplements
<1>5. QED
  BY <1>1, <1>2, <1>3, <1>4 DEF Next

(* The name passes as OwnedKey says: until its time is over it has one      *)
(* owner, and each has agreed with the next one before; when it is over,    *)
(* and not before, the name is free.                                        *)
THEOREM PassesOn == Spec => PassesByAgreement
<1>1. Init => Owned!Init
  <2> SUFFICES ASSUME Init PROVE Owned!Init
    OBVIOUS
  <2>1. GetLocal(Name) = None
    BY DEF Init, GetLocal
  <2>2. QED
    BY <2>1 DEF Init, Owned!Init, Holding, Agreed, Agree
<1>2. QED
  BY <1>1, StepImplements, Invariance, PTL DEF Spec, Owned!Spec, PassesByAgreement

-----------------------------------------------------------------------------
(* Who counts as approved was given a certificate that is still good.       *)
LEMMA ApprovedWasGiven ==
  ASSUME IInv, NEW u \in User, IsApprovedPubkey(Sharing, u)
  PROVE  \E i \in DOMAIN given[u] :
           /\ given[u][i].name = "Approve" /\ given[u][i].user = u
           /\ IsPublicServiceNameKey(Sharing, given[u][i].by)
           /\ IsPublicServiceNameKey(given[u][i].ns, given[u][i].by)
           /\ VerifyCert(given[u][i], now)
<1> DEFINE c == FindPublicServiceCertByServiceName(certs[u], Sharing, now)
           keys == dkvsServiceNameMap[Sharing]
<1>1. /\ VerifyCert(c, now) /\ c # None /\ c.name = "Approve" /\ c.user = u
      /\ IsPublicServiceNameKey(c.ns, c.by)
  BY DEF IsApprovedPubkey, VerifyCertApprove, VerifyCert
<1>2. certs[u] \in Seq(Cert(User, 0..MaxNow))
  BY DEF IInv, TypeOK
<1>3. PICK q \in DOMAIN keys : c = SearchCertByPubkey(certs[u], keys[q])
  BY <1>1, ServiceFound, ServiceAssumption
<1>4. PICK n \in DOMAIN certs[u] : c = certs[u][n] /\ c.by = keys[q]
  BY <1>1, <1>2, <1>3, NoneOfIssuer
<1>5. PICK i \in DOMAIN given[u] : certs[u][n] = given[u][i]
  BY DEF IInv, CertsInv, Ordered
<1>6. IsPublicServiceNameKey(Sharing, c.by)
  BY <1>4, ServiceAssumption DEF IsPublicServiceNameKey, IsPublicServiceName
<1>7. QED
  BY <1>1, <1>4, <1>5, <1>6

(* A good approval which is the first of its name is what the search finds, *)
(* when nothing before it is of a key of the service, and nothing after it  *)
(* of another one.                                                          *)
LEMMA GivenIsApproved ==
  ASSUME IInv, NEW u \in User, NEW i \in DOMAIN given[u],
         given[u][i].name = "Approve", given[u][i].user = u,
         IsPublicServiceNameKey(Sharing, given[u][i].by),
         IsPublicServiceNameKey(given[u][i].ns, given[u][i].by),
         VerifyCert(given[u][i], now),
         \A j \in DOMAIN given[u] \ {i} :
           IF j < i
           THEN /\ given[u][j].name # "Approve"
                /\ ~IsPublicServiceNameKey(Sharing, given[u][j].by)
           ELSE \/ given[u][j].by = given[u][i].by
                \/ ~IsPublicServiceNameKey(Sharing, given[u][j].by)
  PROVE  IsApprovedPubkey(Sharing, u)
<1> DEFINE gv == given[u]
           cv == certs[u]
           k == gv[i].by
           keys == dkvsServiceNameMap[Sharing]
           c == FindPublicServiceCertByServiceName(cv, Sharing, now)
<1>1. gv \in Seq(Cert(User, 0..MaxNow)) /\ cv \in Seq(Cert(User, 0..MaxNow))
  BY DEF IInv, TypeOK
<1>2. Named(gv, cv) /\ Ordered(gv, cv)
  BY DEF IInv, CertsInv
<1>3. PICK n \in DOMAIN cv : cv[n].name = "Approve"
  BY <1>2 DEF Named
<1>4. /\ cv[n] = gv[i]
      /\ \A m \in DOMAIN cv : m < n => \E j \in DOMAIN gv : j < i /\ cv[m] = gv[j]
  <2>1. PICK l \in DOMAIN gv : cv[n] = gv[l] /\ FirstOfName(gv, l)
    BY <1>2 DEF Ordered
  <2>2. ~(l < i)
    <3>1. ASSUME l < i PROVE gv[l].name # "Approve"
      <4>1. l # i
        BY <1>1, <3>1
      <4>2. QED
        BY <3>1, <4>1
    <3>2. QED
      BY <1>3, <2>1, <3>1
  <2>3. ~(i < l)
    <3>1. i < l => i \in 1..l - 1
      BY <1>1
    <3>2. QED
      BY <1>3, <2>1, <3>1 DEF FirstOfName
  <2>4. l = i
    BY <1>1, <2>2, <2>3
  <2>5. ASSUME NEW m \in DOMAIN cv, m < n
        PROVE  \E j \in DOMAIN gv : j < i /\ cv[m] = gv[j]
    <3>1. PICK j \in DOMAIN gv :
            /\ cv[m] = gv[j]
            /\ \A x \in m + 1..Len(cv), y \in 1..j : gv[y].name # cv[x].name
      BY <1>2 DEF Ordered
    <3>2. n \in m + 1..Len(cv)
      BY <1>1, <2>5
    <3>3. i \notin 1..j
      BY <1>3, <3>1, <3>2
    <3>4. QED
      BY <1>1, <3>1, <3>3
  <2>6. QED
    BY <2>1, <2>4, <2>5
<1>5. SearchCertByPubkey(cv, k) = gv[i]
  <2>1. PICK m \in 1..n : SearchCertByPubkey(cv, k) = cv[m] /\ cv[m].by = k
    <3>1. cv[n].by = k
      BY <1>4
    <3> HIDE DEF cv, k
    <3>2. QED
      BY <1>1, <3>1, IssuerFound
  <2>2. m = n
    <3>1. m \in DOMAIN cv
      BY <1>1, <2>1
    <3>2. ASSUME m < n PROVE FALSE
      <4>1. PICK j \in DOMAIN gv : j < i /\ cv[m] = gv[j]
        BY <1>4, <3>1, <3>2
      <4>2. ~IsPublicServiceNameKey(Sharing, gv[j].by)
        BY <1>1, <4>1
      <4>3. QED
        BY <2>1, <4>1, <4>2
    <3>3. QED
      BY <1>1, <3>2
  <2>3. QED
    BY <1>4, <2>1, <2>2
<1>6. PICK p \in DOMAIN keys : keys[p] = k
  BY DEF IsPublicServiceNameKey, IsPublicServiceName
<1>7. c # None
  BY <1>5, <1>6, ServiceFound, ServiceAssumption
<1>8. PICK q \in DOMAIN keys : c = SearchCertByPubkey(cv, keys[q])
  BY <1>7, ServiceFound, ServiceAssumption
<1>9. keys[q] = k
  <2>1. PICK m \in DOMAIN cv : cv[m].by = keys[q]
    BY <1>1, <1>7, <1>8, NoneOfIssuer
  <2>2. PICK j \in DOMAIN gv : cv[m] = gv[j]
    BY <1>2 DEF Ordered
  <2>3. IsPublicServiceNameKey(Sharing, gv[j].by)
    BY <2>1, <2>2, ServiceAssumption DEF IsPublicServiceNameKey, IsPublicServiceName
  <2>4. QED
    BY <2>1, <2>2, <2>3
<1>10. c = gv[i]
  BY <1>5, <1>8, <1>9
<1>11. QED
  BY <1>10 DEF IsApprovedPubkey, VerifyCertApprove

(* Who counts as approved has been given a good certificate, and one that   *)
(* was given counts where the lists' order of search comes to it.           *)
THEOREM ApprovedAreGiven == Spec => []ApprovedAsGiven
<1>1. IInv => ApprovedAsGiven
  BY ApprovedWasGiven, GivenIsApproved DEF ApprovedAsGiven
<1>2. QED
  BY <1>1, Invariance, PTL
=============================================================================
