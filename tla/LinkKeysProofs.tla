--------------------------- MODULE LinkKeysProofs ---------------------------
(***************************************************************************)
(* Proofs about what a BLE controller goes through: the keys of bonded     *)
(* controllers, for any number of controllers, entries, keys and losses of *)
(* power (LinkKeys), how the LE keys are agreed upon (SmpPairing), and the *)
(* discovery of the reports (AttHid).                                      *)
(***************************************************************************)
EXTENDS SmpPairing, AttHid, SequenceTheorems, FiniteSetTheorems, TLAPS

LEMMA ConstantFacts ==
    /\ NOBODY \notin Remotes
    /\ KeySlots \in Nat /\ KeySlots > 0 /\ 0 \in Entries
    /\ MaxKeys \in Nat /\ MaxCuts \in Nat
BY LinkKeysAssumption DEF LinkKeysAssumption, Entries

\* The array with nothing in it.
LEMMA BlankFact ==
    /\ BlankKey \in KeyEntry /\ BlankKey.dev = NOBODY
    /\ BlankKeys \in KeyArray /\ \A n \in Entries : BlankKeys.keys[n] = BlankKey
BY ConstantFacts DEF BlankKey, BlankKeys, KeyEntry, KeyArray

\* The one entry of a device.
LEMMA LastFact ==
    ASSUME NEW a \in KeyArray, OnePerDevice(a), NEW d \in Remotes, Having(a, d) # {}
    PROVE  /\ LastOf(Having(a, d)) \in Entries
           /\ Having(a, d) = {LastOf(Having(a, d))}
           /\ a.keys[LastOf(Having(a, d))].dev = d
<1>1. PICK n \in Entries : a.keys[n].dev = d
  BY DEF Having
<1>2. Having(a, d) = {n}
  BY <1>1, ConstantFacts DEF OnePerDevice, Having
<1>3. n \in Int
  BY DEF Entries
<1>4. LastOf({n}) = n
  BY <1>3 DEF LastOf
<1> QED
  BY <1>1, <1>2, <1>4

\* A new key goes to the entry of its device, or to one that is given up for it.
LEMMA PutFact ==
    ASSUME NEW a \in KeyArray, OnePerDevice(a), NEW d \in Remotes, NEW k \in 0 .. MaxKeys
    PROVE  /\ Put(a, d, "key", k) \in KeyArray
           /\ OnePerDevice(Put(a, d, "key", k))
           /\ \A n \in Entries :
                \/ Put(a, d, "key", k).keys[n].dev = d /\ Put(a, d, "key", k).keys[n].key = k
                \/ /\ a.keys[n].dev # d
                   /\ Put(a, d, "key", k).keys[n] = a.keys[n]
<1> DEFINE i == IndexOf(a, d)
           b == Put(a, d, "key", k)
<1>1. i \in Entries /\ \A n \in Entries : n # i => a.keys[n].dev # d
  <2>1. CASE Having(a, d) = {}
    <3>1. i = a.index
      BY <2>1 DEF IndexOf
    <3> QED
      BY <2>1, <3>1 DEF Having, KeyArray
  <2>2. CASE Having(a, d) # {}
    <3>1. i = LastOf(Having(a, d))
      BY <2>2 DEF IndexOf
    <3>2. i \in Entries /\ Having(a, d) = {i}
      BY <2>2, <3>1, LastFact
    <3> QED
      BY <3>2 DEF Having
  <2> QED
    BY <2>1, <2>2
<1> HIDE DEF i
<1>2. Moved(a, i) \in Entries
  BY <1>1, ConstantFacts DEF Moved, KeyArray, Entries
<1>3. /\ b = [index |-> Moved(a, i),
              keys  |-> [a.keys EXCEPT ![i] = [[a.keys[i] EXCEPT !["key"] = k] EXCEPT !.dev = d]]]
  BY DEF Put, i
<1> HIDE DEF b
<1>4. /\ b.index = Moved(a, i)
      /\ b.keys = [a.keys EXCEPT ![i] = [[a.keys[i] EXCEPT !["key"] = k] EXCEPT !.dev = d]]
  BY <1>3
<1>5. a.keys[i] \in KeyEntry /\ a.keys \in [Entries -> KeyEntry]
  BY <1>1 DEF KeyArray
<1>6. /\ [[a.keys[i] EXCEPT !["key"] = k] EXCEPT !.dev = d] \in KeyEntry
      /\ [[a.keys[i] EXCEPT !["key"] = k] EXCEPT !.dev = d].dev = d
      /\ [[a.keys[i] EXCEPT !["key"] = k] EXCEPT !.dev = d].key = k
  BY <1>5 DEF KeyEntry
<1>7. /\ b.keys \in [Entries -> KeyEntry]
      /\ b.keys[i].dev = d /\ b.keys[i].key = k
      /\ \A n \in Entries \ {i} : b.keys[n] = a.keys[n]
  BY <1>1, <1>4, <1>5, <1>6
<1>8. b \in KeyArray
  BY <1>2, <1>3, <1>4, <1>7 DEF KeyArray
<1>9. OnePerDevice(b)
  <2> SUFFICES ASSUME NEW m \in Entries, NEW n \in Entries, b.keys[m].dev = b.keys[n].dev, m # n
               PROVE  b.keys[m].dev = NOBODY
    BY DEF OnePerDevice
  <2>1. CASE m = i \/ n = i
    BY <1>1, <1>7, <2>1
  <2>2. CASE m # i /\ n # i
    BY <1>7, <2>2 DEF OnePerDevice
  <2> QED
    BY <2>1, <2>2
<1>10. \A n \in Entries :
         \/ b.keys[n].dev = d /\ b.keys[n].key = k
         \/ a.keys[n].dev # d /\ b.keys[n] = a.keys[n]
  BY <1>1, <1>7
<1> QED
  BY <1>8, <1>9, <1>10 DEF b

\* So it has the newest keys of all it had them of, and of that device.
LEMMA PutNewest ==
    ASSUME NEW a \in KeyArray, OnePerDevice(a), NEW but \in SUBSET Remotes,
           NEW keyOf \in [Remotes -> 0 .. MaxKeys], Newest(a, keyOf, but),
           NEW d \in Remotes, NEW k \in 0 .. MaxKeys
    PROVE  Newest(Put(a, d, "key", k), [keyOf EXCEPT ![d] = k], but \ {d})
<1> DEFINE b == Put(a, d, "key", k)
<1> SUFFICES ASSUME NEW n \in Entries, b.keys[n].dev \in Remotes \ (but \ {d})
             PROVE  b.keys[n].key = [keyOf EXCEPT ![d] = k][b.keys[n].dev]
  BY DEF Newest
<1>1. CASE b.keys[n].dev = d /\ b.keys[n].key = k
  BY <1>1
<1>2. CASE a.keys[n].dev # d /\ b.keys[n] = a.keys[n]
  <2>1. a.keys[n].dev \in Remotes \ but
    BY <1>2
  <2>2. a.keys[n].key = keyOf[a.keys[n].dev]
    BY <2>1 DEF Newest
  <2> QED
    BY <1>2, <2>1, <2>2
<1> QED
  BY <1>1, <1>2, PutFact

\* What a file has that was written in part: nothing that the array had not, but for the device
\* of which half a key is there.
LEMMA WrittenFact ==
    ASSUME NEW a \in KeyArray, OnePerDevice(a), NEW but \in SUBSET Remotes,
           NEW keyOf, Newest(a, keyOf, but), NEW n \in -1 .. KeySlots, NEW half \in BOOLEAN
    PROVE  /\ Written(a, n, half) \in KeyArray /\ OnePerDevice(Written(a, n, half))
           /\ HalfOf(a, n, half) \in SUBSET Remotes
           /\ Newest(Written(a, n, half), keyOf, but \cup HalfOf(a, n, half))
<1> DEFINE w == Written(a, n, half)
<1>1. /\ w.index = (IF n < 0 THEN 0 ELSE a.index)
      /\ w.keys = [i \in Entries |-> IF i < n THEN a.keys[i]
                                     ELSE IF i = n /\ half THEN [a.keys[i] EXCEPT !.key = 0]
                                     ELSE BlankKey]
      /\ w = [index |-> w.index, keys |-> w.keys]
  BY DEF Written
<1> HIDE DEF w
<1>2. \A i \in Entries : /\ a.keys[i] \in KeyEntry
                         /\ [a.keys[i] EXCEPT !.key = 0] \in KeyEntry
                         /\ [a.keys[i] EXCEPT !.key = 0].dev = a.keys[i].dev
  BY ConstantFacts DEF KeyArray, KeyEntry
<1>3. \A i \in Entries :
        \/ w.keys[i] = a.keys[i] \/ w.keys[i] = BlankKey
        \/ i = n /\ half /\ w.keys[i] = [a.keys[i] EXCEPT !.key = 0]
  BY <1>1
<1>4. w.index \in Entries
  BY <1>1, ConstantFacts DEF KeyArray
<1>5. w.keys \in [Entries -> KeyEntry]
  <2>1. \A i \in Entries : w.keys[i] \in KeyEntry
    BY <1>2, <1>3, BlankFact
  <2> QED
    BY <1>1, <2>1
<1>6. w \in KeyArray
  BY <1>1, <1>4, <1>5 DEF KeyArray
<1>7. \A i \in Entries : w.keys[i].dev = a.keys[i].dev \/ w.keys[i].dev = NOBODY
  BY <1>2, <1>3, BlankFact
<1>8. OnePerDevice(w)
  BY <1>7 DEF OnePerDevice
<1>9. Newest(w, keyOf, but \cup HalfOf(a, n, half))
  <2> SUFFICES ASSUME NEW i \in Entries, w.keys[i].dev \in Remotes \ (but \cup HalfOf(a, n, half))
               PROVE  w.keys[i].key = keyOf[w.keys[i].dev]
    BY DEF Newest
  <2>1. CASE w.keys[i] = a.keys[i]
    BY <2>1 DEF Newest
  <2>2. CASE w.keys[i] = BlankKey
    BY <2>2, BlankFact, ConstantFacts
  <2>3. CASE i = n /\ half /\ w.keys[i] = [a.keys[i] EXCEPT !.key = 0]
    <3>1. HalfOf(a, n, half) = {a.keys[i].dev} \cap Remotes
      BY <2>3 DEF HalfOf
    <3>2. w.keys[i].dev = a.keys[i].dev
      BY <1>2, <2>3
    <3> QED
      BY <3>1, <3>2
  <2> QED
    BY <1>3, <2>1, <2>2, <2>3
<1>10. HalfOf(a, n, half) \in SUBSET Remotes
  BY DEF HalfOf
<1> QED
  BY <1>6, <1>8, <1>9, <1>10 DEF w

-----------------------------------------------------------------------------
\* A new key, that is stored or not.
LEMMA NotifyKeeps ==
    ASSUME KeysInv, NEW d \in Remotes, LinkKeyNotify(d)
    PROVE  KeysInv'
<1>0. /\ KeysTypeOK /\ link_keys \in KeyArray /\ keys_file \in KeyArray
      /\ OnePerDevice(link_keys) /\ Newest(link_keys, latest, spoilt.ram)
      /\ OnePerDevice(keys_file) /\ Newest(keys_file, latest, spoilt.file)
      /\ latest \in [Remotes -> 0 .. MaxKeys]
      /\ spoilt.ram \in SUBSET Remotes /\ spoilt.file \in SUBSET Remotes
  BY DEF KeysInv, KeysTypeOK
<1>1. /\ made' \in 0 .. MaxKeys /\ latest' = [latest EXCEPT ![d] = made']
      /\ link_keys' = Put(link_keys, d, "key", made')
      /\ cuts' = cuts
  BY <1>0, ConstantFacts DEF LinkKeyNotify, KeysTypeOK
<1>2. link_keys' \in KeyArray /\ OnePerDevice(link_keys')
  BY <1>0, <1>1, PutFact
<1>3. Newest(link_keys', latest', spoilt.ram \ {d})
  BY <1>0, <1>1, PutNewest
<1>4. latest' \in [Remotes -> 0 .. MaxKeys] /\ spoilt.ram \ {d} \in SUBSET Remotes
  BY <1>0, <1>1
<1>5. ASSUME NEW n \in -1 .. KeySlots, NEW half \in BOOLEAN, StoreKeys(d, n, half)
      PROVE  KeysInv'
  <2>1. /\ keys_file' = Written(link_keys', n, half)
        /\ spoilt' = [ram  |-> spoilt.ram \ {d},
                      file |-> (spoilt.ram \ {d}) \cup HalfOf(link_keys', n, half)]
    BY <1>5 DEF StoreKeys
  <2>2. /\ keys_file' \in KeyArray /\ OnePerDevice(keys_file')
        /\ HalfOf(link_keys', n, half) \in SUBSET Remotes
        /\ Newest(keys_file', latest', (spoilt.ram \ {d}) \cup HalfOf(link_keys', n, half))
    BY <1>2, <1>3, <1>4, <2>1, WrittenFact
  <2>3. /\ spoilt'.ram = spoilt.ram \ {d}
        /\ spoilt'.file = (spoilt.ram \ {d}) \cup HalfOf(link_keys', n, half)
        /\ spoilt' \in [ram : SUBSET Remotes, file : SUBSET Remotes]
    BY <1>4, <2>1, <2>2
  <2>4. KeysTypeOK'
    BY <1>0, <1>1, <1>2, <1>4, <2>2, <2>3 DEF KeysTypeOK
  <2>5. /\ Newest(link_keys', latest', spoilt'.ram)
        /\ Newest(keys_file', latest', spoilt'.file)
    BY <1>3, <2>2, <2>3
  <2> QED
    BY <1>2, <2>2, <2>4, <2>5 DEF KeysInv
<1>6. CASE StoreNothing(d)
  <2> DEFINE old == IF Having(keys_file, d) = {} THEN {} ELSE {d}
  <2>1. /\ keys_file' = keys_file
        /\ spoilt' = [ram |-> spoilt.ram \ {d}, file |-> spoilt.file \cup old]
    BY <1>6 DEF StoreNothing
  <2>2. old \in SUBSET Remotes
    OBVIOUS
  <2>3. Newest(keys_file, latest', spoilt.file \cup old)
    <3> SUFFICES ASSUME NEW n \in Entries, keys_file.keys[n].dev \in Remotes \ (spoilt.file \cup old)
                 PROVE  keys_file.keys[n].key = latest'[keys_file.keys[n].dev]
      BY DEF Newest
    <3>1. keys_file.keys[n].dev # d
      BY DEF Having
    <3>2. keys_file.keys[n].key = latest[keys_file.keys[n].dev]
      BY <1>0 DEF Newest
    <3> QED
      BY <1>0, <1>1, <3>1, <3>2
  <2> HIDE DEF old
  <2>4. /\ spoilt'.ram = spoilt.ram \ {d} /\ spoilt'.file = spoilt.file \cup old
        /\ spoilt' \in [ram : SUBSET Remotes, file : SUBSET Remotes]
    BY <1>0, <1>4, <2>1, <2>2
  <2>5. KeysTypeOK'
    BY <1>0, <1>1, <1>2, <1>4, <2>1, <2>4 DEF KeysTypeOK
  <2>6. /\ Newest(link_keys', latest', spoilt'.ram)
        /\ Newest(keys_file', latest', spoilt'.file) /\ OnePerDevice(keys_file')
    BY <1>0, <1>3, <2>1, <2>3, <2>4
  <2> QED
    BY <1>2, <2>5, <2>6 DEF KeysInv
<1> QED
  BY <1>5, <1>6 DEF LinkKeyNotify

\* The power goes.
LEMMA CutKeeps ==
    ASSUME KeysInv, PowerCut
    PROVE  KeysInv'
<1>0. /\ KeysTypeOK /\ keys_file \in KeyArray
      /\ OnePerDevice(keys_file) /\ Newest(keys_file, latest, spoilt.file)
      /\ spoilt \in [ram : SUBSET Remotes, file : SUBSET Remotes]
  BY DEF KeysInv, KeysTypeOK
<1>1. /\ keys_file' = keys_file /\ latest' = latest /\ made' = made
      /\ cuts' \in 0 .. MaxCuts
  BY <1>0, ConstantFacts DEF PowerCut, KeysTypeOK
<1>2. CASE link_keys' = keys_file /\ spoilt' = [spoilt EXCEPT !.ram = spoilt.file]
  <2>1. /\ spoilt'.ram = spoilt.file /\ spoilt'.file = spoilt.file
        /\ spoilt' \in [ram : SUBSET Remotes, file : SUBSET Remotes]
    BY <1>0, <1>2
  <2>2. KeysTypeOK'
    BY <1>0, <1>1, <1>2, <2>1 DEF KeysTypeOK
  <2> QED
    BY <1>0, <1>1, <1>2, <2>1, <2>2 DEF KeysInv
<1>3. CASE link_keys' = BlankKeys /\ spoilt' = [spoilt EXCEPT !.ram = {}]
  <2>1. /\ spoilt'.ram = {} /\ spoilt'.file = spoilt.file
        /\ spoilt' \in [ram : SUBSET Remotes, file : SUBSET Remotes]
    BY <1>0, <1>3
  <2>2. KeysTypeOK'
    BY <1>0, <1>1, <1>3, <2>1, BlankFact DEF KeysTypeOK
  <2>3. OnePerDevice(BlankKeys) /\ Newest(BlankKeys, latest, {})
    BY BlankFact, ConstantFacts DEF OnePerDevice, Newest
  <2> QED
    BY <1>0, <1>1, <1>3, <2>1, <2>2, <2>3 DEF KeysInv
<1> QED
  BY <1>2, <1>3 DEF PowerCut

\* At the start there is no key.
LEMMA InitHolds == KeysInit => KeysInv
<1> SUFFICES ASSUME KeysInit PROVE KeysInv
  OBVIOUS
<1>1. /\ link_keys = BlankKeys /\ keys_file = BlankKeys
      /\ latest = [d \in Remotes |-> 0] /\ made = 0 /\ cuts = 0
      /\ spoilt.ram = {} /\ spoilt.file = {}
      /\ spoilt \in [ram : SUBSET Remotes, file : SUBSET Remotes]
  BY DEF KeysInit
<1>2. KeysTypeOK
  BY <1>1, BlankFact, ConstantFacts DEF KeysTypeOK
<1>3. OnePerDevice(BlankKeys) /\ Newest(BlankKeys, latest, {})
  BY BlankFact, ConstantFacts DEF OnePerDevice, Newest
<1> QED
  BY <1>1, <1>2, <1>3 DEF KeysInv

THEOREM Invariant == KeysSpec => []KeysInv
<1>1. KeysInv /\ [KeysNext]_keyvars => KeysInv'
  <2>1. ASSUME KeysInv, UNCHANGED keyvars PROVE KeysInv'
    BY <2>1 DEF keyvars, KeysInv, KeysTypeOK
  <2> QED
    BY <2>1, NotifyKeeps, CutKeeps DEF KeysNext
<1> QED
  BY <1>1, InitHolds, PTL DEF KeysSpec

(***************************************************************************)
(* A controller is answered with its newest key or with none, after any    *)
(* renewals, stores that are cut short or fail, and losses of power, but   *)
(* for one of which the file was left with an old key or half a key        *)
(* (bt_host_store_link_key, bt_host_store_keys_on_file,                    *)
(* bt_host_load_link_key, bt_host_load_keys_from_file).                    *)
(***************************************************************************)
THEOREM NewestOrNone == KeysSpec => []NewestKeyOrNone
<1>1. KeysInv => NewestKeyOrNone
  <2> SUFFICES ASSUME KeysInv PROVE NewestKeyOrNone
    OBVIOUS
  <2>1. link_keys \in KeyArray /\ OnePerDevice(link_keys) /\ Newest(link_keys, latest, spoilt.ram)
    BY DEF KeysInv, KeysTypeOK
  <2>2. ASSUME NEW d \in Remotes \ spoilt.ram, Having(link_keys, d) # {}
        PROVE  Find(link_keys, d).key = latest[d]
    BY <2>1, <2>2, LastFact DEF Find, Newest
  <2> QED
    BY <2>1, <2>2 DEF NewestKeyOrNone, OnePerDevice
<1> QED
  BY <1>1, Invariant, PTL

-----------------------------------------------------------------------------
(***************************************************************************)
(* SmpPairing, for any number of slots, controllers, pairings and errors   *)
(* and rings of any length.  As long as no command failed, the commands of *)
(* one kind and the entries of its ring go together (Pairing): the lemmas  *)
(* say so of the operations on the two.                                    *)
(***************************************************************************)

LEMMA HeadAndTail ==
    ASSUME NEW S, NEW q \in Seq(S), q # <<>>
    PROVE  /\ Len(q) \in Nat /\ Len(q) >= 1 /\ Head(q) = q[1] /\ Head(q) \in S
           /\ Tail(q) \in Seq(S) /\ Len(Tail(q)) = Len(q) - 1
           /\ \A i \in 1 .. Len(q) - 1 : Tail(q)[i] = q[i + 1]
  OBVIOUS

LEMMA Added ==
    ASSUME NEW S, NEW q \in Seq(S), NEW e \in S
    PROVE  /\ Append(q, e) \in Seq(S) /\ Len(Append(q, e)) = Len(q) + 1 /\ Len(q) \in Nat
           /\ Append(q, e)[Len(q) + 1] = e
           /\ \A i \in 1 .. Len(q) : Append(q, e)[i] = q[i]
  OBVIOUS

\* The answer to a command is for the head of its ring, ...
LEMMA MatchedTaken ==
    ASSUME NEW S, NEW T, NEW q \in Seq(S), NEW c \in Seq(T), NEW op, NEW Fits,
           Pairing(q, c, op, Fits), c # <<>>, Head(c).op = op
    PROVE  /\ q # <<>> /\ <<Head(q), Head(c)>> \in Fits
           /\ Pairing(Tail(q), Tail(c), op, Fits)
<1>1. PICK f \in [1 .. Len(q) -> 1 .. Len(c)] :
        /\ \A i, j \in 1 .. Len(q) : i < j => f[i] < f[j]
        /\ \A k \in 1 .. Len(c) : c[k].op = op => \E i \in 1 .. Len(q) : f[i] = k
        /\ \A i \in 1 .. Len(q) : c[f[i]].op = op /\ <<q[i], c[f[i]]>> \in Fits
  BY DEF Pairing
<1>2. /\ Len(c) \in Nat /\ Len(c) >= 1 /\ Head(c) = c[1]
      /\ Len(Tail(c)) = Len(c) - 1 /\ \A i \in 1 .. Len(c) - 1 : Tail(c)[i] = c[i + 1]
  BY HeadAndTail
<1>3. PICK m \in 1 .. Len(q) : f[m] = 1
  BY <1>1, <1>2
<1>4. Len(q) \in Nat /\ q # <<>> /\ f[1] = 1
  <2>1. Len(q) \in Nat
    OBVIOUS
  <2>2. Len(q) >= 1 /\ m \in Int /\ 1 \in 1 .. Len(q) /\ f[1] \in 1 .. Len(c)
    BY <1>1, <1>3, <2>1
  <2>3. m = 1 \/ 1 < m
    BY <1>3, <2>2
  <2>4. CASE 1 < m
    <3>1. f[1] < 1
      BY <1>1, <1>3, <2>2, <2>4
    <3> QED
      BY <2>2, <3>1
  <2> QED
    BY <1>3, <2>1, <2>2, <2>3, <2>4
<1>5. /\ Len(q) >= 1 /\ Head(q) = q[1]
      /\ Len(Tail(q)) = Len(q) - 1 /\ \A i \in 1 .. Len(q) - 1 : Tail(q)[i] = q[i + 1]
  BY <1>4, HeadAndTail
<1>6. \A i \in 1 .. Len(q) - 1 : f[i + 1] > 1 /\ f[i + 1] \in 1 .. Len(c) /\ i + 1 \in 1 .. Len(q)
  BY <1>1, <1>4, <1>5
<1> DEFINE g == [i \in 1 .. Len(q) - 1 |-> f[i + 1] - 1]
<1>7. \A i \in 1 .. Len(q) - 1 : g[i] = f[i + 1] - 1 /\ g[i] \in 1 .. Len(c) - 1 /\ g[i] + 1 = f[i + 1]
  BY <1>2, <1>6
<1>8. g \in [1 .. Len(Tail(q)) -> 1 .. Len(Tail(c))]
  BY <1>2, <1>5, <1>7
<1>9. \A i, j \in 1 .. Len(Tail(q)) : i < j => g[i] < g[j]
  BY <1>1, <1>5, <1>6, <1>7
<1>10. ASSUME NEW k \in 1 .. Len(Tail(c)), Tail(c)[k].op = op
       PROVE  \E i \in 1 .. Len(Tail(q)) : g[i] = k
  <2>1. k + 1 \in 1 .. Len(c) /\ c[k + 1].op = op
    BY <1>2, <1>10
  <2>2. PICK i \in 1 .. Len(q) : f[i] = k + 1
    BY <1>1, <2>1
  <2>3. i # 1 /\ i - 1 \in 1 .. Len(q) - 1 /\ (i - 1) + 1 = i
    BY <1>2, <1>4, <2>2, <1>10
  <2>4. g[i - 1] = k
    BY <1>7, <2>2, <2>3, <1>2, <1>10
  <2> QED
    BY <1>5, <2>3, <2>4
<1>11. \A i \in 1 .. Len(Tail(q)) : Tail(c)[g[i]].op = op /\ <<Tail(q)[i], Tail(c)[g[i]]>> \in Fits
  BY <1>1, <1>2, <1>5, <1>6, <1>7
<1> HIDE DEF g
<1>12. Pairing(Tail(q), Tail(c), op, Fits)
  BY <1>8, <1>9, <1>10, <1>11 DEF Pairing
<1>13. <<Head(q), Head(c)>> \in Fits
  BY <1>1, <1>2, <1>4, <1>5
<1> QED
  BY <1>4, <1>12, <1>13

\* ... and not for any entry of the other one.
LEMMA OtherTaken ==
    ASSUME NEW S, NEW T, NEW q \in Seq(S), NEW c \in Seq(T), NEW op, NEW Fits,
           Pairing(q, c, op, Fits), c # <<>>, Head(c).op # op
    PROVE  Pairing(q, Tail(c), op, Fits)
<1>1. PICK f \in [1 .. Len(q) -> 1 .. Len(c)] :
        /\ \A i, j \in 1 .. Len(q) : i < j => f[i] < f[j]
        /\ \A k \in 1 .. Len(c) : c[k].op = op => \E i \in 1 .. Len(q) : f[i] = k
        /\ \A i \in 1 .. Len(q) : c[f[i]].op = op /\ <<q[i], c[f[i]]>> \in Fits
  BY DEF Pairing
<1>2. /\ Len(c) \in Nat /\ Len(c) >= 1 /\ Head(c) = c[1]
      /\ Len(Tail(c)) = Len(c) - 1 /\ \A i \in 1 .. Len(c) - 1 : Tail(c)[i] = c[i + 1]
  BY HeadAndTail
<1> DEFINE g == [i \in 1 .. Len(q) |-> f[i] - 1]
<1>3. ASSUME NEW i \in 1 .. Len(q)
      PROVE  g[i] = f[i] - 1 /\ g[i] \in 1 .. Len(c) - 1 /\ g[i] + 1 = f[i] /\ f[i] \in 1 .. Len(c)
  <2>1. f[i] \in 1 .. Len(c) /\ f[i] # 1
    BY <1>1, <1>2
  <2> QED
    BY <1>2, <2>1
<1>4. g \in [1 .. Len(q) -> 1 .. Len(Tail(c))]
  BY <1>2, <1>3
<1>5. \A i, j \in 1 .. Len(q) : i < j => g[i] < g[j]
  BY <1>1, <1>3
<1>6. ASSUME NEW k \in 1 .. Len(Tail(c)), Tail(c)[k].op = op
      PROVE  \E i \in 1 .. Len(q) : g[i] = k
  <2>1. k + 1 \in 1 .. Len(c) /\ c[k + 1].op = op
    BY <1>2, <1>6
  <2>2. PICK i \in 1 .. Len(q) : f[i] = k + 1
    BY <1>1, <2>1
  <2>3. g[i] = k
    BY <1>3, <2>2, <1>2, <1>6
  <2> QED
    BY <2>3
<1>7. \A i \in 1 .. Len(q) : Tail(c)[g[i]].op = op /\ <<q[i], Tail(c)[g[i]]>> \in Fits
  BY <1>1, <1>2, <1>3
<1> HIDE DEF g
<1> QED
  BY <1>4, <1>5, <1>6, <1>7 DEF Pairing

LEMMA MatchedAdded ==
    ASSUME NEW S, NEW T, NEW q \in Seq(S), NEW c \in Seq(T), NEW op, NEW Fits,
           Pairing(q, c, op, Fits), NEW e \in S, NEW d \in T, d.op = op, <<e, d>> \in Fits
    PROVE  Pairing(Append(q, e), Append(c, d), op, Fits)
<1>1. PICK f \in [1 .. Len(q) -> 1 .. Len(c)] :
        /\ \A i, j \in 1 .. Len(q) : i < j => f[i] < f[j]
        /\ \A k \in 1 .. Len(c) : c[k].op = op => \E i \in 1 .. Len(q) : f[i] = k
        /\ \A i \in 1 .. Len(q) : c[f[i]].op = op /\ <<q[i], c[f[i]]>> \in Fits
  BY DEF Pairing
<1> DEFINE p == Append(q, e)
           b == Append(c, d)
           n == Len(q) + 1
           m == Len(c) + 1
           g == [i \in 1 .. n |-> IF i = n THEN m ELSE f[i]]
<1>2. /\ Len(q) \in Nat /\ Len(p) = n /\ p[n] = e /\ \A i \in 1 .. Len(q) : p[i] = q[i]
      /\ Len(c) \in Nat /\ Len(b) = m /\ b[m] = d /\ \A i \in 1 .. Len(c) : b[i] = c[i]
  BY Added
<1> HIDE DEF p, b
<1>a. /\ n \in 1 .. n /\ m \in 1 .. m
      /\ \A i \in 1 .. n : i = n \/ (i \in 1 .. Len(q) /\ i < n)
      /\ \A k \in 1 .. m : k = m \/ (k \in 1 .. Len(c) /\ k < m)
      /\ \A i \in 1 .. Len(q) : i \in 1 .. n /\ i # n
  BY <1>2
<1>b. \A i \in 1 .. Len(q) : f[i] \in 1 .. Len(c)
  BY <1>1
<1>c. \A k \in 1 .. Len(c) : k \in 1 .. m /\ k < m
  BY <1>2
<1>3. /\ g[n] = m /\ n \in 1 .. n /\ m \in 1 .. m
      /\ \A i \in 1 .. Len(q) : g[i] = f[i] /\ f[i] \in 1 .. Len(c) /\ f[i] \in 1 .. m /\ f[i] < m
      /\ \A i \in 1 .. n : i = n \/ (i \in 1 .. Len(q) /\ i < n)
      /\ \A k \in 1 .. m : k = m \/ (k \in 1 .. Len(c) /\ k < m)
  BY <1>a, <1>b, <1>c
<1>4. g \in [1 .. n -> 1 .. m]
  BY <1>2, <1>3
<1> HIDE DEF g
<1>5. ASSUME NEW i \in 1 .. n, NEW j \in 1 .. n, i < j PROVE g[i] < g[j]
  <2>1. i \in 1 .. Len(q) /\ i \in Int /\ j \in Int
    BY <1>2, <1>5
  <2>2. CASE j = n
    BY <1>3, <2>1, <2>2
  <2>3. CASE j \in 1 .. Len(q)
    BY <1>1, <1>3, <1>5, <2>1, <2>3
  <2> QED
    BY <1>3, <2>2, <2>3
<1> HIDE DEF n, m
<1>6. ASSUME NEW k \in 1 .. m, b[k].op = op PROVE \E i \in 1 .. n : g[i] = k
  <2>1. CASE k = m
    BY <1>3, <2>1
  <2>2. CASE k \in 1 .. Len(c)
    <3>1. PICK i \in 1 .. Len(q) : f[i] = k
      BY <1>1, <1>2, <1>6, <2>2
    <3>2. i \in 1 .. n
      BY <1>2 DEF n
    <3> QED
      BY <1>3, <3>1, <3>2
  <2> QED
    BY <1>3, <2>1, <2>2
<1>7. ASSUME NEW i \in 1 .. n PROVE b[g[i]].op = op /\ <<p[i], b[g[i]]>> \in Fits
  <2>1. CASE i = n
    BY <1>2, <1>3, <2>1
  <2>2. CASE i \in 1 .. Len(q)
    <3>1. g[i] = f[i] /\ f[i] \in 1 .. Len(c) /\ p[i] = q[i]
      BY <1>2, <1>3, <2>2
    <3>2. b[f[i]] = c[f[i]] /\ c[f[i]].op = op /\ <<q[i], c[f[i]]>> \in Fits
      BY <1>1, <1>2, <2>2, <3>1
    <3> QED
      BY <3>1, <3>2
  <2> QED
    BY <1>3, <2>1, <2>2
<1>8. Pairing(p, b, op, Fits)
  BY <1>2, <1>4, <1>5, <1>6, <1>7 DEF Pairing
<1> QED
  BY <1>8 DEF p, b

LEMMA OtherAdded ==
    ASSUME NEW S, NEW T, NEW q \in Seq(S), NEW c \in Seq(T), NEW op, NEW Fits,
           Pairing(q, c, op, Fits), NEW d \in T, d.op # op
    PROVE  Pairing(q, Append(c, d), op, Fits)
<1>1. PICK f \in [1 .. Len(q) -> 1 .. Len(c)] :
        /\ \A i, j \in 1 .. Len(q) : i < j => f[i] < f[j]
        /\ \A k \in 1 .. Len(c) : c[k].op = op => \E i \in 1 .. Len(q) : f[i] = k
        /\ \A i \in 1 .. Len(q) : c[f[i]].op = op /\ <<q[i], c[f[i]]>> \in Fits
  BY DEF Pairing
<1> DEFINE b == Append(c, d)
<1>2. /\ Len(c) \in Nat /\ Len(b) = Len(c) + 1 /\ b[Len(c) + 1] = d
      /\ \A i \in 1 .. Len(c) : b[i] = c[i]
  BY Added
<1> HIDE DEF b
<1>a. \A k \in 1 .. Len(c) : k \in 1 .. Len(b)
  BY <1>2
<1>b. \A i \in 1 .. Len(q) : f[i] \in 1 .. Len(c)
  OBVIOUS
<1>3. f \in [1 .. Len(q) -> 1 .. Len(b)] /\ \A i \in 1 .. Len(q) : f[i] \in 1 .. Len(c)
  BY <1>a, <1>b
<1>4. \A k \in 1 .. Len(b) : b[k].op = op => k \in 1 .. Len(c)
  BY <1>2
<1>5. \A k \in 1 .. Len(b) : b[k].op = op => \E i \in 1 .. Len(q) : f[i] = k
  BY <1>1, <1>2, <1>4
<1>6. \A i \in 1 .. Len(q) : b[f[i]].op = op /\ <<q[i], b[f[i]]>> \in Fits
  BY <1>1, <1>2, <1>3
<1>7. Pairing(q, b, op, Fits)
  BY <1>1, <1>3, <1>5, <1>6 DEF Pairing
<1> QED
  BY <1>7 DEF b

\* What fits is judged anew.
LEMMA FitsKept ==
    ASSUME NEW S, NEW T, NEW q \in Seq(S), NEW c \in Seq(T), NEW op, NEW Fits, NEW Now,
           Pairing(q, c, op, Fits),
           \A i \in 1 .. Len(q), k \in 1 .. Len(c) : <<q[i], c[k]>> \in Fits => <<q[i], c[k]>> \in Now
    PROVE  Pairing(q, c, op, Now)
  BY DEF Pairing

-----------------------------------------------------------------------------
(* The array of the LE keys, whose entries have two parts.                 *)

LEMMA LeLastFact ==
    ASSUME NEW a \in LeKeyArray, OnePerDevice(a), NEW d \in Remotes, Having(a, d) # {}
    PROVE  /\ LastOf(Having(a, d)) \in Entries
           /\ Having(a, d) = {LastOf(Having(a, d))}
           /\ a.keys[LastOf(Having(a, d))].dev = d
<1>1. PICK n \in Entries : a.keys[n].dev = d
  BY DEF Having
<1>2. Having(a, d) = {n}
  BY <1>1, ConstantFacts DEF OnePerDevice, Having
<1>3. n \in Int
  BY DEF Entries
<1>4. LastOf({n}) = n
  BY <1>3 DEF LastOf
<1> QED
  BY <1>1, <1>2, <1>4

\* Where a part of a key goes: to the entry of its device, or to one that is given up for it.
LEMMA IndexFact ==
    ASSUME NEW a \in LeKeyArray, OnePerDevice(a), NEW d \in Remotes
    PROVE  /\ IndexOf(a, d) \in Entries /\ Moved(a, IndexOf(a, d)) \in Entries
           /\ \A n \in Entries : n # IndexOf(a, d) => a.keys[n].dev # d
           /\ Having(a, d) # {} => a.keys[IndexOf(a, d)].dev = d
<1> DEFINE i == IndexOf(a, d)
<1>1. /\ i \in Entries /\ \A n \in Entries : n # i => a.keys[n].dev # d
      /\ Having(a, d) # {} => a.keys[i].dev = d
  <2>1. CASE Having(a, d) = {}
    <3>1. i = a.index
      BY <2>1 DEF IndexOf
    <3> QED
      BY <2>1, <3>1 DEF Having, LeKeyArray
  <2>2. CASE Having(a, d) # {}
    <3>1. i = LastOf(Having(a, d))
      BY <2>2 DEF IndexOf
    <3>2. i \in Entries /\ Having(a, d) = {i} /\ a.keys[i].dev = d
      BY <2>2, <3>1, LeLastFact
    <3> QED
      BY <3>2 DEF Having
  <2> QED
    BY <2>1, <2>2
<1> HIDE DEF i
<1>2. Moved(a, i) \in Entries
  BY <1>1, ConstantFacts DEF Moved, LeKeyArray, Entries
<1> QED
  BY <1>1, <1>2 DEF i

\* What a part that is stored makes of the entries.
LEMMA LePut ==
    ASSUME NEW a \in LeKeyArray, OnePerDevice(a), NEW d \in Remotes, NEW k \in 0 .. MaxTries,
           NEW part \in {"key", "ident"}
    PROVE  LET b == Put(a, d, part, k)
               i == IndexOf(a, d)
           IN /\ b \in LeKeyArray /\ OnePerDevice(b) /\ i \in Entries
              /\ b.keys[i].dev = d
              /\ part = "key" => b.keys[i].key = k /\ b.keys[i].ident = a.keys[i].ident
              /\ part = "ident" => b.keys[i].ident = k /\ b.keys[i].key = a.keys[i].key
              /\ \A n \in Entries : n # i => b.keys[n] = a.keys[n] /\ b.keys[n].dev # d
              /\ Having(b, d) # {}
<1> DEFINE i == IndexOf(a, d)
           b == Put(a, d, part, k)
<1>1. /\ i \in Entries /\ Moved(a, i) \in Entries
      /\ \A n \in Entries : n # i => a.keys[n].dev # d
  BY IndexFact
<1> HIDE DEF i
<1>2. b = [index |-> Moved(a, i),
           keys  |-> [a.keys EXCEPT ![i] = [[a.keys[i] EXCEPT ![part] = k] EXCEPT !.dev = d]]]
  BY DEF Put, i
<1> HIDE DEF b
<1> DEFINE Entry == [dev : Remotes \cup {NOBODY}, key : 0 .. MaxTries, ident : 0 .. MaxTries]
           e == [[a.keys[i] EXCEPT ![part] = k] EXCEPT !.dev = d]
<1>3. a.keys[i] \in Entry /\ a.keys \in [Entries -> Entry]
  BY <1>1 DEF LeKeyArray
<1>4. /\ e \in Entry /\ e.dev = d
      /\ part = "key" => e.key = k /\ e.ident = a.keys[i].ident
      /\ part = "ident" => e.ident = k /\ e.key = a.keys[i].key
  <2>1. CASE part = "key"
    <3>1. [a.keys[i] EXCEPT !["key"] = k] \in Entry
      BY <1>3
    <3> QED
      BY <1>3, <2>1, <3>1
  <2>2. CASE part = "ident"
    <3>1. [a.keys[i] EXCEPT !["ident"] = k] \in Entry
      BY <1>3
    <3> QED
      BY <1>3, <2>2, <3>1
  <2> QED
    BY <2>1, <2>2
<1>5. b.index = Moved(a, i) /\ b.keys = [a.keys EXCEPT ![i] = e]
  BY <1>2
<1> HIDE DEF e
<1>6. b.keys \in [Entries -> Entry] /\ b.keys[i] = e /\ \A n \in Entries : n # i => b.keys[n] = a.keys[n]
  BY <1>1, <1>3, <1>4, <1>5
<1>7. b \in LeKeyArray
  BY <1>1, <1>2, <1>5, <1>6 DEF LeKeyArray
<1>8. OnePerDevice(b)
  <2> SUFFICES ASSUME NEW m \in Entries, NEW n \in Entries, b.keys[m].dev = b.keys[n].dev, m # n
               PROVE  b.keys[m].dev = NOBODY
    BY DEF OnePerDevice
  <2>1. CASE m = i \/ n = i
    BY <1>1, <1>4, <1>6, <2>1
  <2>2. CASE m # i /\ n # i
    BY <1>6, <2>2 DEF OnePerDevice
  <2> QED
    BY <2>1, <2>2
<1>9. Having(b, d) # {}
  BY <1>1, <1>4, <1>6 DEF Having
<1>10. /\ b \in LeKeyArray /\ OnePerDevice(b) /\ i \in Entries
       /\ b.keys[i].dev = d
       /\ part = "key" => b.keys[i].key = k /\ b.keys[i].ident = a.keys[i].ident
       /\ part = "ident" => b.keys[i].ident = k /\ b.keys[i].key = a.keys[i].key
       /\ \A n \in Entries : n # i => b.keys[n] = a.keys[n] /\ b.keys[n].dev # d
       /\ Having(b, d) # {}
  BY <1>1, <1>4, <1>6, <1>7, <1>8, <1>9
<1> QED
  BY <1>10 DEF b, i

\* The first part, ...
LEMMA LePutKey ==
    ASSUME NEW a \in LeKeyArray, OnePerDevice(a), NEW d \in Remotes, NEW k \in 0 .. MaxTries
    PROVE  /\ IndexOf(a, d) \in Entries
           /\ Put(a, d, "key", k).keys[IndexOf(a, d)].dev = d
           /\ Put(a, d, "key", k).keys[IndexOf(a, d)].key = k
           /\ \A n \in Entries : n # IndexOf(a, d) =>
                 Put(a, d, "key", k).keys[n] = a.keys[n] /\ Put(a, d, "key", k).keys[n].dev # d
           /\ Having(Put(a, d, "key", k), d) # {}
<1>0. "key" \in {"key", "ident"}
  OBVIOUS
<1>1. IndexOf(a, d) \in Entries
  BY LePut, <1>0
<1>2. Put(a, d, "key", k).keys[IndexOf(a, d)].dev = d
  BY LePut, <1>0
<1>3. Put(a, d, "key", k).keys[IndexOf(a, d)].key = k
  BY LePut, <1>0
<1>4. \A n \in Entries : n # IndexOf(a, d) =>
                 Put(a, d, "key", k).keys[n] = a.keys[n] /\ Put(a, d, "key", k).keys[n].dev # d
  BY LePut, <1>0
<1>5. Having(Put(a, d, "key", k), d) # {}
  BY LePut
<1> QED BY <1>1, <1>2, <1>3, <1>4, <1>5

\* ... and the second.
LEMMA LePutIdent ==
    ASSUME NEW a \in LeKeyArray, OnePerDevice(a), NEW d \in Remotes, NEW k \in 0 .. MaxTries
    PROVE  /\ IndexOf(a, d) \in Entries
           /\ Put(a, d, "ident", k).keys[IndexOf(a, d)].dev = d
           /\ Put(a, d, "ident", k).keys[IndexOf(a, d)].ident = k
           /\ Put(a, d, "ident", k).keys[IndexOf(a, d)].key = a.keys[IndexOf(a, d)].key
           /\ \A n \in Entries : n # IndexOf(a, d) =>
                 Put(a, d, "ident", k).keys[n] = a.keys[n] /\ Put(a, d, "ident", k).keys[n].dev # d
           /\ Having(Put(a, d, "ident", k), d) # {}
<1>0. "ident" \in {"key", "ident"}
  OBVIOUS
<1>1. IndexOf(a, d) \in Entries
  BY LePut, <1>0
<1>2. Put(a, d, "ident", k).keys[IndexOf(a, d)].dev = d
  BY LePut, <1>0
<1>3. /\ Put(a, d, "ident", k).keys[IndexOf(a, d)].ident = k
      /\ Put(a, d, "ident", k).keys[IndexOf(a, d)].key = a.keys[IndexOf(a, d)].key
  BY LePut, <1>0
<1>4. \A n \in Entries : n # IndexOf(a, d) =>
                 Put(a, d, "ident", k).keys[n] = a.keys[n] /\ Put(a, d, "ident", k).keys[n].dev # d
  BY LePut, <1>0
<1>5. Having(Put(a, d, "ident", k), d) # {}
  BY LePut
<1> QED BY <1>1, <1>2, <1>3, <1>4, <1>5

-----------------------------------------------------------------------------
(* Types.                                                                  *)

LEMMA SmpFacts ==
    /\ RingLen \in Nat /\ MaxTries \in Nat /\ MaxErrors \in Nat /\ 0 \in 0 .. MaxTries
    /\ NO_VALUE \in Value /\ BlankMem \in Mem
    /\ BlankMem.pres = 0 /\ BlankMem.rand = <<0, 0>> /\ ENC_KEY = 1
    /\ BlankKeys \in LeKeyArray /\ OnePerDevice(BlankKeys) /\ \A d \in Remotes : Having(BlankKeys, d) = {}
    /\ \A i \in Entries : BlankKeys.keys[i].dev = NOBODY
<1>1. RingLen \in Nat /\ MaxTries \in Nat /\ MaxErrors \in Nat /\ 0 \in 0 .. MaxTries /\ ENC_KEY = 1
  BY SmpAssumption DEF ENC_KEY
<1>2. NO_VALUE \in Value
  BY <1>1 DEF NO_VALUE, Value
<1>3. BlankMem \in Mem /\ BlankMem.pres = 0 /\ BlankMem.rand = <<0, 0>>
  BY <1>1, <1>2 DEF BlankMem, Mem
<1>4. \A i \in Entries : BlankKeys.keys[i] = BlankKey /\ BlankKey.dev = NOBODY
  BY BlankFact
<1>5. BlankKeys \in LeKeyArray
  BY <1>1, ConstantFacts DEF BlankKeys, BlankKey, LeKeyArray
<1> QED
  BY <1>1, <1>2, <1>3, <1>4, <1>5, ConstantFacts DEF OnePerDevice, Having

\* What a command holds.
LEMMA CommandFields ==
    /\ \A c \in Command : /\ c.value \in Value /\ c.op \in {"rand", "encrypt", "start"}
                          /\ c.op = "start" => c.slot \in Slots /\ c.of \in 0 .. MaxTries
    /\ \A v \in Value : /\ [op |-> "rand", value |-> v] \in Command
                        /\ [op |-> "encrypt", value |-> v] \in Command
    /\ \A v \in Value, s \in Slots, t \in 0 .. MaxTries :
          [op |-> "start", slot |-> s, of |-> t, value |-> v] \in Command
<1>1. \A c \in Command : \/ c \in [op : {"rand", "encrypt"}, value : Value]
                         \/ c \in [op : {"start"}, slot : Slots, of : 0 .. MaxTries, value : Value]
  BY DEF Command
<1>2. \A c \in Command : /\ c.value \in Value /\ c.op \in {"rand", "encrypt", "start"}
                         /\ c.op = "start" => c.slot \in Slots /\ c.of \in 0 .. MaxTries
  BY <1>1
<1>3. \A v \in Value : /\ [op |-> "rand", value |-> v] \in Command
                       /\ [op |-> "encrypt", value |-> v] \in Command
  BY DEF Command
<1>4. \A v \in Value, s \in Slots, t \in 0 .. MaxTries :
          [op |-> "start", slot |-> s, of |-> t, value |-> v] \in Command
  BY DEF Command
<1> QED
  BY <1>2, <1>3, <1>4

LEMMA PairFact ==
    ASSUME NEW r \in (0 .. MaxTries) \X (0 .. MaxTries), NEW v \in 0 .. MaxTries
    PROVE  /\ [r EXCEPT ![1] = v] = <<v, r[2]>> /\ [r EXCEPT ![2] = v] = <<r[1], v>>
           /\ r = <<r[1], r[2]>> /\ r[1] \in 0 .. MaxTries /\ r[2] \in 0 .. MaxTries
  OBVIOUS

\* The fields of a struct bt_dev, stored one by one.
LEMMA MemFields ==
    ASSUME NEW m \in Mem
    PROVE  /\ m.pres \in 0 .. MaxTries /\ m.rand \in (0 .. MaxTries) \X (0 .. MaxTries)
           /\ m.ltk \in Value /\ m.rdist \in {0, ENC_KEY}
           /\ \A v \in Value : LET n == [m EXCEPT !.ltk = v]
                               IN n \in Mem /\ n.pres = m.pres /\ n.rand = m.rand
           /\ \A r \in {0, ENC_KEY} : LET n == [m EXCEPT !.rdist = r]
                                      IN n \in Mem /\ n.pres = m.pres /\ n.rand = m.rand
           /\ \A v \in 0 .. MaxTries :
                 LET n == [m EXCEPT !.rand[1] = v]
                 IN n \in Mem /\ n.pres = m.pres /\ n.rand = <<v, m.rand[2]>>
<1>1. /\ m.pres \in 0 .. MaxTries /\ m.rand \in (0 .. MaxTries) \X (0 .. MaxTries)
      /\ m.ltk \in Value /\ m.rdist \in {0, ENC_KEY}
  BY DEF Mem
<1>2. \A v \in Value : LET n == [m EXCEPT !.ltk = v]
                       IN n \in Mem /\ n.pres = m.pres /\ n.rand = m.rand
  BY DEF Mem
<1>3. \A r \in {0, ENC_KEY} : LET n == [m EXCEPT !.rdist = r]
                              IN n \in Mem /\ n.pres = m.pres /\ n.rand = m.rand
  BY DEF Mem
<1>5. ASSUME NEW v \in 0 .. MaxTries
      PROVE  LET n == [m EXCEPT !.rand[1] = v]
             IN n \in Mem /\ n.pres = m.pres /\ n.rand = <<v, m.rand[2]>>
  <2>1. [m.rand EXCEPT ![1] = v] = <<v, m.rand[2]>> /\ m.rand[2] \in 0 .. MaxTries
    BY <1>1, PairFact
  <2>2. [m EXCEPT !.rand[1] = v] = [m EXCEPT !.rand = [m.rand EXCEPT ![1] = v]]
    BY DEF Mem
  <2>3. <<v, m.rand[2]>> \in (0 .. MaxTries) \X (0 .. MaxTries)
    BY <2>1
  <2> QED
    BY <2>1, <2>2, <2>3 DEF Mem
<1> QED
  BY <1>1, <1>2, <1>3, <1>5

LEMMA MemRest ==
    ASSUME NEW m \in Mem, NEW v \in 0 .. MaxTries, NEW c \in Value
    PROVE  LET n == [m EXCEPT !.rand[2] = v, !.ltk = c]
           IN n \in Mem /\ n.pres = m.pres /\ n.rand = <<m.rand[1], v>>
<1>1. m.rand \in (0 .. MaxTries) \X (0 .. MaxTries)
  BY DEF Mem
<1>2. [m.rand EXCEPT ![2] = v] = <<m.rand[1], v>> /\ m.rand[1] \in 0 .. MaxTries
  BY <1>1, PairFact
<1>3. [m EXCEPT !.rand[2] = v, !.ltk = c] = [m EXCEPT !.rand = [m.rand EXCEPT ![2] = v], !.ltk = c]
  BY DEF Mem
<1>4. <<m.rand[1], v>> \in (0 .. MaxTries) \X (0 .. MaxTries)
  BY <1>2
<1> QED
  BY <1>2, <1>3, <1>4 DEF Mem

LEMMA MemStart ==
    ASSUME NEW m \in Mem, NEW t \in 0 .. MaxTries, NEW r \in {0, ENC_KEY}
    PROVE  LET n == [m EXCEPT !.pres = t, !.rdist = r]
           IN n \in Mem /\ n.pres = t /\ n.rand = m.rand
  BY DEF Mem

-----------------------------------------------------------------------------
(* What the two ways to ask do to the rings.                               *)

LEMMA GetEncryptEffect ==
    ASSUME SmpTypeOK, NEW s \in Slots, NEW cb \in {"confirm_half", "confirm_complete", "stk_complete"},
           NEW v \in Value, GetEncrypt(s, cb, v)
    PROVE  /\ encryptq' \in Seq(EncryptEntry) /\ Len(encryptq') <= RingLen
           /\ ctrl' \in Seq(Command)
           /\ \/ encryptq' = encryptq /\ ctrl' = ctrl
              \/ /\ encryptq' = Append(encryptq, [slot |-> s, cb |-> cb])
                 /\ ctrl' = Append(ctrl, [op |-> "encrypt", value |-> v])
<1> DEFINE e == [slot |-> s, cb |-> cb]
           c == [op |-> "encrypt", value |-> v]
<1>1. /\ encryptq \in Seq(EncryptEntry) /\ Len(encryptq) <= RingLen /\ ctrl \in Seq(Command)
      /\ RingLen \in Nat
  BY SmpFacts DEF SmpTypeOK
<1>2. e \in EncryptEntry /\ c \in Command
  BY CommandFields DEF EncryptEntry
<1>3. CASE Len(encryptq) < RingLen
  <2>1. encryptq' = Append(encryptq, e) /\ ctrl' = Append(ctrl, c)
    BY <1>3 DEF GetEncrypt
  <2> HIDE DEF e, c
  <2>2. /\ encryptq' \in Seq(EncryptEntry) /\ Len(encryptq') = Len(encryptq) + 1 /\ Len(encryptq) \in Nat
        /\ ctrl' \in Seq(Command)
    BY <1>1, <1>2, <2>1, Added
  <2> QED
    BY <1>1, <1>3, <2>1, <2>2 DEF e, c
<1>4. CASE ~(Len(encryptq) < RingLen)
  BY <1>1, <1>4 DEF GetEncrypt
<1> QED
  BY <1>3, <1>4

\* Without trouble both halves are asked for.
LEMMA GetRandomTwiceEffect ==
    ASSUME SmpTypeOK, NEW s \in Slots, GetRandomTwice(s)
    PROVE  LET r == [op |-> "rand", value |-> [rand |-> <<try[s], try[s]>>, of |-> 0]]
               h == [slot |-> s, cb |-> "mrand_half"]
               c == [slot |-> s, cb |-> "mrand_complete"]
           IN /\ randq' \in Seq(RandEntry) /\ Len(randq') <= RingLen
              /\ ctrl' \in Seq(Command)
              /\ trouble' = trouble \/ trouble' = trouble \cup {"full"}
              /\ r \in Command /\ h \in RandEntry /\ c \in RandEntry
              /\ trouble' = {} => /\ randq' = Append(Append(randq, h), c)
                                  /\ ctrl' = Append(Append(ctrl, r), r)
<1> DEFINE r == [op |-> "rand", value |-> [rand |-> <<try[s], try[s]>>, of |-> 0]]
           h == [slot |-> s, cb |-> "mrand_half"]
           c == [slot |-> s, cb |-> "mrand_complete"]
           n == IF RingLen - Len(randq) < 2 THEN RingLen - Len(randq) ELSE 2
<1>1. /\ randq \in Seq(RandEntry) /\ Len(randq) <= RingLen /\ ctrl \in Seq(Command)
      /\ RingLen \in Nat /\ try[s] \in 0 .. MaxTries
  BY SmpFacts DEF SmpTypeOK
<1>2. [rand |-> <<try[s], try[s]>>, of |-> 0] \in Value
  BY <1>1, SmpFacts DEF Value
<1>3. r \in Command /\ h \in RandEntry /\ c \in RandEntry
  BY <1>2, CommandFields DEF RandEntry
<1> HIDE DEF r, h, c
<1>4. /\ randq' = randq \o SubSeq(<<h, c>>, 1, n)
      /\ trouble' = (IF n < 2 THEN trouble \cup {"full"} ELSE trouble)
      /\ ctrl' = ctrl \o [i \in 1 .. n |-> r]
  BY DEF GetRandomTwice, Halves, r, h, c
<1>5. n \in 0 .. 2 /\ Len(randq) \in Nat /\ n <= RingLen - Len(randq)
  BY <1>1
<1> HIDE DEF n
<1>6. SubSeq(<<h, c>>, 1, n) \in Seq(RandEntry) /\ Len(SubSeq(<<h, c>>, 1, n)) = n
  BY <1>3, <1>5
<1>7. [i \in 1 .. n |-> r] \in Seq(Command)
  BY <1>3, <1>5
<1>8. randq' \in Seq(RandEntry) /\ Len(randq') = Len(randq) + n /\ ctrl' \in Seq(Command)
  <2> DEFINE u == SubSeq(<<h, c>>, 1, n)
             w == [i \in 1 .. n |-> r]
  <2> HIDE DEF u, w
  <2>1. u \in Seq(RandEntry) /\ Len(u) = n /\ w \in Seq(Command)
    BY <1>6, <1>7 DEF u, w
  <2>2. randq \o u \in Seq(RandEntry) /\ Len(randq \o u) = Len(randq) + Len(u)
    BY <1>1, <2>1, ConcatProperties
  <2>3. ctrl \o w \in Seq(Command)
    BY <1>1, <2>1, ConcatProperties
  <2>4. randq' = randq \o u /\ ctrl' = ctrl \o w
    BY <1>4 DEF u, w
  <2> QED
    BY <2>1, <2>2, <2>3, <2>4
<1>9. ASSUME trouble' = {}
      PROVE  randq' = Append(Append(randq, h), c) /\ ctrl' = Append(Append(ctrl, r), r)
  <2>1. n = 2
    <3>1. "full" \notin trouble'
      BY <1>9
    <3>2. ~(n < 2)
      BY <1>4, <3>1
    <3> QED
      BY <1>5, <3>2
  <2>2. SubSeq(<<h, c>>, 1, 2) = <<h, c>>
    <3>1. <<h, c>> \in Seq({h, c}) /\ Len(<<h, c>>) = 2
      OBVIOUS
    <3>2. SubSeq(<<h, c>>, 1, Len(<<h, c>>)) = <<h, c>>
      BY <3>1, SubSeqFull
    <3> QED
      BY <3>1, <3>2
  <2>3. [i \in 1 .. 2 |-> r] = <<r, r>>
    OBVIOUS
  <2>4. randq \o <<h, c>> = Append(Append(randq, h), c)
    BY <1>1, <1>3
  <2>5. ctrl \o <<r, r>> = Append(Append(ctrl, r), r)
    BY <1>1, <1>3
  <2> QED
    BY <1>4, <2>1, <2>2, <2>3, <2>4, <2>5
<1>a. Len(randq') <= RingLen
  BY <1>1, <1>5, <1>8
<1>b. trouble' = trouble \/ trouble' = trouble \cup {"full"}
  BY <1>4
<1>10. /\ randq' \in Seq(RandEntry) /\ Len(randq') <= RingLen
       /\ ctrl' \in Seq(Command)
       /\ trouble' = trouble \/ trouble' = trouble \cup {"full"}
       /\ r \in Command /\ h \in RandEntry /\ c \in RandEntry
       /\ trouble' = {} => /\ randq' = Append(Append(randq, h), c)
                           /\ ctrl' = Append(Append(ctrl, r), r)
  BY <1>3, <1>8, <1>9, <1>a, <1>b
<1> QED
  BY <1>10 DEF r, h, c

\* Entries stay in a ring until they are at its head, ...
LEMMA LeftTaken ==
    ASSUME NEW E, NEW q \in Seq(E), q # <<>>, NEW s
    PROVE  /\ Awaits(Tail(q), s) => Awaits(q, s)
           /\ HalfFirst(q, s) => HalfFirst(Tail(q), s)
           /\ \A cb : Left(q, s, cb) => Left(Tail(q), s, cb) \/ (Head(q).slot = s /\ Head(q).cb = cb)
           /\ Head(q).slot = s => Awaits(q, s)
           /\ HalfFirst(q, s) /\ Head(q).slot = s /\ Head(q).cb = "mrand_complete"
                => ~Left(q, s, "mrand_half")
<1>1. /\ Len(q) \in Nat /\ Len(q) >= 1 /\ Head(q) = q[1] /\ Len(Tail(q)) = Len(q) - 1
      /\ \A i \in 1 .. Len(q) - 1 : Tail(q)[i] = q[i + 1]
  BY HeadAndTail
<1> DEFINE p == Tail(q)
<1> HIDE DEF p
<1>2. /\ Len(p) = Len(q) - 1 /\ 1 \in 1 .. Len(q)
      /\ \A i \in 1 .. Len(p) : i + 1 \in 1 .. Len(q) /\ p[i] = q[i + 1]
  BY <1>1 DEF p
<1>3. Awaits(p, s) => Awaits(q, s)
  BY <1>2 DEF Awaits
<1>4. ASSUME HalfFirst(q, s) PROVE HalfFirst(p, s)
  <2> SUFFICES ASSUME NEW i \in 1 .. Len(p), NEW j \in 1 .. Len(p),
                      p[i].slot = s, p[i].cb = "mrand_half", p[j].slot = s, p[j].cb = "mrand_complete"
               PROVE  i < j
    BY DEF HalfFirst
  <2>1. i + 1 < j + 1
    BY <1>2, <1>4 DEF HalfFirst
  <2> QED
    BY <2>1
<1>5. ASSUME NEW cb, Left(q, s, cb) PROVE Left(p, s, cb) \/ (Head(q).slot = s /\ Head(q).cb = cb)
  <2>1. PICK i \in 1 .. Len(q) : q[i].slot = s /\ q[i].cb = cb
    BY <1>5 DEF Left
  <2>2. CASE i = 1
    BY <1>1, <2>1, <2>2
  <2>3. CASE i # 1
    <3>1. i - 1 \in 1 .. Len(p) /\ (i - 1) + 1 = i
      BY <1>1, <1>2, <2>3
    <3>2. p[i - 1] = q[i]
      BY <1>2, <3>1
    <3> QED
      BY <2>1, <3>1, <3>2 DEF Left
  <2> QED
    BY <2>2, <2>3
<1>6. Head(q).slot = s => Awaits(q, s)
  BY <1>1, <1>2 DEF Awaits
<1>7. ASSUME HalfFirst(q, s), Head(q).slot = s, Head(q).cb = "mrand_complete", Left(q, s, "mrand_half")
      PROVE  FALSE
  <2>1. PICK i \in 1 .. Len(q) : q[i].slot = s /\ q[i].cb = "mrand_half"
    BY <1>7 DEF Left
  <2>2. i < 1
    BY <1>1, <1>2, <1>7, <2>1 DEF HalfFirst
  <2> QED
    BY <2>2
<1> QED
  BY <1>3, <1>4, <1>5, <1>6, <1>7 DEF p

\* ... and the two for a random value are added in order.
LEMMA LeftAdded ==
    ASSUME NEW E, NEW q \in Seq(E), NEW e \in E, NEW s
    PROVE  /\ Awaits(Append(q, e), s) => Awaits(q, s) \/ e.slot = s
           /\ \A cb : Left(q, s, cb) => Left(Append(q, e), s, cb)
           /\ Left(Append(q, e), e.slot, e.cb)
           /\ HalfFirst(q, s) /\ (e.slot # s \/ e.cb # "mrand_half" \/ ~Awaits(q, s))
                => HalfFirst(Append(q, e), s)
<1> DEFINE p == Append(q, e)
<1>1. /\ Len(q) \in Nat /\ Len(p) = Len(q) + 1 /\ p[Len(q) + 1] = e
      /\ \A i \in 1 .. Len(q) : p[i] = q[i]
  BY Added
<1> HIDE DEF p
<1>2. /\ \A i \in 1 .. Len(p) : i \in 1 .. Len(q) \/ i = Len(q) + 1
      /\ \A i \in 1 .. Len(q) : i \in 1 .. Len(p) /\ i < Len(q) + 1
      /\ Len(q) + 1 \in 1 .. Len(p)
  BY <1>1
<1>3. Awaits(p, s) => Awaits(q, s) \/ e.slot = s
  BY <1>1, <1>2 DEF Awaits
<1>4. \A cb : Left(q, s, cb) => Left(p, s, cb)
  BY <1>1, <1>2 DEF Left
<1>5. Left(p, e.slot, e.cb)
  BY <1>1, <1>2 DEF Left
<1>6. ASSUME HalfFirst(q, s), e.slot # s \/ e.cb # "mrand_half" \/ ~Awaits(q, s)
      PROVE  HalfFirst(p, s)
  <2> SUFFICES ASSUME NEW i \in 1 .. Len(p), NEW j \in 1 .. Len(p),
                      p[i].slot = s, p[i].cb = "mrand_half", p[j].slot = s, p[j].cb = "mrand_complete"
               PROVE  i < j
    BY DEF HalfFirst
  <2>1. CASE i \in 1 .. Len(q) /\ j \in 1 .. Len(q)
    BY <1>1, <1>6, <2>1 DEF HalfFirst
  <2>2. CASE i \in 1 .. Len(q) /\ j = Len(q) + 1
    BY <1>2, <2>2
  <2>3. CASE i = Len(q) + 1 /\ j \in 1 .. Len(q)
    <3>1. q[j].slot = s /\ e.slot = s /\ e.cb = "mrand_half"
      BY <1>1, <2>3
    <3>2. Awaits(q, s)
      BY <2>3, <3>1 DEF Awaits
    <3> QED
      BY <1>6, <3>1, <3>2
  <2>4. CASE i = Len(q) + 1 /\ j = Len(q) + 1
    BY <2>4
  <2> QED
    BY <1>2, <2>1, <2>2, <2>3, <2>4
<1> QED
  BY <1>3, <1>4, <1>5, <1>6 DEF p

-----------------------------------------------------------------------------
(* The types, action by action.                                            *)

LEMMA SmpTypeFacts ==
    ASSUME SmpTypeOK
    PROVE  /\ \A s \in Slots : /\ try[s] \in 0 .. MaxTries /\ mem[s] \in Mem /\ conf[s] \in Value
                               /\ who[s] \in Remotes \cup {NOBODY} /\ phase[s] \in Phases
           /\ randq # <<>> => Head(randq) \in RandEntry /\ Head(randq).slot \in Slots
           /\ encryptq # <<>> => Head(encryptq) \in EncryptEntry /\ Head(encryptq).slot \in Slots
           /\ ctrl # <<>> => Head(ctrl) \in Command /\ Head(ctrl).value \in Value
           /\ Head(ctrl).op = "start" /\ ctrl # <<>> => Head(ctrl).slot \in Slots
           /\ Head(ctrl).op = "start" /\ ctrl # <<>> => Head(ctrl).of \in 0 .. MaxTries
<1>1. \A s \in Slots : /\ try[s] \in 0 .. MaxTries /\ mem[s] \in Mem /\ conf[s] \in Value
                       /\ who[s] \in Remotes \cup {NOBODY} /\ phase[s] \in Phases
  BY DEF SmpTypeOK
<1>2. randq \in Seq(RandEntry) /\ encryptq \in Seq(EncryptEntry) /\ ctrl \in Seq(Command)
  BY DEF SmpTypeOK
<1>3. randq # <<>> => Head(randq) \in RandEntry
  BY <1>2, HeadAndTail
<1>4. encryptq # <<>> => Head(encryptq) \in EncryptEntry
  BY <1>2, HeadAndTail
<1>5. ctrl # <<>> => Head(ctrl) \in Command
  BY <1>2, HeadAndTail
<1>6. (\A e \in RandEntry : e.slot \in Slots) /\ (\A e \in EncryptEntry : e.slot \in Slots)
  BY DEF RandEntry, EncryptEntry
<1>7. ctrl # <<>> => /\ Head(ctrl).value \in Value
                     /\ Head(ctrl).op = "start" => Head(ctrl).slot \in Slots /\ Head(ctrl).of \in 0 .. MaxTries
  BY <1>5, CommandFields
<1> QED
  BY <1>1, <1>3, <1>4, <1>5, <1>6, <1>7

LEMMA TriesFact ==
    ASSUME SmpTypeOK
    PROVE  tries \in 0 .. MaxTries /\ tries \in Nat /\ \A s \in Slots : try[s] \in Nat
<1>1. tries \in 0 .. MaxTries /\ \A s \in Slots : try[s] \in 0 .. MaxTries
  BY DEF SmpTypeOK
<1> QED
  BY <1>1, SmpFacts

\* What is left of a ring or of the commands, of the same types.
LEMMA TakenTypes ==
    ASSUME SmpTypeOK
    PROVE  /\ randq # <<>> => Tail(randq) \in Seq(RandEntry) /\ Len(Tail(randq)) <= RingLen
           /\ encryptq # <<>> => /\ Tail(encryptq) \in Seq(EncryptEntry)
                                 /\ Len(Tail(encryptq)) <= RingLen - 1
                                 /\ Len(Tail(encryptq)) <= RingLen
           /\ ctrl # <<>> => Tail(ctrl) \in Seq(Command)
<1>1. /\ randq \in Seq(RandEntry) /\ Len(randq) <= RingLen
      /\ encryptq \in Seq(EncryptEntry) /\ Len(encryptq) <= RingLen
      /\ ctrl \in Seq(Command) /\ RingLen \in Nat
  BY SmpFacts DEF SmpTypeOK
<1>2. randq # <<>> => Tail(randq) \in Seq(RandEntry) /\ Len(Tail(randq)) <= RingLen
  BY <1>1, HeadAndTail
<1>3. encryptq # <<>> => /\ Tail(encryptq) \in Seq(EncryptEntry)
                         /\ Len(Tail(encryptq)) <= RingLen - 1 /\ Len(Tail(encryptq)) <= RingLen
  BY <1>1, HeadAndTail
<1>4. ctrl # <<>> => Tail(ctrl) \in Seq(Command)
  BY <1>1, HeadAndTail
<1> QED
  BY <1>2, <1>3, <1>4

LEMMA ClaimTypes ==
    ASSUME SmpTypeOK, NEW s \in Slots, NEW d \in Remotes, Claim(s, d)
    PROVE  /\ try' \in [Slots -> 0 .. MaxTries] /\ who' \in [Slots -> Remotes \cup {NOBODY}]
           /\ mem' \in [Slots -> Mem] /\ conf' \in [Slots -> Value]
           /\ stale' \subseteq Slots /\ tries' \in 0 .. MaxTries /\ tries' = tries + 1
           /\ stale' = stale \cup {s} \/ stale' = stale \ {s}
<1>1. tries \in 0 .. MaxTries /\ tries < MaxTries /\ tries' = tries + 1 /\ MaxTries \in Nat
  BY SmpFacts DEF SmpTypeOK, Claim
<1>2. tries' \in 0 .. MaxTries
  BY <1>1
<1>3. try' \in [Slots -> 0 .. MaxTries]
  BY <1>2 DEF Claim, SmpTypeOK
<1>4. who' \in [Slots -> Remotes \cup {NOBODY}]
  BY DEF Claim, SmpTypeOK
<1>5. mem' \in [Slots -> Mem] /\ conf' \in [Slots -> Value]
  BY SmpFacts DEF Claim, SmpTypeOK
<1>6. stale' = stale \cup {s} \/ stale' = stale \ {s}
  BY DEF Claim
<1>7. stale' \subseteq Slots
  BY <1>6 DEF SmpTypeOK
<1> QED
  BY <1>1, <1>2, <1>3, <1>4, <1>5, <1>6, <1>7

LEMMA ConnectTypes ==
    ASSUME SmpTypeOK, NEW s \in Slots, NEW d \in Remotes, Connect(s, d) \/ Reconnect(s, d)
    PROVE  /\ SmpTypeOK' /\ Claim(s, d)
           /\ UNCHANGED <<rings, le_keys, bond, errors, trouble>>
<1>1. Claim(s, d) /\ UNCHANGED <<rings, le_keys, bond, errors, trouble>>
  BY DEF Connect, Reconnect
<1>2. hid' \in [Slots -> BOOLEAN]
  <2>1. hid \in [Slots -> BOOLEAN]
    BY DEF SmpTypeOK
  <2>2. hid' = [hid EXCEPT ![s] = FALSE] \/ hid' = [hid EXCEPT ![s] = TRUE]
    BY Zenon DEF Connect, Reconnect
  <2> QED
    BY <2>1, <2>2, Zenon
<1>3. \E p \in {"rsp", "done", "refused"} : phase' = [phase EXCEPT ![s] = p]
  BY DEF Connect, Reconnect, Say
<1>4. phase' \in [Slots -> Phases]
  BY <1>3 DEF SmpTypeOK, Phases
<1> QED
  BY <1>1, <1>2, <1>4, ClaimTypes DEF SmpTypeOK, rings

LEMMA PairingRspTypes ==
    ASSUME SmpTypeOK, NEW s \in Slots, PairingRsp(s)
    PROVE  /\ SmpTypeOK'
           /\ mem'[s].pres = try[s] /\ mem'[s].rand = mem[s].rand
           /\ \A t \in Slots : t # s => mem'[t] = mem[t]
<1>1. /\ mem' \in [Slots -> Mem] /\ mem'[s].pres = try[s] /\ mem'[s].rand = mem[s].rand
      /\ \A t \in Slots : t # s => mem'[t] = mem[t]
  <2>1. PICK r \in {0, ENC_KEY} : mem' = [mem EXCEPT ![s].pres = try[s], ![s].rdist = r]
    BY DEF PairingRsp
  <2>2. mem[s] \in Mem /\ try[s] \in 0 .. MaxTries /\ mem \in [Slots -> Mem]
    BY DEF SmpTypeOK
  <2> DEFINE n == [mem[s] EXCEPT !.pres = try[s], !.rdist = r]
  <2>3. n \in Mem /\ n.pres = try[s] /\ n.rand = mem[s].rand
    BY <2>2, MemStart
  <2>4. mem' = [mem EXCEPT ![s] = n]
    BY <2>1, <2>2
  <2> HIDE DEF n
  <2> QED
    BY <2>2, <2>3, <2>4
<1>2. phase' \in [Slots -> Phases]
  BY DEF PairingRsp, Say, SmpTypeOK, Phases
<1>3. /\ GetRandomTwice(s)
      /\ UNCHANGED <<try, who, stale, hid, conf, encryptq, le_keys, bond, tries, errors>>
  BY DEF PairingRsp
<1>4. /\ randq' \in Seq(RandEntry) /\ Len(randq') <= RingLen
      /\ ctrl' \in Seq(Command)
      /\ trouble' = trouble \/ trouble' = trouble \cup {"full"}
  BY <1>3, GetRandomTwiceEffect
<1>5. trouble' \subseteq {"half a key", "full", "error"}
  BY <1>4 DEF SmpTypeOK
<1> QED
  BY <1>1, <1>2, <1>3, <1>4, <1>5 DEF SmpTypeOK

LEMMA PairingConfirmTypes ==
    ASSUME SmpTypeOK, NEW s \in Slots, PairingConfirm(s)
    PROVE  SmpTypeOK'
<1>1. phase' \in [Slots -> Phases]
  BY DEF PairingConfirm, Say, SmpTypeOK, Phases
<1> QED
  BY <1>1 DEF PairingConfirm, SmpTypeOK, rings

LEMMA PairingRandomTypes ==
    ASSUME SmpTypeOK, NEW s \in Slots, PairingRandom(s)
    PROVE  SmpTypeOK' /\ [rand |-> mem[s].rand, of |-> try[s]] \in Value
<1>1. [rand |-> mem[s].rand, of |-> try[s]] \in Value
  BY SmpTypeFacts, MemFields DEF Value
<1>2. phase' \in [Slots -> Phases]
  BY DEF PairingRandom, Say, SmpTypeOK, Phases
<1>3. hid' \in [Slots -> BOOLEAN]
  <2>1. hid \in [Slots -> BOOLEAN]
    BY DEF SmpTypeOK
  <2>2. hid' = [hid EXCEPT ![s] = @ \/ mem[s].rdist = 0]
    BY Zenon DEF PairingRandom
  <2> QED
    BY <2>1, <2>2, Zenon
<1>4. /\ encryptq' \in Seq(EncryptEntry) /\ Len(encryptq') <= RingLen
      /\ ctrl' \in Seq(Command)
  BY <1>1, GetEncryptEffect DEF PairingRandom
<1> QED
  BY <1>1, <1>2, <1>3, <1>4 DEF PairingRandom, SmpTypeOK

\* What a part of a key does.
LEMMA EncryptInfoTypes ==
    ASSUME SmpTypeOK, SlotsUsed, OnePerDevice(le_keys), NEW s \in Slots, EncryptInfo(s)
    PROVE  /\ SmpTypeOK' /\ OnePerDevice(le_keys)' /\ who[s] \in Remotes
           /\ trouble' = trouble \/ trouble' = trouble \cup {"half a key"}
<1>1. who[s] \in Remotes /\ try[s] \in 0 .. MaxTries
  BY DEF EncryptInfo, SlotsUsed, SmpTypeOK
<1>2. le_keys' = Put(le_keys, who[s], "key", try[s]) /\ le_keys \in LeKeyArray
  BY DEF EncryptInfo, SmpTypeOK
<1>3. le_keys' \in LeKeyArray /\ OnePerDevice(le_keys')
  BY <1>1, <1>2, LePut
<1>4. phase' \in [Slots -> Phases]
  BY DEF EncryptInfo, Say, SmpTypeOK, Phases
<1>5. bond' \in [Remotes -> 0 .. MaxTries]
  BY <1>1 DEF EncryptInfo, SmpTypeOK
<1>6. trouble' = trouble \/ trouble' = trouble \cup {"half a key"}
  BY DEF EncryptInfo
<1>7. trouble' \subseteq {"half a key", "full", "error"}
  BY <1>6 DEF SmpTypeOK
<1>8. UNCHANGED <<try, who, stale, mem, hid, conf, rings, tries, errors>>
  BY DEF EncryptInfo
<1>9. SmpTypeOK'
  BY <1>3, <1>4, <1>5, <1>7, <1>8 DEF SmpTypeOK, rings
<1> QED
  BY <1>1, <1>3, <1>6, <1>9 DEF OnePerDevice

LEMMA MasterIdentTypes ==
    ASSUME SmpTypeOK, SlotsUsed, OnePerDevice(le_keys), NEW s \in Slots, MasterIdent(s)
    PROVE  SmpTypeOK' /\ OnePerDevice(le_keys)' /\ who[s] \in Remotes
<1>1. who[s] \in Remotes /\ try[s] \in 0 .. MaxTries
  BY DEF MasterIdent, SlotsUsed, SmpTypeOK
<1>2. le_keys' = Put(le_keys, who[s], "ident", try[s]) /\ le_keys \in LeKeyArray
  BY DEF MasterIdent, SmpTypeOK
<1>3. le_keys' \in LeKeyArray /\ OnePerDevice(le_keys')
  BY <1>1, <1>2, LePut
<1>4. phase' \in [Slots -> Phases]
  BY DEF MasterIdent, Say, SmpTypeOK, Phases
<1>5. mem' \in [Slots -> Mem]
  <2>1. mem[s] \in Mem /\ mem \in [Slots -> Mem] /\ mem' = [mem EXCEPT ![s].rdist = 0]
    BY DEF MasterIdent, SmpTypeOK
  <2> DEFINE n == [mem[s] EXCEPT !.rdist = 0]
  <2>2. n \in Mem
    BY <2>1, MemFields
  <2>3. mem' = [mem EXCEPT ![s] = n]
    BY <2>1
  <2> HIDE DEF n
  <2> QED
    BY <2>1, <2>2, <2>3
<1>6. hid' \in [Slots -> BOOLEAN]
  <2>1. hid \in [Slots -> BOOLEAN]
    BY DEF SmpTypeOK
  <2>2. hid' = [hid EXCEPT ![s] = TRUE]
    BY Zenon DEF MasterIdent
  <2> QED
    BY <2>1, <2>2, Zenon
<1>7. UNCHANGED <<try, who, stale, conf, rings, bond, tries, errors, trouble>>
  BY DEF MasterIdent
<1>8. SmpTypeOK'
  BY <1>3, <1>4, <1>5, <1>6, <1>7 DEF SmpTypeOK, rings
<1> QED
  BY <1>1, <1>3, <1>8 DEF OnePerDevice

LEMMA LinkLostTypes ==
    ASSUME SmpTypeOK, NEW s \in Slots, LinkLost(s)
    PROVE  /\ SmpTypeOK'
           /\ trouble' = trouble \/ trouble' = trouble \cup {"half a key"}
<1>1. /\ try' \in [Slots -> 0 .. MaxTries] /\ who' \in [Slots -> Remotes \cup {NOBODY}]
      /\ mem' \in [Slots -> Mem] /\ conf' \in [Slots -> Value]
  BY SmpFacts DEF LinkLost, SmpTypeOK
<1>2. hid' \in [Slots -> BOOLEAN]
  <2>1. hid \in [Slots -> BOOLEAN]
    BY DEF SmpTypeOK
  <2>2. hid' = [hid EXCEPT ![s] = FALSE]
    BY Zenon DEF LinkLost
  <2> QED
    BY <2>1, <2>2, Zenon
<1>3. phase' \in [Slots -> Phases]
  BY DEF LinkLost, Say, SmpTypeOK, Phases
<1>4. trouble' = trouble \/ trouble' = trouble \cup {"half a key"}
  BY DEF LinkLost
<1>5. trouble' \subseteq {"half a key", "full", "error"}
  BY <1>4 DEF SmpTypeOK
<1>6. UNCHANGED <<stale, rings, le_keys, bond, tries, errors>>
  BY DEF LinkLost
<1> QED
  BY <1>1, <1>2, <1>3, <1>4, <1>5, <1>6 DEF SmpTypeOK, rings

LEMMA PairingFailTypes ==
    ASSUME SmpTypeOK, NEW s \in Slots, PairingFail(s)
    PROVE  /\ SmpTypeOK'
           /\ trouble' = trouble \/ trouble' = trouble \cup {"half a key"}
<1>1. phase' \in [Slots -> Phases]
  BY DEF PairingFail, Say, SmpTypeOK, Phases
<1>2. trouble' = trouble \/ trouble' = trouble \cup {"half a key"}
  BY DEF PairingFail
<1>3. trouble' \subseteq {"half a key", "full", "error"}
  BY <1>2 DEF SmpTypeOK
<1>4. UNCHANGED <<try, who, stale, mem, hid, conf, rings, le_keys, bond, tries, errors>>
  BY DEF PairingFail
<1> QED
  BY <1>1, <1>2, <1>3, <1>4 DEF SmpTypeOK, rings

\* The answers: what each leaves of the rings and of the commands, and in the slot.
LEMMA RandDoneEffect ==
    ASSUME SmpTypeOK, RandDone
    PROVE  LET s == Head(randq).slot
               v == Head(ctrl).value.rand[1]
               c == [rand |-> <<mem[s].rand[1], v>>, of |-> mem[s].pres]
           IN /\ SmpTypeOK' /\ s \in Slots /\ v \in 0 .. MaxTries /\ c \in Value
              /\ randq # <<>> /\ ctrl # <<>> /\ Head(ctrl).op = "rand" /\ randq' = Tail(randq)
              /\ UNCHANGED <<try, who, stale, hid, phase, conf, le_keys, bond, tries, errors, trouble>>
              /\ \A t \in Slots : t # s => mem'[t] = mem[t]
              /\ mem'[s].pres = mem[s].pres
              /\ \/ /\ Head(randq).cb = "mrand_half"
                    /\ mem'[s].rand = <<v, mem[s].rand[2]>>
                    /\ encryptq' = encryptq /\ ctrl' = Tail(ctrl)
                 \/ /\ Head(randq).cb = "mrand_complete"
                    /\ mem'[s].rand = <<mem[s].rand[1], v>>
                    /\ \/ encryptq' = encryptq /\ ctrl' = Tail(ctrl)
                       \/ /\ encryptq' = Append(encryptq, [slot |-> s, cb |-> "confirm_half"])
                          /\ ctrl' = Append(Tail(ctrl), [op |-> "encrypt", value |-> c])
<1> DEFINE s == Head(randq).slot
           v == Head(ctrl).value.rand[1]
           c == [rand |-> <<mem[s].rand[1], v>>, of |-> mem[s].pres]
           m1 == [mem[s] EXCEPT !.rand[1] = v]
           m2 == [mem[s] EXCEPT !.rand[2] = v, !.ltk = c]
           e == [slot |-> s, cb |-> "confirm_half"]
           d == [op |-> "encrypt", value |-> c]
<1>1. /\ randq # <<>> /\ ctrl # <<>> /\ Head(ctrl).op = "rand" /\ randq' = Tail(randq)
      /\ UNCHANGED <<try, who, stale, hid, phase, conf, le_keys, bond, tries, errors, trouble>>
  BY DEF RandDone, NextIs
<1>2. /\ s \in Slots /\ Head(randq) \in RandEntry /\ Head(ctrl).value \in Value
      /\ mem[s] \in Mem /\ mem \in [Slots -> Mem]
  BY <1>1, SmpTypeFacts DEF SmpTypeOK
<1>3. /\ Head(ctrl).value.rand \in (0 .. MaxTries) \X (0 .. MaxTries)
      /\ mem[s].rand \in (0 .. MaxTries) \X (0 .. MaxTries) /\ mem[s].pres \in 0 .. MaxTries
  BY <1>2, MemFields DEF Value
<1>4. v \in 0 .. MaxTries /\ mem[s].rand[1] \in 0 .. MaxTries
  BY <1>3, PairFact
<1>5. c \in Value
  BY <1>3, <1>4 DEF Value
<1> HIDE DEF v, c
<1>6. m1 \in Mem /\ m1.pres = mem[s].pres /\ m1.rand = <<v, mem[s].rand[2]>>
  BY <1>2, <1>4, MemFields
<1>7. m2 \in Mem /\ m2.pres = mem[s].pres /\ m2.rand = <<mem[s].rand[1], v>>
  BY <1>2, <1>4, <1>5, MemRest
<1>8. \/ /\ Head(randq).cb = "mrand_half"
         /\ mem' = [mem EXCEPT ![s] = m1]
         /\ encryptq' = encryptq /\ ctrl' = Tail(ctrl)
      \/ /\ Head(randq).cb = "mrand_complete"
         /\ mem' = [mem EXCEPT ![s] = m2]
         /\ \/ encryptq' = encryptq /\ ctrl' = Tail(ctrl)
            \/ /\ encryptq' = Append(encryptq, e) /\ Len(encryptq) < RingLen
               /\ ctrl' = Append(Tail(ctrl), d)
  <2>1. Head(randq).cb \in {"mrand_half", "mrand_complete"}
    BY <1>2 DEF RandEntry
  <2>2. CASE Head(randq).cb = "mrand_half"
    <3>1. mem' = [mem EXCEPT ![s].rand[1] = v] /\ encryptq' = encryptq /\ ctrl' = Tail(ctrl)
      BY <2>2 DEF RandDone, v
    <3>2. mem' = [mem EXCEPT ![s] = m1]
      BY <1>2, <3>1
    <3> QED
      BY <2>2, <3>1, <3>2
  <2>3. CASE Head(randq).cb = "mrand_complete"
    <3>1. /\ mem' = [mem EXCEPT ![s].rand[2] = v, ![s].ltk = c]
          /\ \/ encryptq' = encryptq /\ ctrl' = Tail(ctrl)
             \/ /\ encryptq' = Append(encryptq, e) /\ Len(encryptq) < RingLen
                /\ ctrl' = Append(Tail(ctrl), d)
      BY <2>3 DEF RandDone, v, c
    <3>2. mem' = [mem EXCEPT ![s] = m2]
      BY <1>2, <3>1
    <3> QED
      BY <2>3, <3>1, <3>2
  <2> QED
    BY <2>1, <2>2, <2>3
<1>9. e \in EncryptEntry /\ d \in Command
  BY <1>2, <1>5, CommandFields DEF EncryptEntry
<1> HIDE DEF s, m1, m2, e, d
<1>10. /\ mem' \in [Slots -> Mem] /\ \A t \in Slots : t # s => mem'[t] = mem[t]
       /\ mem'[s] = m1 \/ mem'[s] = m2
       /\ Head(randq).cb = "mrand_half" => mem'[s] = m1
       /\ Head(randq).cb = "mrand_complete" => mem'[s] = m2
  BY <1>2, <1>6, <1>7, <1>8
<1>11. /\ randq' \in Seq(RandEntry) /\ Len(randq') <= RingLen
       /\ Tail(ctrl) \in Seq(Command)
  BY <1>1, TakenTypes
<1>12. encryptq \in Seq(EncryptEntry) /\ Len(encryptq) <= RingLen /\ RingLen \in Nat
  BY SmpFacts DEF SmpTypeOK
<1>13. encryptq' \in Seq(EncryptEntry) /\ Len(encryptq') <= RingLen /\ ctrl' \in Seq(Command)
  <2>1. CASE encryptq' = encryptq /\ ctrl' = Tail(ctrl)
    BY <1>11, <1>12, <2>1
  <2>2. CASE encryptq' = Append(encryptq, e) /\ Len(encryptq) < RingLen /\ ctrl' = Append(Tail(ctrl), d)
    <3>1. /\ Append(encryptq, e) \in Seq(EncryptEntry)
          /\ Len(Append(encryptq, e)) = Len(encryptq) + 1 /\ Len(encryptq) \in Nat
      BY <1>9, <1>12, Added
    <3>2. Append(Tail(ctrl), d) \in Seq(Command)
      BY <1>9, <1>11, Added
    <3> QED
      BY <1>12, <2>2, <3>1, <3>2
  <2> QED
    BY <1>8, <2>1, <2>2
<1>14. SmpTypeOK'
  BY <1>1, <1>10, <1>11, <1>13 DEF SmpTypeOK
<1>15. /\ mem'[s].pres = mem[s].pres
       /\ \/ /\ Head(randq).cb = "mrand_half"
             /\ mem'[s].rand = <<v, mem[s].rand[2]>>
             /\ encryptq' = encryptq /\ ctrl' = Tail(ctrl)
          \/ /\ Head(randq).cb = "mrand_complete"
             /\ mem'[s].rand = <<mem[s].rand[1], v>>
             /\ \/ encryptq' = encryptq /\ ctrl' = Tail(ctrl)
                \/ encryptq' = Append(encryptq, e) /\ ctrl' = Append(Tail(ctrl), d)
  BY <1>6, <1>7, <1>8, <1>10
<1>16. /\ SmpTypeOK' /\ s \in Slots /\ v \in 0 .. MaxTries /\ c \in Value
       /\ randq # <<>> /\ ctrl # <<>> /\ Head(ctrl).op = "rand" /\ randq' = Tail(randq)
       /\ UNCHANGED <<try, who, stale, hid, phase, conf, le_keys, bond, tries, errors, trouble>>
       /\ \A t \in Slots : t # s => mem'[t] = mem[t]
       /\ mem'[s].pres = mem[s].pres
       /\ \/ /\ Head(randq).cb = "mrand_half"
             /\ mem'[s].rand = <<v, mem[s].rand[2]>>
             /\ encryptq' = encryptq /\ ctrl' = Tail(ctrl)
          \/ /\ Head(randq).cb = "mrand_complete"
             /\ mem'[s].rand = <<mem[s].rand[1], v>>
             /\ \/ encryptq' = encryptq /\ ctrl' = Tail(ctrl)
                \/ encryptq' = Append(encryptq, e) /\ ctrl' = Append(Tail(ctrl), d)
  BY <1>1, <1>2, <1>4, <1>5, <1>10, <1>14, <1>15
<1> QED
  BY <1>16 DEF s, v, c, e, d

\* What the three answers about an encryption have in common.
LEMMA EncryptDoneEffect ==
    ASSUME SmpTypeOK, NEW s \in Slots, encryptq # <<>>, ctrl # <<>>, s = Head(encryptq).slot,
           mem' = [mem EXCEPT ![s].ltk = Head(ctrl).value]
    PROVE  /\ mem' \in [Slots -> Mem]
           /\ \A t \in Slots : mem'[t].pres = mem[t].pres /\ mem'[t].rand = mem[t].rand
<1>1. mem[s] \in Mem /\ mem \in [Slots -> Mem] /\ Head(ctrl).value \in Value
  BY SmpTypeFacts DEF SmpTypeOK
<1> DEFINE n == [mem[s] EXCEPT !.ltk = Head(ctrl).value]
<1>2. n \in Mem /\ n.pres = mem[s].pres /\ n.rand = mem[s].rand
  BY <1>1, MemFields
<1>3. mem' = [mem EXCEPT ![s] = n]
  BY <1>1
<1> HIDE DEF n
<1> QED
  BY <1>1, <1>2, <1>3

LEMMA ConfirmHalfEffect ==
    ASSUME SmpTypeOK, ConfirmHalf
    PROVE  LET s == Head(encryptq).slot
               e == [slot |-> s, cb |-> "confirm_complete"]
           IN /\ SmpTypeOK' /\ s \in Slots /\ e \in EncryptEntry
              /\ encryptq # <<>> /\ ctrl # <<>> /\ Head(ctrl).op = "encrypt"
              /\ encryptq' = Append(Tail(encryptq), e) /\ ctrl' = Append(Tail(ctrl), Head(ctrl))
              /\ \A t \in Slots : mem'[t].pres = mem[t].pres /\ mem'[t].rand = mem[t].rand
              /\ UNCHANGED <<try, who, stale, hid, phase, conf, randq, le_keys, bond, tries, errors, trouble>>
<1> DEFINE s == Head(encryptq).slot
           e == [slot |-> s, cb |-> "confirm_complete"]
<1>1. /\ encryptq # <<>> /\ ctrl # <<>> /\ Head(ctrl).op = "encrypt"
      /\ encryptq' = Append(Tail(encryptq), e) /\ ctrl' = Append(Tail(ctrl), Head(ctrl))
      /\ mem' = [mem EXCEPT ![s].ltk = Head(ctrl).value]
      /\ UNCHANGED <<try, who, stale, hid, phase, conf, randq, le_keys, bond, tries, errors, trouble>>
  BY DEF ConfirmHalf, Callback, NextIs
<1>2. s \in Slots /\ Head(ctrl) \in Command
  BY <1>1, SmpTypeFacts
<1>3. e \in EncryptEntry
  BY <1>2 DEF EncryptEntry
<1>4. /\ mem' \in [Slots -> Mem]
      /\ \A t \in Slots : mem'[t].pres = mem[t].pres /\ mem'[t].rand = mem[t].rand
  BY <1>1, <1>2, EncryptDoneEffect
<1> HIDE DEF s, e
<1>5. /\ Tail(encryptq) \in Seq(EncryptEntry) /\ Len(Tail(encryptq)) <= RingLen - 1
      /\ Tail(ctrl) \in Seq(Command) /\ RingLen \in Nat
  BY <1>1, TakenTypes, SmpFacts
<1>6. encryptq' \in Seq(EncryptEntry) /\ Len(encryptq') = Len(Tail(encryptq)) + 1 /\ Len(Tail(encryptq)) \in Nat
  BY <1>1, <1>3, <1>5, Added
<1>7. ctrl' \in Seq(Command)
  BY <1>1, <1>2, <1>5, Added
<1>8. Len(encryptq') <= RingLen
  BY <1>5, <1>6
<1>9. SmpTypeOK'
  BY <1>1, <1>4, <1>6, <1>7, <1>8 DEF SmpTypeOK
<1>10. /\ SmpTypeOK' /\ s \in Slots /\ e \in EncryptEntry
       /\ encryptq # <<>> /\ ctrl # <<>> /\ Head(ctrl).op = "encrypt"
       /\ encryptq' = Append(Tail(encryptq), e) /\ ctrl' = Append(Tail(ctrl), Head(ctrl))
       /\ \A t \in Slots : mem'[t].pres = mem[t].pres /\ mem'[t].rand = mem[t].rand
       /\ UNCHANGED <<try, who, stale, hid, phase, conf, randq, le_keys, bond, tries, errors, trouble>>
  BY <1>1, <1>2, <1>3, <1>4, <1>9
<1> QED
  BY <1>10 DEF s, e

LEMMA ConfirmCompleteEffect ==
    ASSUME SmpTypeOK, ConfirmComplete
    PROVE  LET s == Head(encryptq).slot
           IN /\ SmpTypeOK' /\ s \in Slots
              /\ encryptq # <<>> /\ ctrl # <<>> /\ Head(ctrl).op = "encrypt"
              /\ encryptq' = Tail(encryptq) /\ ctrl' = Tail(ctrl)
              /\ \A t \in Slots : mem'[t].pres = mem[t].pres /\ mem'[t].rand = mem[t].rand
              /\ \A t \in Slots : t # s => conf'[t] = conf[t] /\ phase'[t] = phase[t]
              /\ try[s] # 0 => conf'[s] = Head(ctrl).value
              /\ phase'[s] = phase[s] \/ (phase[s] = "await confirm" /\ phase'[s] = "confirm")
              /\ UNCHANGED <<try, who, stale, hid, randq, le_keys, bond, tries, errors, trouble>>
<1> DEFINE s == Head(encryptq).slot
<1>1. /\ encryptq # <<>> /\ ctrl # <<>> /\ Head(ctrl).op = "encrypt"
      /\ encryptq' = Tail(encryptq) /\ ctrl' = Tail(ctrl)
      /\ mem' = [mem EXCEPT ![s].ltk = Head(ctrl).value]
      /\ conf' = IF try[s] # 0 THEN [conf EXCEPT ![s] = Head(ctrl).value] ELSE conf
      /\ phase' = [phase EXCEPT ![s] = IF phase[s] = "await confirm" THEN "confirm" ELSE phase[s]]
      /\ UNCHANGED <<try, who, stale, hid, randq, le_keys, bond, tries, errors, trouble>>
  BY DEF ConfirmComplete, Callback, NextIs, Say
<1>2. s \in Slots /\ Head(ctrl).value \in Value
  BY <1>1, SmpTypeFacts
<1>3. /\ mem' \in [Slots -> Mem]
      /\ \A t \in Slots : mem'[t].pres = mem[t].pres /\ mem'[t].rand = mem[t].rand
  BY <1>1, <1>2, EncryptDoneEffect
<1> HIDE DEF s
<1>4. conf \in [Slots -> Value] /\ phase \in [Slots -> Phases]
  BY DEF SmpTypeOK
<1>5. /\ conf' \in [Slots -> Value] /\ \A t \in Slots : t # s => conf'[t] = conf[t]
      /\ try[s] # 0 => conf'[s] = Head(ctrl).value
  BY <1>1, <1>2, <1>4
<1>6. /\ phase' \in [Slots -> Phases] /\ \A t \in Slots : t # s => phase'[t] = phase[t]
      /\ phase'[s] = phase[s] \/ (phase[s] = "await confirm" /\ phase'[s] = "confirm")
  BY <1>1, <1>2, <1>4 DEF Phases
<1>7. /\ encryptq' \in Seq(EncryptEntry) /\ Len(encryptq') <= RingLen /\ ctrl' \in Seq(Command)
  BY <1>1, TakenTypes
<1>8. SmpTypeOK'
  BY <1>1, <1>3, <1>5, <1>6, <1>7 DEF SmpTypeOK
<1>9. /\ SmpTypeOK' /\ s \in Slots
      /\ encryptq # <<>> /\ ctrl # <<>> /\ Head(ctrl).op = "encrypt"
      /\ encryptq' = Tail(encryptq) /\ ctrl' = Tail(ctrl)
      /\ \A t \in Slots : mem'[t].pres = mem[t].pres /\ mem'[t].rand = mem[t].rand
      /\ \A t \in Slots : t # s => conf'[t] = conf[t] /\ phase'[t] = phase[t]
      /\ try[s] # 0 => conf'[s] = Head(ctrl).value
      /\ phase'[s] = phase[s] \/ (phase[s] = "await confirm" /\ phase'[s] = "confirm")
      /\ UNCHANGED <<try, who, stale, hid, randq, le_keys, bond, tries, errors, trouble>>
  BY <1>1, <1>2, <1>3, <1>5, <1>6, <1>8
<1> QED
  BY <1>9 DEF s

LEMMA StkCompleteEffect ==
    ASSUME SmpTypeOK, StkComplete
    PROVE  LET s == Head(encryptq).slot
               c == [op |-> "start", slot |-> s, of |-> try[s], value |-> Head(ctrl).value]
           IN /\ SmpTypeOK' /\ s \in Slots /\ c \in Command
              /\ encryptq # <<>> /\ ctrl # <<>> /\ Head(ctrl).op = "encrypt"
              /\ encryptq' = Tail(encryptq) /\ ctrl' = Append(Tail(ctrl), c)
              /\ \A t \in Slots : mem'[t].pres = mem[t].pres /\ mem'[t].rand = mem[t].rand
              /\ UNCHANGED <<try, who, stale, hid, phase, conf, randq, le_keys, bond, tries, errors, trouble>>
<1> DEFINE s == Head(encryptq).slot
           c == [op |-> "start", slot |-> s, of |-> try[s], value |-> Head(ctrl).value]
<1>1. /\ encryptq # <<>> /\ ctrl # <<>> /\ Head(ctrl).op = "encrypt"
      /\ encryptq' = Tail(encryptq) /\ ctrl' = Append(Tail(ctrl), c)
      /\ mem' = [mem EXCEPT ![s].ltk = Head(ctrl).value]
      /\ UNCHANGED <<try, who, stale, hid, phase, conf, randq, le_keys, bond, tries, errors, trouble>>
  BY DEF StkComplete, Callback, NextIs
<1>2. s \in Slots /\ Head(ctrl).value \in Value
  BY <1>1, SmpTypeFacts
<1>3. c \in Command
  BY <1>2, SmpTypeFacts, CommandFields
<1>4. /\ mem' \in [Slots -> Mem]
      /\ \A t \in Slots : mem'[t].pres = mem[t].pres /\ mem'[t].rand = mem[t].rand
  BY <1>1, <1>2, EncryptDoneEffect
<1> HIDE DEF s, c
<1>5. encryptq' \in Seq(EncryptEntry) /\ Len(encryptq') <= RingLen
  BY <1>1, TakenTypes
<1>6. ctrl' \in Seq(Command)
  BY <1>1, <1>3, TakenTypes, Added
<1>7. SmpTypeOK'
  BY <1>1, <1>4, <1>5, <1>6 DEF SmpTypeOK
<1>8. /\ SmpTypeOK' /\ s \in Slots /\ c \in Command
      /\ encryptq # <<>> /\ ctrl # <<>> /\ Head(ctrl).op = "encrypt"
      /\ encryptq' = Tail(encryptq) /\ ctrl' = Append(Tail(ctrl), c)
      /\ \A t \in Slots : mem'[t].pres = mem[t].pres /\ mem'[t].rand = mem[t].rand
      /\ UNCHANGED <<try, who, stale, hid, phase, conf, randq, le_keys, bond, tries, errors, trouble>>
  BY <1>1, <1>2, <1>3, <1>4, <1>7
<1> QED
  BY <1>8 DEF s, c

LEMMA EncryptedEffect ==
    ASSUME SmpTypeOK, Encrypted
    PROVE  LET c == Head(ctrl)
               s == c.slot
           IN /\ SmpTypeOK' /\ c \in Command /\ s \in Slots /\ c.value \in Value
              /\ ctrl # <<>> /\ c.op = "start" /\ ctrl' = Tail(ctrl)
              /\ \A t \in Slots : t # s => phase'[t] = phase[t]
              /\ \/ phase'[s] = phase[s]
                 \/ /\ try[s] # 0 /\ c.of = try[s] /\ phase[s] = "await encryption"
                    /\ \/ phase'[s] \in {"done", "info"}
                       \/ phase'[s] = "refused" /\ c.value # [rand |-> conf[s].rand, of |-> try[s]]
              /\ UNCHANGED <<try, who, stale, mem, hid, conf, randq, encryptq, le_keys, bond,
                             tries, errors, trouble>>
<1> DEFINE c == Head(ctrl)
           s == c.slot
           good == c.value = [rand |-> conf[s].rand, of |-> try[s]]
<1>1. /\ ctrl # <<>> /\ c.op = "start" /\ ctrl' = Tail(ctrl)
      /\ UNCHANGED <<try, who, stale, mem, hid, conf, randq, encryptq, le_keys, bond, tries, errors, trouble>>
  BY DEF Encrypted, NextIs
<1>2. c \in Command /\ s \in Slots /\ c.value \in Value
  BY <1>1, SmpTypeFacts
<1>3. \/ phase' = phase
      \/ /\ try[s] # 0 /\ c.of = try[s] /\ phase[s] = "await encryption"
         /\ \/ phase' = [phase EXCEPT ![s] = "refused"] /\ ~good
            \/ phase' = [phase EXCEPT ![s] = "done"]
            \/ phase' = [phase EXCEPT ![s] = "info"]
  BY DEF Encrypted, Say
<1> HIDE DEF s, c, good
<1>4. phase \in [Slots -> Phases]
  BY DEF SmpTypeOK
<1>5. /\ phase' \in [Slots -> Phases] /\ \A t \in Slots : t # s => phase'[t] = phase[t]
      /\ \/ phase'[s] = phase[s]
         \/ /\ try[s] # 0 /\ c.of = try[s] /\ phase[s] = "await encryption"
            /\ phase'[s] \in {"done", "info"} \/ (phase'[s] = "refused" /\ ~good)
  BY <1>2, <1>3, <1>4 DEF Phases
<1>6. ctrl' \in Seq(Command)
  BY <1>1, TakenTypes
<1>7. SmpTypeOK'
  BY <1>1, <1>5, <1>6 DEF SmpTypeOK
<1>8. /\ SmpTypeOK' /\ c \in Command /\ s \in Slots /\ c.value \in Value
      /\ ctrl # <<>> /\ c.op = "start" /\ ctrl' = Tail(ctrl)
      /\ \A t \in Slots : t # s => phase'[t] = phase[t]
      /\ \/ phase'[s] = phase[s]
         \/ /\ try[s] # 0 /\ c.of = try[s] /\ phase[s] = "await encryption"
            /\ phase'[s] \in {"done", "info"} \/ (phase'[s] = "refused" /\ ~good)
      /\ UNCHANGED <<try, who, stale, mem, hid, conf, randq, encryptq, le_keys, bond, tries, errors, trouble>>
  BY <1>1, <1>2, <1>5, <1>7
<1> QED
  BY <1>8 DEF s, c, good

LEMMA CommandFailsTypes ==
    ASSUME SmpTypeOK, CommandFails
    PROVE  SmpTypeOK' /\ trouble' = trouble \cup {"error"} /\ trouble' # {}
<1>1. /\ trouble' = trouble \cup {"error"} /\ errors' = errors + 1 /\ errors < MaxErrors
      /\ ctrl # <<>> /\ ctrl' = Tail(ctrl)
      /\ UNCHANGED <<slots, randq, encryptq, le_keys, bond, tries>>
  BY DEF CommandFails
<1>2. errors' \in 0 .. MaxErrors
  <2>1. errors \in 0 .. MaxErrors /\ MaxErrors \in Nat
    BY SmpFacts DEF SmpTypeOK
  <2> QED
    BY <1>1, <2>1
<1>3. ctrl' \in Seq(Command)
  BY <1>1, TakenTypes
<1>4. trouble' \subseteq {"half a key", "full", "error"} /\ "error" \in trouble'
  BY <1>1 DEF SmpTypeOK
<1>5. SmpTypeOK'
  BY <1>1, <1>2, <1>3, <1>4 DEF SmpTypeOK, slots
<1> QED
  BY <1>1, <1>4, <1>5

\* Where the first part of a key goes, ...
LEMMA EncryptInfoKeys ==
    ASSUME SmpTypeOK, SlotsUsed, OnePerDevice(le_keys), NEW s \in Slots, EncryptInfo(s)
    PROVE  LET d == who[s]
               j == IndexOf(le_keys, d)
           IN /\ j \in Entries /\ le_keys'.keys[j].dev = d
              /\ le_keys'.keys[j].key = try[s]
              /\ \A n \in Entries : n # j => le_keys'.keys[n] = le_keys.keys[n] /\ le_keys'.keys[n].dev # d
              /\ Having(le_keys', d) # {}
<1> DEFINE d == who[s]
           j == IndexOf(le_keys, d)
<1>0. /\ d \in Remotes /\ try[s] \in 0 .. MaxTries /\ le_keys \in LeKeyArray
      /\ le_keys' = Put(le_keys, d, "key", try[s])
  BY EncryptInfoTypes DEF EncryptInfo, SmpTypeOK
<1> DEFINE b == Put(le_keys, d, "key", try[s])
<1>2. j \in Entries /\ b.keys[j].dev = d
  BY <1>0, LePutKey
<1>3. b.keys[j].key = try[s]
  BY <1>0, LePutKey
<1>4. \A n \in Entries : n # j => b.keys[n] = le_keys.keys[n] /\ b.keys[n].dev # d
  BY <1>0, LePutKey
<1>5. Having(b, d) # {}
  BY <1>0, LePutKey
<1>6. le_keys' = b
  BY <1>0
<1> HIDE DEF b, j
<1>7. /\ j \in Entries /\ le_keys'.keys[j].dev = d
      /\ le_keys'.keys[j].key = try[s]
      /\ \A n \in Entries : n # j => le_keys'.keys[n] = le_keys.keys[n] /\ le_keys'.keys[n].dev # d
      /\ Having(le_keys', d) # {}
  BY <1>2, <1>3, <1>4, <1>5, <1>6
<1> QED
  BY <1>7 DEF j

\* ... and the second.
LEMMA MasterIdentKeys ==
    ASSUME SmpTypeOK, SlotsUsed, OnePerDevice(le_keys), NEW s \in Slots, MasterIdent(s)
    PROVE  LET d == who[s]
               j == IndexOf(le_keys, d)
           IN /\ j \in Entries /\ le_keys'.keys[j].dev = d
              /\ le_keys'.keys[j].ident = try[s] /\ le_keys'.keys[j].key = le_keys.keys[j].key
              /\ \A n \in Entries : n # j => le_keys'.keys[n] = le_keys.keys[n] /\ le_keys'.keys[n].dev # d
              /\ Having(le_keys', d) # {}
<1> DEFINE d == who[s]
           j == IndexOf(le_keys, d)
<1>0. /\ d \in Remotes /\ try[s] \in 0 .. MaxTries /\ le_keys \in LeKeyArray
      /\ le_keys' = Put(le_keys, d, "ident", try[s])
  BY MasterIdentTypes DEF MasterIdent, SmpTypeOK
<1> DEFINE b == Put(le_keys, d, "ident", try[s])
<1>2. j \in Entries /\ b.keys[j].dev = d
  BY <1>0, LePutIdent
<1>3. b.keys[j].ident = try[s] /\ b.keys[j].key = le_keys.keys[j].key
  BY <1>0, LePutIdent
<1>4. \A n \in Entries : n # j => b.keys[n] = le_keys.keys[n] /\ b.keys[n].dev # d
  BY <1>0, LePutIdent
<1>5. Having(b, d) # {}
  BY <1>0, LePutIdent
<1>6. le_keys' = b
  BY <1>0
<1> HIDE DEF b, j
<1>7. /\ j \in Entries /\ le_keys'.keys[j].dev = d
      /\ le_keys'.keys[j].ident = try[s] /\ le_keys'.keys[j].key = le_keys.keys[j].key
      /\ \A n \in Entries : n # j => le_keys'.keys[n] = le_keys.keys[n] /\ le_keys'.keys[n].dev # d
      /\ Having(le_keys', d) # {}
  BY <1>2, <1>3, <1>4, <1>5, <1>6
<1> QED
  BY <1>7 DEF j

-----------------------------------------------------------------------------
(* Slots and stored keys.                                                  *)

\* The steps of a pairing that touch neither its keys nor its link.
LEMMA QuietSteps ==
    ASSUME SmpTypeOK,
           \/ \E s \in Slots : PairingRsp(s) \/ PairingConfirm(s) \/ PairingRandom(s)
           \/ RandDone \/ ConfirmHalf \/ ConfirmComplete \/ StkComplete \/ Encrypted \/ CommandFails
    PROVE  /\ SmpTypeOK'
           /\ UNCHANGED <<try, who, stale, le_keys, bond, tries>>
           /\ \A t \in Slots : /\ phase'[t] = "none" <=> phase[t] = "none"
                               /\ phase'[t] = "ident" <=> phase[t] = "ident"
           /\ trouble \subseteq trouble' /\ ("half a key" \in trouble' => "half a key" \in trouble)
<1> DEFINE Same == \A t \in Slots : /\ phase'[t] = "none" <=> phase[t] = "none"
                                    /\ phase'[t] = "ident" <=> phase[t] = "ident"
           Rest == UNCHANGED <<try, who, stale, le_keys, bond, tries>>
           More == trouble \subseteq trouble' /\ ("half a key" \in trouble' => "half a key" \in trouble)
<1>0. phase \in [Slots -> Phases]
  BY DEF SmpTypeOK
<1>1. ASSUME NEW s \in Slots, PairingRsp(s) PROVE SmpTypeOK' /\ Rest /\ Same /\ More
  <2>1. trouble' = trouble \/ trouble' = trouble \cup {"full"}
    BY <1>1, GetRandomTwiceEffect DEF PairingRsp
  <2>2. More
    BY <2>1
  <2>3. Same
    BY <1>0, <1>1 DEF PairingRsp, Say
  <2>4. Rest
    BY <1>1 DEF PairingRsp
  <2> QED
    BY <1>1, <2>2, <2>3, <2>4, PairingRspTypes
<1>2. ASSUME NEW s \in Slots, PairingConfirm(s) PROVE SmpTypeOK' /\ Rest /\ Same /\ More
  <2>1. Same
    BY <1>0, <1>2 DEF PairingConfirm, Say
  <2>2. Rest /\ More
    BY <1>2 DEF PairingConfirm
  <2> QED
    BY <1>2, <2>1, <2>2, PairingConfirmTypes
<1>3. ASSUME NEW s \in Slots, PairingRandom(s) PROVE SmpTypeOK' /\ Rest /\ Same /\ More
  <2>1. Same
    BY <1>0, <1>3 DEF PairingRandom, Say
  <2>2. Rest /\ More
    BY <1>3 DEF PairingRandom
  <2> QED
    BY <1>3, <2>1, <2>2, PairingRandomTypes
<1>4. ASSUME RandDone PROVE SmpTypeOK' /\ Rest /\ Same /\ More
  <2>1. SmpTypeOK'
    BY <1>4, RandDoneEffect
  <2>2. UNCHANGED <<phase, trouble>> /\ Rest
    BY <1>4 DEF RandDone
  <2> QED
    BY <2>1, <2>2
<1>5. ASSUME ConfirmHalf PROVE SmpTypeOK' /\ Rest /\ Same /\ More
  <2>1. SmpTypeOK'
    BY <1>5, ConfirmHalfEffect
  <2>2. UNCHANGED <<phase, trouble>> /\ Rest
    BY <1>5 DEF ConfirmHalf
  <2> QED
    BY <2>1, <2>2
<1>6. ASSUME ConfirmComplete PROVE SmpTypeOK' /\ Rest /\ Same /\ More
  <2>1. SmpTypeOK'
    BY <1>6, ConfirmCompleteEffect
  <2>2. UNCHANGED trouble /\ Rest
    BY <1>6 DEF ConfirmComplete
  <2>3. phase' = [phase EXCEPT ![Head(encryptq).slot] = IF phase[Head(encryptq).slot] = "await confirm"
                                                        THEN "confirm" ELSE phase[Head(encryptq).slot]]
    BY <1>6 DEF ConfirmComplete, Say
  <2>4. Same
    BY <1>0, <2>3
  <2> QED
    BY <2>1, <2>2, <2>4
<1>7. ASSUME StkComplete PROVE SmpTypeOK' /\ Rest /\ Same /\ More
  <2>1. SmpTypeOK'
    BY <1>7, StkCompleteEffect
  <2>2. UNCHANGED <<phase, trouble>> /\ Rest
    BY <1>7 DEF StkComplete
  <2> QED
    BY <2>1, <2>2
<1>8. ASSUME Encrypted PROVE SmpTypeOK' /\ Rest /\ Same /\ More
  <2>1. /\ SmpTypeOK' /\ Head(ctrl).slot \in Slots
        /\ \A t \in Slots : t # Head(ctrl).slot => phase'[t] = phase[t]
        /\ \/ phase'[Head(ctrl).slot] = phase[Head(ctrl).slot]
           \/ /\ phase[Head(ctrl).slot] = "await encryption"
              /\ phase'[Head(ctrl).slot] \in {"done", "info", "refused"}
    BY <1>8, EncryptedEffect
  <2>2. Same
    BY <2>1
  <2>3. UNCHANGED trouble /\ Rest
    BY <1>8 DEF Encrypted
  <2> QED
    BY <2>1, <2>2, <2>3
<1>9. ASSUME CommandFails PROVE SmpTypeOK' /\ Rest /\ Same /\ More
  <2>1. SmpTypeOK' /\ trouble' = trouble \cup {"error"}
    BY <1>9, CommandFailsTypes
  <2>2. UNCHANGED phase /\ Rest
    BY <1>9 DEF CommandFails, slots
  <2> QED
    BY <2>1, <2>2
<1> HIDE DEF Same, Rest, More
<1>10. SmpTypeOK' /\ Rest /\ Same /\ More
  BY <1>1, <1>2, <1>3, <1>4, <1>5, <1>6, <1>7, <1>8, <1>9
<1> QED
  BY <1>10 DEF Same, Rest, More

LEMMA TypesAndSlots ==
    ASSUME SmpTypeOK, SlotsUsed, OnePerDevice(le_keys), SmpNext
    PROVE  /\ SmpTypeOK' /\ SlotsUsed' /\ OnePerDevice(le_keys)'
           /\ trouble \subseteq trouble'
<1> DEFINE Goal == SmpTypeOK' /\ SlotsUsed' /\ OnePerDevice(le_keys)' /\ trouble \subseteq trouble'
<1>a. /\ try \in [Slots -> 0 .. MaxTries] /\ who \in [Slots -> Remotes \cup {NOBODY}]
      /\ phase \in [Slots -> Phases] /\ tries \in Nat /\ \A t \in Slots : try[t] \in Nat
  <2>1. /\ try \in [Slots -> 0 .. MaxTries] /\ who \in [Slots -> Remotes \cup {NOBODY}]
        /\ phase \in [Slots -> Phases] /\ tries \in 0 .. MaxTries
    BY DEF SmpTypeOK
  <2>2. \A n \in 0 .. MaxTries : n \in Nat
    BY SmpFacts
  <2> QED
    BY <2>1, <2>2
<1>b. ASSUME UNCHANGED <<try, who, tries>>, \A t \in Slots : phase'[t] = "none" <=> phase[t] = "none"
      PROVE  SlotsUsed'
  BY <1>b DEF SlotsUsed
<1>c. UNCHANGED le_keys => OnePerDevice(le_keys)'
  BY DEF OnePerDevice
<1>1. ASSUME NEW s \in Slots, NEW d \in Remotes, Connect(s, d) \/ Reconnect(s, d) PROVE Goal
  <2>1. SmpTypeOK' /\ Claim(s, d) /\ UNCHANGED <<le_keys, trouble>>
    BY <1>1, ConnectTypes
  <2>2. /\ try' = [try EXCEPT ![s] = tries + 1] /\ who' = [who EXCEPT ![s] = d] /\ tries' = tries + 1
        /\ \A t \in Slots : who[t] # d
    BY <2>1 DEF Claim
  <2>3. \E p \in {"rsp", "done", "refused"} : phase' = [phase EXCEPT ![s] = p]
    BY <1>1 DEF Connect, Reconnect, Say
  <2>4. /\ try'[s] = tries + 1 /\ who'[s] = d /\ phase'[s] # "none"
        /\ \A t \in Slots : t # s => try'[t] = try[t] /\ who'[t] = who[t] /\ phase'[t] = phase[t]
    BY <1>a, <2>2, <2>3
  <2>5. ASSUME NEW t \in Slots
        PROVE  /\ try'[t] <= tries' /\ (try'[t] = 0 <=> who'[t] = NOBODY)
               /\ (try'[t] = 0 <=> phase'[t] = "none")
    <3>1. CASE t = s
      BY <1>a, <2>2, <2>4, <3>1, ConstantFacts
    <3>2. CASE t # s
      BY <1>a, <2>2, <2>4, <3>2 DEF SlotsUsed
    <3> QED
      BY <3>1, <3>2
  <2>6. ASSUME NEW t \in Slots, NEW u \in Slots, who'[t] = who'[u], t # u PROVE who'[t] = NOBODY
    BY <2>2, <2>4, <2>6 DEF SlotsUsed
  <2>7. SlotsUsed'
    BY <2>5, <2>6 DEF SlotsUsed
  <2> QED
    BY <1>c, <2>1, <2>7
<1>2. ASSUME NEW s \in Slots, EncryptInfo(s) PROVE Goal
  <2>1. /\ SmpTypeOK' /\ OnePerDevice(le_keys)' /\ trouble \subseteq trouble'
    BY <1>2, EncryptInfoTypes
  <2>2. /\ UNCHANGED <<try, who, tries>> /\ phase[s] = "info" /\ phase' = [phase EXCEPT ![s] = "ident"]
    BY <1>2 DEF EncryptInfo, Say
  <2>3. \A t \in Slots : phase'[t] = "none" <=> phase[t] = "none"
    BY <1>a, <2>2
  <2> QED
    BY <1>b, <2>1, <2>2, <2>3
<1>3. ASSUME NEW s \in Slots, MasterIdent(s) PROVE Goal
  <2>1. /\ SmpTypeOK' /\ OnePerDevice(le_keys)'
    BY <1>3, MasterIdentTypes
  <2>2. /\ UNCHANGED <<try, who, tries, trouble>> /\ phase[s] = "ident" /\ phase' = [phase EXCEPT ![s] = "done"]
    BY <1>3 DEF MasterIdent, Say
  <2>3. \A t \in Slots : phase'[t] = "none" <=> phase[t] = "none"
    BY <1>a, <2>2
  <2> QED
    BY <1>b, <2>1, <2>2, <2>3
<1>4. ASSUME NEW s \in Slots, LinkLost(s) PROVE Goal
  <2>1. SmpTypeOK' /\ trouble \subseteq trouble'
    BY <1>4, LinkLostTypes
  <2>2. /\ try' = [try EXCEPT ![s] = 0] /\ who' = [who EXCEPT ![s] = NOBODY]
        /\ phase' = [phase EXCEPT ![s] = "none"] /\ UNCHANGED <<le_keys, tries>>
    BY <1>4 DEF LinkLost, Say
  <2>3. /\ try'[s] = 0 /\ who'[s] = NOBODY /\ phase'[s] = "none"
        /\ \A t \in Slots : t # s => try'[t] = try[t] /\ who'[t] = who[t] /\ phase'[t] = phase[t]
    BY <1>a, <2>2
  <2>4. SlotsUsed'
    BY <1>a, <2>2, <2>3 DEF SlotsUsed
  <2> QED
    BY <1>c, <2>1, <2>2, <2>4
<1>5. ASSUME NEW s \in Slots, PairingFail(s) PROVE Goal
  <2>1. SmpTypeOK' /\ trouble \subseteq trouble'
    BY <1>5, PairingFailTypes
  <2>2. /\ UNCHANGED <<try, who, tries, le_keys>> /\ phase[s] # "none"
        /\ phase' = [phase EXCEPT ![s] = "quit"]
    BY <1>5 DEF PairingFail, Say
  <2>3. \A t \in Slots : phase'[t] = "none" <=> phase[t] = "none"
    BY <1>a, <2>2
  <2> QED
    BY <1>b, <1>c, <2>1, <2>2, <2>3
<1>6. ASSUME \/ \E s \in Slots : PairingRsp(s) \/ PairingConfirm(s) \/ PairingRandom(s)
             \/ RandDone \/ ConfirmHalf \/ ConfirmComplete \/ StkComplete \/ Encrypted \/ CommandFails
      PROVE  Goal
  BY <1>6, <1>b, <1>c, QuietSteps
<1> HIDE DEF Goal
<1>7. Goal
  BY <1>1, <1>2, <1>3, <1>4, <1>5, <1>6 DEF SmpNext
<1> QED
  BY <1>7 DEF Goal

\* Unless half a key is left behind.
LEMMA BondsStayStored ==
    ASSUME SmpTypeOK, SlotsUsed, OnePerDevice(le_keys), BondsStored, SmpNext, "half a key" \notin trouble'
    PROVE  BondsStored'
<1>a. /\ try \in [Slots -> 0 .. MaxTries] /\ who \in [Slots -> Remotes \cup {NOBODY}]
      /\ phase \in [Slots -> Phases] /\ bond \in [Remotes -> 0 .. MaxTries]
      /\ le_keys \in LeKeyArray
  BY DEF SmpTypeOK
<1>b. \A i \in Entries : le_keys.keys[i].dev \in Remotes \cup {NOBODY}
  BY <1>a DEF LeKeyArray
<1>c. ASSUME UNCHANGED <<le_keys, bond>>,
             \A t \in Slots : phase[t] = "ident" => phase'[t] = "ident" /\ who'[t] = who[t],
             \A t \in Slots : phase'[t] = "ident" => phase[t] = "ident" /\ who'[t] = who[t] /\ try'[t] = try[t]
      PROVE  BondsStored'
  <2>1. ASSUME NEW i \in Entries, le_keys'.keys[i].dev # NOBODY
        PROVE  LET e == le_keys'.keys[i]
               IN /\ e.key = bond'[e.dev]
                  /\ e.ident = bond'[e.dev] \/ \E s \in Slots : who'[s] = e.dev /\ phase'[s] = "ident"
    <3>1. le_keys'.keys[i] = le_keys.keys[i] /\ bond' = bond
      BY <1>c
    <3>2. LET e == le_keys.keys[i]
          IN /\ e.key = bond[e.dev]
             /\ e.ident = bond[e.dev] \/ \E s \in Slots : who[s] = e.dev /\ phase[s] = "ident"
      BY <2>1, <3>1 DEF BondsStored
    <3> QED
      BY <1>c, <3>1, <3>2
  <2>2. ASSUME NEW s \in Slots, phase'[s] = "ident"
        PROVE  try'[s] = bond'[who'[s]] /\ Having(le_keys', who'[s]) # {}
    BY <1>c, <2>2 DEF BondsStored
  <2> QED
    BY <2>1, <2>2 DEF BondsStored
<1>1. ASSUME NEW s \in Slots, NEW d \in Remotes, Connect(s, d) \/ Reconnect(s, d) PROVE BondsStored'
  <2>1. /\ Claim(s, d) /\ UNCHANGED <<le_keys, bond>>
    BY <1>1, ConnectTypes
  <2>2. \E p \in {"rsp", "done", "refused"} : phase' = [phase EXCEPT ![s] = p]
    BY <1>1 DEF Connect, Reconnect, Say
  <2>3. phase[s] # "ident"
    BY <2>1 DEF Claim, SlotsUsed
  <2>4. /\ phase'[s] # "ident"
        /\ \A t \in Slots : t # s => try'[t] = try[t] /\ who'[t] = who[t] /\ phase'[t] = phase[t]
    BY <1>a, <2>1, <2>2 DEF Claim
  <2> QED
    BY <1>c, <2>1, <2>3, <2>4
<1>2. ASSUME NEW s \in Slots, EncryptInfo(s) PROVE BondsStored'
  <2> DEFINE d == who[s]
             j == IndexOf(le_keys, d)
  <2>1. /\ le_keys' = Put(le_keys, d, "key", try[s]) /\ bond' = [bond EXCEPT ![d] = try[s]]
        /\ phase' = [phase EXCEPT ![s] = "ident"] /\ UNCHANGED <<try, who>>
        /\ d \in Remotes /\ d # NOBODY
    BY <1>2, EncryptInfoTypes, ConstantFacts DEF EncryptInfo, Say
  <2>2. ASSUME NEW t \in Slots, t # s, phase[t] = "ident" PROVE Having(le_keys', who[t]) # {} /\ who[t] # d
    <3>1. Having(le_keys', who[t]) # {}
      BY <1>2, <2>2 DEF EncryptInfo
    <3>2. who[t] # d
      BY <2>1, <2>2 DEF SlotsUsed
    <3> QED
      BY <3>1, <3>2
  <2>3. /\ j \in Entries /\ le_keys'.keys[j].dev = d /\ le_keys'.keys[j].key = try[s]
        /\ \A n \in Entries : n # j => le_keys'.keys[n] = le_keys.keys[n] /\ le_keys'.keys[n].dev # d
        /\ Having(le_keys', d) # {}
    BY <1>2, EncryptInfoKeys
  <2> HIDE DEF j, d
  <2>4. /\ bond'[d] = try[s] /\ \A r \in Remotes : r # d => bond'[r] = bond[r]
        /\ phase'[s] = "ident" /\ \A t \in Slots : t # s => phase'[t] = phase[t]
        /\ who[s] = d
    BY <1>a, <2>1 DEF d
  <2>5. ASSUME NEW i \in Entries, le_keys'.keys[i].dev # NOBODY
        PROVE  LET e == le_keys'.keys[i]
               IN /\ e.key = bond'[e.dev]
                  /\ e.ident = bond'[e.dev] \/ \E t \in Slots : who'[t] = e.dev /\ phase'[t] = "ident"
    <3>1. CASE i = j
      BY <2>1, <2>3, <2>4, <3>1
    <3>2. CASE i # j
      <4> DEFINE e == le_keys.keys[i]
      <4>1. le_keys'.keys[i] = e /\ e.dev # d /\ e.dev \in Remotes
        BY <1>b, <2>3, <2>5, <3>2
      <4>2. e.key = bond[e.dev] /\ (e.ident = bond[e.dev] \/ \E t \in Slots : who[t] = e.dev /\ phase[t] = "ident")
        BY <2>5, <4>1 DEF BondsStored
      <4> HIDE DEF e
      <4>3. bond'[e.dev] = bond[e.dev]
        BY <2>4, <4>1
      <4>4. \A t \in Slots : who[t] = e.dev /\ phase[t] = "ident" => who'[t] = e.dev /\ phase'[t] = "ident"
        BY <2>1, <2>4, <4>1
      <4> QED
        BY <4>1, <4>2, <4>3, <4>4
    <3> QED
      BY <3>1, <3>2
  <2>6. ASSUME NEW t \in Slots, phase'[t] = "ident"
        PROVE  try'[t] = bond'[who'[t]] /\ Having(le_keys', who'[t]) # {}
    <3>1. CASE t = s
      BY <2>1, <2>3, <2>4, <3>1
    <3>2. CASE t # s
      <4>1. phase[t] = "ident"
        BY <2>4, <2>6, <3>2
      <4>2. try[t] = bond[who[t]] /\ who[t] \in Remotes
        BY <1>a, <4>1 DEF BondsStored, SlotsUsed
      <4> QED
        BY <2>1, <2>2, <2>4, <3>2, <4>1, <4>2
    <3> QED
      BY <3>1, <3>2
  <2> QED
    BY <2>5, <2>6 DEF BondsStored
<1>3. ASSUME NEW s \in Slots, MasterIdent(s) PROVE BondsStored'
  <2> DEFINE d == who[s]
             j == IndexOf(le_keys, d)
  <2>1. /\ le_keys' = Put(le_keys, d, "ident", try[s]) /\ bond' = bond
        /\ phase' = [phase EXCEPT ![s] = "done"] /\ UNCHANGED <<try, who>>
        /\ d \in Remotes /\ d # NOBODY /\ phase[s] = "ident"
    BY <1>3, MasterIdentTypes, ConstantFacts DEF MasterIdent, Say
  <2>2. try[s] = bond[d] /\ Having(le_keys, d) # {}
    BY <2>1 DEF BondsStored
  <2>3. le_keys.keys[j].dev = d
    BY <1>a, <2>1, <2>2, IndexFact
  <2>4. /\ j \in Entries /\ le_keys'.keys[j].dev = d /\ le_keys'.keys[j].ident = try[s]
        /\ le_keys'.keys[j].key = le_keys.keys[j].key
        /\ \A n \in Entries : n # j => le_keys'.keys[n] = le_keys.keys[n] /\ le_keys'.keys[n].dev # d
    BY <1>3, MasterIdentKeys
  <2> HIDE DEF j, d
  <2>5. /\ phase'[s] # "ident" /\ \A t \in Slots : t # s => phase'[t] = phase[t]
        /\ who[s] = d
    BY <1>a, <2>1 DEF d
  <2>6. ASSUME NEW i \in Entries, le_keys'.keys[i].dev # NOBODY
        PROVE  LET e == le_keys'.keys[i]
               IN /\ e.key = bond'[e.dev]
                  /\ e.ident = bond'[e.dev] \/ \E t \in Slots : who'[t] = e.dev /\ phase'[t] = "ident"
    <3>1. CASE i = j
      <4>1. le_keys.keys[j].key = bond[d]
        BY <2>1, <2>3, <2>4 DEF BondsStored
      <4> QED
        BY <2>1, <2>2, <2>4, <3>1, <4>1
    <3>2. CASE i # j
      <4> DEFINE e == le_keys.keys[i]
      <4>1. le_keys'.keys[i] = e /\ e.dev # d
        BY <2>4, <2>6, <3>2
      <4>2. e.key = bond[e.dev] /\ (e.ident = bond[e.dev] \/ \E t \in Slots : who[t] = e.dev /\ phase[t] = "ident")
        BY <2>6, <4>1 DEF BondsStored
      <4> HIDE DEF e
      <4>3. \A t \in Slots : who[t] = e.dev /\ phase[t] = "ident" => who'[t] = e.dev /\ phase'[t] = "ident"
        BY <2>1, <2>5, <4>1
      <4> QED
        BY <2>1, <4>1, <4>2, <4>3
    <3> QED
      BY <3>1, <3>2
  <2>7. ASSUME NEW t \in Slots, phase'[t] = "ident"
        PROVE  try'[t] = bond'[who'[t]] /\ Having(le_keys', who'[t]) # {}
    <3>1. t # s /\ phase[t] = "ident"
      BY <2>5, <2>7
    <3>2. try[t] = bond[who[t]] /\ Having(le_keys, who[t]) # {} /\ who[t] # d
      BY <2>1, <2>5, <3>1 DEF BondsStored, SlotsUsed
    <3>3. PICK n \in Entries : le_keys.keys[n].dev = who[t]
      BY <3>2 DEF Having
    <3>4. le_keys'.keys[n].dev = who[t]
      BY <2>3, <2>4, <3>2, <3>3
    <3> QED
      BY <2>1, <3>2, <3>4 DEF Having
  <2> QED
    BY <2>6, <2>7 DEF BondsStored
<1>4. ASSUME NEW s \in Slots, LinkLost(s) PROVE BondsStored'
  <2>1. phase[s] # "ident"
    BY <1>4 DEF LinkLost
  <2>2. /\ try' = [try EXCEPT ![s] = 0] /\ who' = [who EXCEPT ![s] = NOBODY]
        /\ phase' = [phase EXCEPT ![s] = "none"] /\ UNCHANGED <<le_keys, bond>>
    BY <1>4 DEF LinkLost, Say
  <2>3. /\ phase'[s] = "none"
        /\ \A t \in Slots : t # s => try'[t] = try[t] /\ who'[t] = who[t] /\ phase'[t] = phase[t]
    BY <1>a, <2>2
  <2> QED
    BY <1>c, <2>1, <2>2, <2>3
<1>5. ASSUME NEW s \in Slots, PairingFail(s) PROVE BondsStored'
  <2>1. phase[s] # "ident"
    BY <1>5 DEF PairingFail
  <2>2. /\ UNCHANGED <<try, who, le_keys, bond>> /\ phase' = [phase EXCEPT ![s] = "quit"]
    BY <1>5 DEF PairingFail, Say
  <2>3. /\ phase'[s] = "quit"
        /\ \A t \in Slots : t # s => phase'[t] = phase[t]
    BY <1>a, <2>2
  <2> QED
    BY <1>c, <2>1, <2>2, <2>3
<1>6. ASSUME \/ \E s \in Slots : PairingRsp(s) \/ PairingConfirm(s) \/ PairingRandom(s)
             \/ RandDone \/ ConfirmHalf \/ ConfirmComplete \/ StkComplete \/ Encrypted \/ CommandFails
      PROVE  BondsStored'
  BY <1>6, <1>c, QuietSteps
<1> QED
  BY <1>1, <1>2, <1>3, <1>4, <1>5, <1>6 DEF SmpNext

-----------------------------------------------------------------------------
(* The rings, action by action.                                            *)

\* Where the commands that are left, and those that are added, come from.
LEMMA Elements ==
    ASSUME NEW T, NEW c \in Seq(T)
    PROVE  /\ c # <<>> => \A k \in 1 .. Len(Tail(c)) : \E j \in 1 .. Len(c) : Tail(c)[k] = c[j]
           /\ \A d \in T : \A k \in 1 .. Len(Append(c, d)) :
                 Append(c, d)[k] = d \/ \E j \in 1 .. Len(c) : Append(c, d)[k] = c[j]
<1>1. ASSUME c # <<>>, NEW k \in 1 .. Len(Tail(c))
      PROVE  \E j \in 1 .. Len(c) : Tail(c)[k] = c[j]
  <2>1. /\ Len(c) \in Nat /\ Len(Tail(c)) = Len(c) - 1
        /\ \A i \in 1 .. Len(c) - 1 : Tail(c)[i] = c[i + 1]
    BY <1>1, HeadAndTail
  <2>2. k + 1 \in 1 .. Len(c) /\ k \in 1 .. Len(c) - 1
    BY <1>1, <2>1
  <2> QED
    BY <2>1, <2>2
<1>2. ASSUME NEW d \in T, NEW k \in 1 .. Len(Append(c, d))
      PROVE  Append(c, d)[k] = d \/ \E j \in 1 .. Len(c) : Append(c, d)[k] = c[j]
  <2>1. /\ Len(Append(c, d)) = Len(c) + 1 /\ Len(c) \in Nat /\ Append(c, d)[Len(c) + 1] = d
        /\ \A i \in 1 .. Len(c) : Append(c, d)[i] = c[i]
    BY Added
  <2>2. k = Len(c) + 1 \/ k \in 1 .. Len(c)
    BY <2>1
  <2> QED
    BY <2>1, <2>2
<1> QED
  BY <1>1, <1>2

LEMMA FitsSame ==
    ASSUME UNCHANGED <<try, stale>>
    PROVE  RandFits' = RandFits /\ EncryptFits' = EncryptFits /\ \A s : Sound(s)' = Sound(s)
  BY DEF RandFits, EncryptFits, Sound, ValueOf

LEMMA ProgressKept ==
    ASSUME NEW s \in Slots, Progress(s), try'[s] = try[s], phase'[s] = phase[s], conf'[s] = conf[s],
           mem'[s].pres = mem[s].pres, mem'[s].rand = mem[s].rand,
           Awaits(randq', s) => Awaits(randq, s), HalfFirst(randq', s),
           Left(randq, s, "mrand_half") => Left(randq', s, "mrand_half"),
           Left(randq, s, "mrand_complete") => Left(randq', s, "mrand_complete"),
           Awaits(encryptq', s) => Awaits(encryptq, s)
    PROVE  Progress(s)'
  BY DEF Progress, ValueOf

\* A slot that is used anew, or no more, as long as its answers are no concern of it.
LEMMA PairingReused ==
    ASSUME SmpTypeOK, UNCHANGED rings,
           Pairing(randq, ctrl, "rand", RandFits), Pairing(encryptq, ctrl, "encrypt", EncryptFits),
           \A t \in Slots : Sound(t)' => \/ Sound(t) /\ try'[t] = try[t]
                                         \/ ~Awaits(randq, t) /\ ~Awaits(encryptq, t)
    PROVE  /\ Pairing(randq', ctrl', "rand", RandFits')
           /\ Pairing(encryptq', ctrl', "encrypt", EncryptFits')
<1>1. randq \in Seq(RandEntry) /\ encryptq \in Seq(EncryptEntry) /\ ctrl \in Seq(Command)
  BY DEF SmpTypeOK
<1>2. ASSUME NEW i \in 1 .. Len(randq), NEW k \in 1 .. Len(ctrl), <<randq[i], ctrl[k]>> \in RandFits
      PROVE  <<randq[i], ctrl[k]>> \in RandFits'
  <2>1. randq[i] \in RandEntry /\ ctrl[k] \in Command
    BY <1>1
  <2>2. PICK u \in Slots : u = randq[i].slot
    BY <2>1 DEF RandEntry
  <2>3. Sound(u)' => Sound(u) /\ try'[u] = try[u]
    BY <2>2 DEF Awaits
  <2>4. Sound(u) => ctrl[k].value.rand = <<try[u], try[u]>>
    BY <1>2, <2>2 DEF RandFits
  <2>5. Sound(u)' => ctrl[k].value.rand = <<try'[u], try'[u]>>
    BY <2>3, <2>4
  <2> QED
    BY <2>1, <2>2, <2>5 DEF RandFits, Sound, ValueOf
<1>3. ASSUME NEW i \in 1 .. Len(encryptq), NEW k \in 1 .. Len(ctrl), <<encryptq[i], ctrl[k]>> \in EncryptFits
      PROVE  <<encryptq[i], ctrl[k]>> \in EncryptFits'
  <2>1. encryptq[i] \in EncryptEntry /\ ctrl[k] \in Command
    BY <1>1
  <2>2. PICK u \in Slots : u = encryptq[i].slot
    BY <2>1 DEF EncryptEntry
  <2>3. Sound(u)' => Sound(u) /\ try'[u] = try[u]
    BY <2>2 DEF Awaits
  <2>4. Sound(u) => ctrl[k].value = ValueOf(try[u])
    BY <1>3, <2>2 DEF EncryptFits
  <2>5. Sound(u)' => ctrl[k].value = [rand |-> <<try'[u], try'[u]>>, of |-> try'[u]]
    BY <2>3, <2>4 DEF ValueOf
  <2> QED
    BY <2>1, <2>2, <2>5 DEF EncryptFits, Sound, ValueOf
<1>4. Pairing(randq, ctrl, "rand", RandFits')
  BY <1>1, <1>2, FitsKept
<1>5. Pairing(encryptq, ctrl, "encrypt", EncryptFits')
  BY <1>1, <1>3, FitsKept
<1>6. randq' = randq /\ encryptq' = encryptq /\ ctrl' = ctrl
  BY DEF rings
<1> QED
  BY <1>4, <1>5, <1>6

LEMMA StartsKept ==
    ASSUME SmpTypeOK, SmpTypeOK', StartsSound, tries <= tries',
           \A k \in 1 .. Len(ctrl') : ctrl'[k].op = "start" => \E j \in 1 .. Len(ctrl) : ctrl'[k] = ctrl[j],
           \A t \in Slots : Sound(t)' => (Sound(t) /\ try'[t] = try[t]) \/ try'[t] > tries
    PROVE  StartsSound'
<1> SUFFICES ASSUME NEW k \in 1 .. Len(ctrl'), NEW c, c = ctrl'[k], c.op = "start"
             PROVE  /\ c.of <= tries'
                    /\ Sound(c.slot)' /\ c.of = try'[c.slot] => c.value = ValueOf(c.of)
  BY DEF StartsSound, ValueOf, Sound
<1>1. PICK j \in 1 .. Len(ctrl) : c = ctrl[j]
  OBVIOUS
<1>2. c \in Command
  <2>1. ctrl \in Seq(Command)
    BY DEF SmpTypeOK
  <2> QED
    BY <1>1, <2>1
<1>3. /\ c.slot \in Slots /\ c.of \in 0 .. MaxTries
      /\ try' \in [Slots -> 0 .. MaxTries] /\ tries \in 0 .. MaxTries /\ tries' \in 0 .. MaxTries
  BY <1>2, CommandFields DEF SmpTypeOK
<1>4. c.of \in Int /\ try'[c.slot] \in Int /\ tries \in Int /\ tries' \in Int
  BY <1>3
<1>5. c.of <= tries /\ (Sound(c.slot) /\ c.of = try[c.slot] => c.value = ValueOf(c.of))
  BY <1>1 DEF StartsSound
<1>6. ASSUME Sound(c.slot)', c.of = try'[c.slot] PROVE c.value = ValueOf(c.of)
  <2>1. ~(try'[c.slot] > tries)
    BY <1>4, <1>5, <1>6
  <2>2. Sound(c.slot) /\ try'[c.slot] = try[c.slot]
    BY <1>3, <1>6, <2>1
  <2> QED
    BY <1>5, <1>6, <2>2
<1>7. c.of <= tries'
  BY <1>4, <1>5
<1> QED
  BY <1>6, <1>7

\* A new link: whatever is outstanding for its slot makes it stale.
LEMMA RingsClaim ==
    ASSUME SmpTypeOK, SlotsUsed, OnePerDevice(le_keys), BondsStored, RingsSound,
           NEW s \in Slots, NEW d \in Remotes, Connect(s, d) \/ Reconnect(s, d)
    PROVE  RingsSound'
<1>1. /\ SmpTypeOK' /\ Claim(s, d) /\ UNCHANGED <<rings, le_keys, bond, errors, trouble>>
      /\ randq' = randq /\ encryptq' = encryptq /\ ctrl' = ctrl
  BY ConnectTypes DEF rings
<1>2. /\ try' = [try EXCEPT ![s] = tries + 1] /\ tries' = tries + 1
      /\ mem' = [mem EXCEPT ![s] = BlankMem] /\ conf' = [conf EXCEPT ![s] = NO_VALUE]
      /\ \A t \in Slots : who[t] # d
      /\ stale' = IF Awaits(randq, s) \/ Awaits(encryptq, s) THEN stale \cup {s} ELSE stale \ {s}
  BY <1>1 DEF Claim, Awaits
<1>3. /\ try \in [Slots -> 0 .. MaxTries] /\ mem \in [Slots -> Mem] /\ conf \in [Slots -> Value]
      /\ phase \in [Slots -> Phases] /\ tries \in Nat
  BY TriesFact DEF SmpTypeOK
<1>4. \E p \in {"rsp", "done"} : phase' = [phase EXCEPT ![s] = p]
  <2>1. CASE Connect(s, d)
    BY <2>1 DEF Connect, Say
  <2>2. CASE Reconnect(s, d)
    <3> DEFINE j == LastOf(Having(le_keys, d))
    <3>1. Having(le_keys, d) # {} /\ le_keys \in LeKeyArray
      BY <2>2 DEF Reconnect, SmpTypeOK
    <3>2. j \in Entries /\ le_keys.keys[j].dev = d /\ Find(le_keys, d) = le_keys.keys[j]
      BY <3>1, LeLastFact DEF Find
    <3> HIDE DEF j
    <3>3. le_keys.keys[j].key = bond[d] /\ le_keys.keys[j].ident = bond[d]
      BY <1>2, <3>2, ConstantFacts DEF BondsStored
    <3> QED
      BY <2>2, <3>2, <3>3 DEF Reconnect, Say
  <2> QED
    BY <2>1, <2>2
<1>5. /\ try'[s] = tries + 1 /\ mem'[s] = BlankMem /\ phase'[s] \in {"rsp", "done"}
      /\ \A t \in Slots : t # s => /\ try'[t] = try[t] /\ mem'[t] = mem[t] /\ conf'[t] = conf[t]
                                   /\ phase'[t] = phase[t]
  BY <1>2, <1>3, <1>4
<1>6. ASSUME NEW t \in Slots, Sound(t)'
      PROVE  \/ t # s /\ Sound(t) /\ try'[t] = try[t]
             \/ t = s /\ ~Awaits(randq, t) /\ ~Awaits(encryptq, t)
  <2>1. CASE t = s
    <3>1. s \notin stale'
      BY <1>6, <2>1 DEF Sound
    <3> QED
      BY <1>2, <2>1, <3>1
  <2>2. CASE t # s
    <3>1. t \notin stale' /\ try'[t] # 0 /\ try'[t] = try[t]
      BY <1>5, <1>6, <2>2 DEF Sound
    <3>2. t \notin stale
      BY <1>2, <2>2, <3>1
    <3> QED
      BY <2>2, <3>1, <3>2 DEF Sound
  <2> QED
    BY <2>1, <2>2
<1>7. /\ Pairing(randq', ctrl', "rand", RandFits')
      /\ Pairing(encryptq', ctrl', "encrypt", EncryptFits')
  BY <1>1, <1>6, PairingReused DEF RingsSound
<1>8. ASSUME NEW t \in Slots, Sound(t)' PROVE Progress(t)'
  <2>1. CASE t = s
    <3>1. ~Awaits(randq, s) /\ ~Awaits(encryptq, s)
      BY <1>6, <1>8, <2>1
    <3>2. HalfFirst(randq, s)
      BY <3>1 DEF HalfFirst, Awaits
    <3>3. mem'[s].pres = 0
      BY <1>5, SmpFacts
    <3> QED
      BY <1>1, <1>5, <2>1, <3>1, <3>2, <3>3 DEF Progress
  <2>2. CASE t # s
    <3>1. Progress(t)
      BY <1>6, <1>8, <2>2 DEF RingsSound
    <3>2. HalfFirst(randq, t)
      BY <3>1 DEF Progress
    <3> QED
      BY <1>1, <1>5, <2>2, <3>1, <3>2, ProgressKept
  <2> QED
    BY <2>1, <2>2
<1>9. StartsSound'
  <2>1. tries <= tries' /\ \A t \in Slots : Sound(t)' => (Sound(t) /\ try'[t] = try[t]) \/ try'[t] > tries
    BY <1>2, <1>3, <1>5, <1>6
  <2>2. \A k \in 1 .. Len(ctrl') : ctrl'[k].op = "start" => \E j \in 1 .. Len(ctrl) : ctrl'[k] = ctrl[j]
    BY <1>1
  <2> QED
    BY <1>1, <2>1, <2>2, StartsKept DEF RingsSound
<1> QED
  BY <1>7, <1>8, <1>9 DEF RingsSound

\* A link that is lost: its slot is free, and not sound.
LEMMA RingsLost ==
    ASSUME SmpTypeOK, RingsSound, NEW s \in Slots, LinkLost(s)
    PROVE  RingsSound'
<1>1. /\ SmpTypeOK' /\ UNCHANGED <<stale, rings, tries>>
      /\ randq' = randq /\ encryptq' = encryptq /\ ctrl' = ctrl
      /\ try' = [try EXCEPT ![s] = 0] /\ mem' = [mem EXCEPT ![s] = BlankMem]
      /\ conf' = [conf EXCEPT ![s] = NO_VALUE] /\ phase' = [phase EXCEPT ![s] = "none"]
  BY LinkLostTypes DEF LinkLost, Say, rings
<1>2. /\ try \in [Slots -> 0 .. MaxTries] /\ mem \in [Slots -> Mem] /\ conf \in [Slots -> Value]
      /\ phase \in [Slots -> Phases] /\ tries \in Nat
  BY TriesFact DEF SmpTypeOK
<1>3. /\ try'[s] = 0
      /\ \A t \in Slots : t # s => /\ try'[t] = try[t] /\ mem'[t] = mem[t] /\ conf'[t] = conf[t]
                                   /\ phase'[t] = phase[t]
  BY <1>1, <1>2
<1>4. \A t \in Slots : Sound(t)' => t # s /\ Sound(t) /\ try'[t] = try[t]
  BY <1>1, <1>3 DEF Sound
<1>5. /\ Pairing(randq', ctrl', "rand", RandFits')
      /\ Pairing(encryptq', ctrl', "encrypt", EncryptFits')
  BY <1>1, <1>4, PairingReused DEF RingsSound
<1>6. ASSUME NEW t \in Slots, Sound(t)' PROVE Progress(t)'
  <2>1. Progress(t)
    BY <1>4, <1>6 DEF RingsSound
  <2>2. HalfFirst(randq, t)
    BY <2>1 DEF Progress
  <2> QED
    BY <1>1, <1>3, <1>4, <1>6, <2>1, <2>2, ProgressKept
<1>7. StartsSound'
  <2>1. tries <= tries' /\ \A t \in Slots : Sound(t)' => (Sound(t) /\ try'[t] = try[t]) \/ try'[t] > tries
    BY <1>1, <1>2, <1>4
  <2>2. \A k \in 1 .. Len(ctrl') : ctrl'[k].op = "start" => \E j \in 1 .. Len(ctrl) : ctrl'[k] = ctrl[j]
    BY <1>1
  <2> QED
    BY <1>1, <2>1, <2>2, StartsKept DEF RingsSound
<1> QED
  BY <1>5, <1>6, <1>7 DEF RingsSound

\* In all other steps it is the rings that are to be looked at, and the slot that is served.
LEMMA RingsByParts ==
    ASSUME SmpTypeOK, SmpTypeOK', RingsSound, UNCHANGED <<try, stale, tries>>,
           Pairing(randq', ctrl', "rand", RandFits), Pairing(encryptq', ctrl', "encrypt", EncryptFits),
           \A t \in Slots : Sound(t) => Progress(t)',
           StartsSound'
    PROVE  RingsSound'
<1>1. RandFits' = RandFits /\ EncryptFits' = EncryptFits /\ \A t \in Slots : Sound(t)' = Sound(t)
  BY FitsSame
<1>2. Pairing(randq', ctrl', "rand", RandFits') /\ Pairing(encryptq', ctrl', "encrypt", EncryptFits')
  BY <1>1
<1>3. \A t \in Slots : Sound(t)' => Progress(t)'
  BY <1>1
<1> QED
  BY <1>2, <1>3 DEF RingsSound

LEMMA StartsStay ==
    ASSUME SmpTypeOK, SmpTypeOK', StartsSound, UNCHANGED <<try, stale, tries>>,
           \A k \in 1 .. Len(ctrl') : ctrl'[k].op = "start" => \E j \in 1 .. Len(ctrl) : ctrl'[k] = ctrl[j]
    PROVE  StartsSound'
<1>1. \A t \in Slots : Sound(t)' => (Sound(t) /\ try'[t] = try[t]) \/ try'[t] > tries
  BY FitsSame
<1>2. tries <= tries'
  BY TriesFact
<1> QED
  BY <1>1, <1>2, StartsKept

LEMMA RingsRsp ==
    ASSUME SmpTypeOK, RingsSound, NEW s \in Slots, PairingRsp(s), trouble' = {}
    PROVE  RingsSound'
<1> DEFINE r == [op |-> "rand", value |-> [rand |-> <<try[s], try[s]>>, of |-> 0]]
           h == [slot |-> s, cb |-> "mrand_half"]
           c == [slot |-> s, cb |-> "mrand_complete"]
           q1 == Append(randq, h)
           c1 == Append(ctrl, r)
<1>1. /\ SmpTypeOK' /\ r \in Command /\ h \in RandEntry /\ c \in RandEntry
      /\ randq' = Append(q1, c) /\ ctrl' = Append(c1, r)
  BY PairingRspTypes, GetRandomTwiceEffect DEF PairingRsp
<1>2. /\ UNCHANGED <<try, stale, tries, conf, encryptq>> /\ phase[s] = "rsp"
      /\ phase' = [phase EXCEPT ![s] = "await confirm"]
  BY DEF PairingRsp, Say
<1>3. /\ randq \in Seq(RandEntry) /\ encryptq \in Seq(EncryptEntry) /\ ctrl \in Seq(Command)
      /\ try[s] \in 0 .. MaxTries /\ mem \in [Slots -> Mem] /\ mem[s] \in Mem
      /\ phase \in [Slots -> Phases]
  BY DEF SmpTypeOK
<1>4. /\ mem'[s].pres = try[s] /\ mem'[s].rand = mem[s].rand
      /\ \A t \in Slots : t # s => mem'[t] = mem[t]
  BY PairingRspTypes
<1>5. r.op = "rand" /\ <<h, r>> \in RandFits /\ <<c, r>> \in RandFits
  BY <1>1 DEF RandFits
<1>6. h.slot = s /\ h.cb = "mrand_half" /\ c.slot = s /\ c.cb = "mrand_complete"
  OBVIOUS
<1> HIDE DEF r, h, c
<1>7. q1 \in Seq(RandEntry) /\ c1 \in Seq(Command)
  BY <1>1, <1>3, Added
<1>8. Pairing(randq', ctrl', "rand", RandFits)
  <2>1. Pairing(q1, c1, "rand", RandFits)
    BY <1>1, <1>3, <1>5, MatchedAdded DEF RingsSound
  <2> HIDE DEF q1, c1
  <2>2. Pairing(Append(q1, c), Append(c1, r), "rand", RandFits)
    BY <1>1, <1>5, <1>7, <2>1, MatchedAdded
  <2> QED
    BY <1>1, <2>2
<1>9. Pairing(encryptq', ctrl', "encrypt", EncryptFits)
  <2>0. r.op # "encrypt"
    BY <1>5
  <2>1. Pairing(encryptq, c1, "encrypt", EncryptFits)
    BY <1>1, <1>3, <2>0, OtherAdded DEF RingsSound
  <2> HIDE DEF q1, c1
  <2>2. Pairing(encryptq, Append(c1, r), "encrypt", EncryptFits)
    BY <1>1, <1>3, <1>7, <2>0, <2>1, OtherAdded
  <2> QED
    BY <1>1, <1>2, <2>2
<1>10. StartsSound'
  <2>1. \A k \in 1 .. Len(c1) : c1[k] = r \/ \E j \in 1 .. Len(ctrl) : c1[k] = ctrl[j]
    BY <1>1, <1>3, Elements
  <2> HIDE DEF q1, c1
  <2>2. \A k \in 1 .. Len(ctrl') : ctrl'[k] = r \/ \E j \in 1 .. Len(c1) : ctrl'[k] = c1[j]
    BY <1>1, <1>7, Elements
  <2>3. r.op # "start"
    BY <1>5
  <2>4. \A k \in 1 .. Len(ctrl') : ctrl'[k].op = "start" => \E j \in 1 .. Len(ctrl) : ctrl'[k] = ctrl[j]
    BY <2>1, <2>2, <2>3
  <2> QED
    BY <1>1, <1>2, <2>4, StartsStay DEF RingsSound
<1>11. ASSUME NEW t \in Slots, Sound(t) PROVE Progress(t)'
  <2>0. Progress(t)
    BY <1>11 DEF RingsSound
  <2>1. CASE t = s
    <3>1. ~Awaits(randq, s) /\ ~Awaits(encryptq, s)
      BY <1>2, <2>0, <2>1 DEF Progress
    <3>2. HalfFirst(randq, s)
      BY <2>0, <2>1 DEF Progress
    <3>3. HalfFirst(q1, s) /\ Left(q1, s, "mrand_half")
      BY <1>1, <1>3, <1>6, <3>1, <3>2, LeftAdded
    <3> HIDE DEF q1
    <3>4. Left(randq', s, "mrand_half")
      BY <1>1, <1>7, <3>3, LeftAdded
    <3>5. Left(randq', s, "mrand_complete")
      BY <1>1, <1>6, <1>7, LeftAdded
    <3>6. HalfFirst(randq', s)
      <4>1. c.cb # "mrand_half"
        BY <1>6
      <4> QED
        BY <1>1, <1>7, <3>3, <4>1, LeftAdded
    <3>7. phase'[s] = "await confirm"
      BY <1>2, <1>3
    <3>8. ~Awaits(encryptq', s) /\ mem'[s].pres = try'[s] /\ try'[s] # 0
      BY <1>2, <1>4, <1>11, <2>1, <3>1 DEF Sound
    <3> QED
      BY <2>1, <3>4, <3>5, <3>6, <3>7, <3>8 DEF Progress
  <2>2. CASE t # s
    <3>1. HalfFirst(randq, t)
      BY <2>0 DEF Progress
    <3>2. /\ Awaits(q1, t) => Awaits(randq, t)
          /\ HalfFirst(q1, t)
          /\ \A cb : Left(randq, t, cb) => Left(q1, t, cb)
      BY <1>1, <1>3, <1>6, <2>2, <3>1, LeftAdded
    <3> HIDE DEF q1
    <3>3. /\ Awaits(randq', t) => Awaits(q1, t)
          /\ HalfFirst(randq', t)
          /\ \A cb : Left(q1, t, cb) => Left(randq', t, cb)
      BY <1>1, <1>6, <1>7, <2>2, <3>2, LeftAdded
    <3>4. phase'[t] = phase[t]
      BY <1>2, <1>3, <2>2
    <3> QED
      BY <1>2, <1>4, <2>0, <2>2, <3>2, <3>3, <3>4, ProgressKept
  <2> QED
    BY <2>1, <2>2
<1> QED
  BY <1>1, <1>2, <1>8, <1>9, <1>10, <1>11, RingsByParts

LEMMA RingsConfirm ==
    ASSUME SmpTypeOK, RingsSound, NEW s \in Slots, PairingConfirm(s)
    PROVE  RingsSound'
<1>1. /\ SmpTypeOK' /\ UNCHANGED <<try, stale, tries, conf, mem>>
      /\ randq' = randq /\ encryptq' = encryptq /\ ctrl' = ctrl /\ phase[s] = "confirm"
      /\ phase' = [phase EXCEPT ![s] = IF conf[s] = [rand |-> mem[s].rand, of |-> try[s]]
                                       THEN "random" ELSE "failed"]
  BY PairingConfirmTypes DEF PairingConfirm, Say, rings
<1>2. phase \in [Slots -> Phases]
  BY DEF SmpTypeOK
<1>3. ASSUME NEW t \in Slots, Sound(t) PROVE Progress(t)'
  <2>1. Progress(t) /\ HalfFirst(randq, t)
    BY <1>3 DEF RingsSound, Progress
  <2>2. CASE t # s
    <3>1. phase'[t] = phase[t]
      BY <1>1, <1>2, <2>2
    <3> QED
      BY <1>1, <2>1, <3>1, ProgressKept
  <2>3. CASE t = s
    <3>1. mem[s].pres # 0 /\ conf[s] = ValueOf(try[s]) /\ mem[s].rand = <<try[s], try[s]>>
      BY <1>1, <2>1, <2>3 DEF Progress
    <3>2. phase'[s] = "random"
      BY <1>1, <1>2, <3>1 DEF ValueOf
    <3> QED
      BY <1>1, <2>1, <2>3, <3>1, <3>2 DEF Progress, ValueOf
  <2> QED
    BY <2>2, <2>3
<1>4. StartsSound'
  BY <1>1, StartsStay DEF RingsSound
<1> QED
  BY <1>1, <1>3, <1>4, RingsByParts DEF RingsSound

LEMMA RingsRandom ==
    ASSUME SmpTypeOK, RingsSound, NEW s \in Slots, PairingRandom(s)
    PROVE  RingsSound'
<1> DEFINE v == [rand |-> mem[s].rand, of |-> try[s]]
           e == [slot |-> s, cb |-> "stk_complete"]
           d == [op |-> "encrypt", value |-> v]
<1>1. /\ SmpTypeOK' /\ UNCHANGED <<try, stale, tries, conf, mem, randq>> /\ phase[s] = "random"
      /\ phase' = [phase EXCEPT ![s] = "await encryption"] /\ v \in Value
      /\ GetEncrypt(s, "stk_complete", v)
  BY PairingRandomTypes DEF PairingRandom, Say
<1>2. /\ phase \in [Slots -> Phases]
      /\ randq \in Seq(RandEntry) /\ encryptq \in Seq(EncryptEntry) /\ ctrl \in Seq(Command)
  BY DEF SmpTypeOK
<1>3. \/ encryptq' = encryptq /\ ctrl' = ctrl
      \/ encryptq' = Append(encryptq, e) /\ ctrl' = Append(ctrl, d)
  BY <1>1, GetEncryptEffect
<1>4. e \in EncryptEntry /\ d \in Command /\ d.op = "encrypt" /\ d.value = v /\ e.slot = s
  BY <1>1, CommandFields DEF EncryptEntry
<1>5. Sound(s) => /\ Progress(s) /\ v = ValueOf(try[s]) /\ mem[s].pres # 0
                  /\ mem[s].rand = <<try[s], try[s]>> /\ conf[s] = ValueOf(try[s])
  <2>1. Sound(s) => Progress(s)
    BY DEF RingsSound
  <2>2. Sound(s) => mem[s].pres # 0 /\ mem[s].rand = <<try[s], try[s]>> /\ conf[s] = ValueOf(try[s])
    BY <1>1, <2>1 DEF Progress
  <2> QED
    BY <2>1, <2>2 DEF ValueOf
<1>6. <<e, d>> \in EncryptFits
  BY <1>4, <1>5 DEF EncryptFits
<1> HIDE DEF v, e, d
<1>7. Pairing(randq', ctrl', "rand", RandFits) /\ Pairing(encryptq', ctrl', "encrypt", EncryptFits)
  <2>0. Pairing(randq, ctrl, "rand", RandFits) /\ Pairing(encryptq, ctrl, "encrypt", EncryptFits)
    BY DEF RingsSound
  <2>1. CASE encryptq' = encryptq /\ ctrl' = ctrl
    BY <1>1, <2>0, <2>1
  <2>2. CASE encryptq' = Append(encryptq, e) /\ ctrl' = Append(ctrl, d)
    <3>1. d.op # "rand"
      BY <1>4
    <3>2. Pairing(randq, Append(ctrl, d), "rand", RandFits)
      BY <1>2, <1>4, <2>0, <3>1, OtherAdded
    <3>3. Pairing(Append(encryptq, e), Append(ctrl, d), "encrypt", EncryptFits)
      BY <1>2, <1>4, <1>6, <2>0, MatchedAdded
    <3> QED
      BY <1>1, <2>2, <3>2, <3>3
  <2> QED
    BY <1>3, <2>1, <2>2
<1>8. StartsSound'
  <2>1. \A k \in 1 .. Len(ctrl') : ctrl'[k] = d \/ \E j \in 1 .. Len(ctrl) : ctrl'[k] = ctrl[j]
    BY <1>2, <1>3, <1>4, Elements
  <2>2. d.op # "start"
    BY <1>4
  <2> QED
    BY <1>1, <2>1, <2>2, StartsStay DEF RingsSound
<1>9. ASSUME NEW t \in Slots, Sound(t) PROVE Progress(t)'
  <2>1. Progress(t) /\ HalfFirst(randq, t)
    BY <1>9 DEF RingsSound, Progress
  <2>2. CASE t # s
    <3>1. phase'[t] = phase[t]
      BY <1>1, <1>2, <2>2
    <3>2. Awaits(encryptq', t) => Awaits(encryptq, t)
      BY <1>2, <1>3, <1>4, <2>2, LeftAdded
    <3> QED
      BY <1>1, <2>1, <3>1, <3>2, ProgressKept
  <2>3. CASE t = s
    <3>1. phase'[s] = "await encryption"
      BY <1>1, <1>2
    <3>2. mem[s].pres # 0 /\ mem[s].rand = <<try[s], try[s]>> /\ conf[s] = ValueOf(try[s])
      BY <1>5, <1>9, <2>3
    <3> QED
      BY <1>1, <2>1, <2>3, <3>1, <3>2 DEF Progress, ValueOf
  <2> QED
    BY <2>2, <2>3
<1> QED
  BY <1>1, <1>7, <1>8, <1>9, RingsByParts

\* The keys that come afterwards.
LEMMA RingsKeys ==
    ASSUME SmpTypeOK, SmpTypeOK', RingsSound, NEW s \in Slots,
           UNCHANGED <<try, stale, tries, conf, rings>>, phase'[s] \in {"ident", "done", "quit"},
           \A t \in Slots : t # s => phase'[t] = phase[t],
           \A t \in Slots : mem'[t].pres = mem[t].pres /\ mem'[t].rand = mem[t].rand
    PROVE  RingsSound'
<1>1. randq' = randq /\ encryptq' = encryptq /\ ctrl' = ctrl
  BY DEF rings
<1>2. ASSUME NEW t \in Slots, Sound(t) PROVE Progress(t)'
  <2>1. Progress(t) /\ HalfFirst(randq, t)
    BY <1>2 DEF RingsSound, Progress
  <2>2. CASE t # s
    BY <1>1, <2>1, <2>2, ProgressKept
  <2>3. CASE t = s
    BY <1>1, <2>1, <2>3 DEF Progress, ValueOf
  <2> QED
    BY <2>2, <2>3
<1>3. StartsSound'
  BY <1>1, StartsStay DEF RingsSound
<1> QED
  BY <1>1, <1>2, <1>3, RingsByParts DEF RingsSound

LEMMA RingsInfo ==
    ASSUME SmpTypeOK, SlotsUsed, OnePerDevice(le_keys), RingsSound, NEW s \in Slots, EncryptInfo(s)
    PROVE  RingsSound'
<1>1. /\ SmpTypeOK' /\ UNCHANGED <<try, stale, tries, conf, rings, mem>>
      /\ phase' = [phase EXCEPT ![s] = "ident"] /\ phase \in [Slots -> Phases]
  BY EncryptInfoTypes DEF EncryptInfo, Say, SmpTypeOK
<1>2. phase'[s] \in {"ident", "done"} /\ \A t \in Slots : t # s => phase'[t] = phase[t]
  BY <1>1
<1> QED
  BY <1>1, <1>2, RingsKeys

LEMMA RingsIdent ==
    ASSUME SmpTypeOK, SlotsUsed, OnePerDevice(le_keys), RingsSound, NEW s \in Slots, MasterIdent(s)
    PROVE  RingsSound'
<1>1. /\ SmpTypeOK' /\ UNCHANGED <<try, stale, tries, conf, rings>>
      /\ mem' = [mem EXCEPT ![s].rdist = 0] /\ mem \in [Slots -> Mem] /\ mem[s] \in Mem
      /\ phase' = [phase EXCEPT ![s] = "done"] /\ phase \in [Slots -> Phases]
  BY MasterIdentTypes DEF MasterIdent, Say, SmpTypeOK
<1>2. phase'[s] \in {"ident", "done"} /\ \A t \in Slots : t # s => phase'[t] = phase[t]
  BY <1>1
<1>3. \A t \in Slots : mem'[t].pres = mem[t].pres /\ mem'[t].rand = mem[t].rand
  <2> DEFINE n == [mem[s] EXCEPT !.rdist = 0]
  <2>1. n.pres = mem[s].pres /\ n.rand = mem[s].rand
    BY <1>1, MemFields
  <2>2. mem' = [mem EXCEPT ![s] = n]
    BY <1>1
  <2> HIDE DEF n
  <2> QED
    BY <1>1, <2>1, <2>2
<1> QED
  BY <1>1, <1>2, <1>3, RingsKeys

LEMMA RingsFail ==
    ASSUME SmpTypeOK, RingsSound, NEW s \in Slots, PairingFail(s)
    PROVE  RingsSound'
<1>1. /\ SmpTypeOK' /\ UNCHANGED <<try, stale, tries, conf, rings, mem>>
      /\ phase' = [phase EXCEPT ![s] = "quit"] /\ phase \in [Slots -> Phases]
  BY PairingFailTypes DEF PairingFail, Say, SmpTypeOK
<1>2. phase'[s] \in {"ident", "done", "quit"} /\ \A t \in Slots : t # s => phase'[t] = phase[t]
  BY <1>1
<1> QED
  BY <1>1, <1>2, RingsKeys

\* The answer with the half of a random value.
LEMMA RingsRandDone ==
    ASSUME SmpTypeOK, RingsSound, RandDone
    PROVE  RingsSound'
<1> DEFINE s == Head(randq).slot
           v == Head(ctrl).value.rand[1]
           c == [rand |-> <<mem[s].rand[1], v>>, of |-> mem[s].pres]
           e == [slot |-> s, cb |-> "confirm_half"]
           d == [op |-> "encrypt", value |-> c]
           Half == /\ Head(randq).cb = "mrand_half"
                   /\ mem'[s].rand = <<v, mem[s].rand[2]>>
                   /\ encryptq' = encryptq /\ ctrl' = Tail(ctrl)
           Rest == /\ Head(randq).cb = "mrand_complete"
                   /\ mem'[s].rand = <<mem[s].rand[1], v>>
           More == encryptq' = Append(encryptq, e) /\ ctrl' = Append(Tail(ctrl), d)
<1>1. /\ SmpTypeOK' /\ s \in Slots /\ v \in 0 .. MaxTries /\ c \in Value
      /\ randq # <<>> /\ ctrl # <<>> /\ Head(ctrl).op = "rand" /\ randq' = Tail(randq)
      /\ UNCHANGED <<try, stale, tries, phase, conf>>
      /\ \A t \in Slots : t # s => mem'[t] = mem[t]
      /\ mem'[s].pres = mem[s].pres
      /\ Half \/ (Rest /\ ((encryptq' = encryptq /\ ctrl' = Tail(ctrl)) \/ More))
  BY RandDoneEffect
<1>2. /\ randq \in Seq(RandEntry) /\ encryptq \in Seq(EncryptEntry) /\ ctrl \in Seq(Command)
      /\ Tail(ctrl) \in Seq(Command) /\ Head(randq) \in RandEntry /\ Head(ctrl) \in Command
      /\ mem[s].rand \in (0 .. MaxTries) \X (0 .. MaxTries)
  BY <1>1, TakenTypes, SmpTypeFacts, MemFields DEF SmpTypeOK
<1>3. e \in EncryptEntry /\ d \in Command /\ d.op = "encrypt" /\ d.value = c /\ e.slot = s
  BY <1>1, CommandFields DEF EncryptEntry
<1>4. /\ <<Head(randq), Head(ctrl)>> \in RandFits
      /\ Pairing(Tail(randq), Tail(ctrl), "rand", RandFits)
  BY <1>1, <1>2, MatchedTaken DEF RingsSound
<1>5. Pairing(encryptq, Tail(ctrl), "encrypt", EncryptFits)
  <2>1. Head(ctrl).op # "encrypt"
    BY <1>1
  <2> QED
    BY <1>1, <1>2, <2>1, OtherTaken DEF RingsSound
<1>6. ASSUME Sound(s)
      PROVE  /\ Progress(s) /\ v = try[s] /\ mem[s].pres = try[s] /\ try[s] # 0
             /\ Rest => mem[s].rand[1] = try[s] /\ c = ValueOf(try[s])
  <2>1. Head(ctrl).value.rand = <<try[s], try[s]>>
    BY <1>4, <1>6 DEF RandFits
  <2>2. Progress(s)
    BY <1>1, <1>6 DEF RingsSound
  <2>3. Awaits(randq, s)
    BY <1>1, <1>2, LeftTaken
  <2>4. mem[s].pres = try[s] /\ try[s] # 0
    BY <2>2, <2>3 DEF Progress
  <2>5. v = try[s]
    BY <2>1
  <2>6. ASSUME Rest PROVE mem[s].rand[1] = try[s]
    <3>1. HalfFirst(randq, s)
      BY <2>2 DEF Progress
    <3>2. ~Left(randq, s, "mrand_half")
      BY <1>1, <1>2, <2>6, <3>1, LeftTaken
    <3> QED
      BY <2>2, <2>4, <3>2 DEF Progress
  <2> QED
    BY <2>2, <2>4, <2>5, <2>6 DEF ValueOf
<1>7. Rest => <<e, d>> \in EncryptFits
  BY <1>3, <1>6 DEF EncryptFits
<1> HIDE DEF s, v, c, e, d, Half, Rest, More
<1>8. Pairing(randq', ctrl', "rand", RandFits) /\ Pairing(encryptq', ctrl', "encrypt", EncryptFits)
  <2>1. CASE encryptq' = encryptq /\ ctrl' = Tail(ctrl)
    BY <1>1, <1>4, <1>5, <2>1
  <2>2. CASE Rest /\ More
    <3>1. d.op # "rand" /\ encryptq' = Append(encryptq, e) /\ ctrl' = Append(Tail(ctrl), d)
      BY <1>3, <2>2 DEF More
    <3>2. Tail(randq) \in Seq(RandEntry)
      BY <1>1, TakenTypes
    <3>3. Pairing(Tail(randq), Append(Tail(ctrl), d), "rand", RandFits)
      BY <1>2, <1>3, <1>4, <3>1, <3>2, OtherAdded
    <3>4. Pairing(Append(encryptq, e), Append(Tail(ctrl), d), "encrypt", EncryptFits)
      BY <1>2, <1>3, <1>5, <1>7, <2>2, MatchedAdded
    <3> QED
      BY <1>1, <3>1, <3>3, <3>4
  <2> QED
    BY <1>1, <2>1, <2>2 DEF Half
<1>9. StartsSound'
  <2>1. \A k \in 1 .. Len(Tail(ctrl)) : \E j \in 1 .. Len(ctrl) : Tail(ctrl)[k] = ctrl[j]
    BY <1>1, <1>2, Elements
  <2>2. ctrl' = Tail(ctrl) \/ ctrl' = Append(Tail(ctrl), d)
    BY <1>1 DEF Half, More
  <2>3. \A k \in 1 .. Len(ctrl') : ctrl'[k] = d \/ \E j \in 1 .. Len(ctrl) : ctrl'[k] = ctrl[j]
    <3>1. CASE ctrl' = Tail(ctrl)
      BY <2>1, <3>1
    <3>2. CASE ctrl' = Append(Tail(ctrl), d)
      <4>1. \A k \in 1 .. Len(ctrl') : ctrl'[k] = d \/ \E j \in 1 .. Len(Tail(ctrl)) : ctrl'[k] = Tail(ctrl)[j]
        BY <1>2, <1>3, <3>2, Elements
      <4> QED
        BY <2>1, <4>1
    <3> QED
      BY <2>2, <3>1, <3>2
  <2>4. d.op # "start"
    BY <1>3
  <2> QED
    BY <1>1, <2>3, <2>4, StartsStay DEF RingsSound
<1>10. ASSUME NEW t \in Slots, Sound(t) PROVE Progress(t)'
  <2>1. Progress(t) /\ HalfFirst(randq, t)
    BY <1>10 DEF RingsSound, Progress
  <2>2. /\ Awaits(randq', t) => Awaits(randq, t)
        /\ HalfFirst(randq', t)
        /\ \A cb : Left(randq, t, cb) => Left(randq', t, cb) \/ (s = t /\ Head(randq).cb = cb)
    BY <1>1, <1>2, <2>1, LeftTaken DEF s
  <2>3. CASE t # s
    <3>1. Awaits(encryptq', t) => Awaits(encryptq, t)
      <4>1. encryptq' = encryptq \/ encryptq' = Append(encryptq, e)
        BY <1>1 DEF Half, More
      <4>2. Awaits(Append(encryptq, e), t) => Awaits(encryptq, t)
        BY <1>2, <1>3, <2>3, LeftAdded
      <4> QED
        BY <4>1, <4>2
    <3> QED
      BY <1>1, <2>1, <2>2, <2>3, <3>1, ProgressKept
  <2>4. CASE t = s
    <3>1. /\ v = try[s] /\ mem[s].pres = try[s] /\ try[s] # 0
          /\ Rest => mem[s].rand[1] = try[s]
      BY <1>6, <1>10, <2>4
    <3>2. CASE Half
      <4>1. /\ mem'[s].rand = <<try[s], mem[s].rand[2]>> /\ encryptq' = encryptq
            /\ Left(randq, s, "mrand_complete") => Left(randq', s, "mrand_complete")
        BY <2>2, <2>4, <3>1, <3>2 DEF Half
      <4> HIDE DEF ValueOf
      <4>2. mem[s].rand = <<try[s], try[s]>> => mem'[s].rand = <<try[s], try[s]>>
        BY <4>1
      <4>3. mem'[s].rand[1] = try[s] /\ mem'[s].rand[2] = mem[s].rand[2]
        BY <4>1
      <4> QED
        BY <1>1, <2>1, <2>2, <2>4, <3>1, <4>1, <4>2, <4>3 DEF Progress, ValueOf
    <3>3. CASE Rest
      <4>1. mem'[s].rand = <<try[s], try[s]>>
        BY <3>1, <3>3 DEF Rest
      <4>2. mem'[s].rand[1] = try[s] /\ mem'[s].rand[2] = try[s]
        BY <4>1
      <4> QED
        BY <1>1, <2>1, <2>2, <2>4, <3>1, <4>1, <4>2 DEF Progress, ValueOf
    <3> QED
      BY <1>1, <3>2, <3>3
  <2> QED
    BY <2>3, <2>4
<1> QED
  BY <1>1, <1>8, <1>9, <1>10, RingsByParts

\* The answers with an encrypted value: two for a confirm value, ...
LEMMA EncryptTaken ==
    ASSUME SmpTypeOK, RingsSound, encryptq # <<>>, ctrl # <<>>, Head(ctrl).op = "encrypt"
    PROVE  /\ <<Head(encryptq), Head(ctrl)>> \in EncryptFits
           /\ Pairing(randq, Tail(ctrl), "rand", RandFits)
           /\ Pairing(Tail(encryptq), Tail(ctrl), "encrypt", EncryptFits)
           /\ \A k \in 1 .. Len(Tail(ctrl)) : \E j \in 1 .. Len(ctrl) : Tail(ctrl)[k] = ctrl[j]
           /\ \A t \in Slots : Awaits(Tail(encryptq), t) => Awaits(encryptq, t)
           /\ Awaits(encryptq, Head(encryptq).slot)
           /\ Sound(Head(encryptq).slot) =>
                 /\ Progress(Head(encryptq).slot)
                 /\ Head(ctrl).value = ValueOf(try[Head(encryptq).slot])
                 /\ mem[Head(encryptq).slot].pres # 0
                 /\ mem[Head(encryptq).slot].rand = <<try[Head(encryptq).slot], try[Head(encryptq).slot]>>
<1>1. /\ randq \in Seq(RandEntry) /\ encryptq \in Seq(EncryptEntry) /\ ctrl \in Seq(Command)
      /\ Head(encryptq).slot \in Slots
  BY SmpTypeFacts DEF SmpTypeOK
<1>2. /\ <<Head(encryptq), Head(ctrl)>> \in EncryptFits
      /\ Pairing(Tail(encryptq), Tail(ctrl), "encrypt", EncryptFits)
  BY <1>1, MatchedTaken DEF RingsSound
<1>3. Pairing(randq, Tail(ctrl), "rand", RandFits)
  <2>1. Head(ctrl).op # "rand"
    OBVIOUS
  <2> QED
    BY <1>1, <2>1, OtherTaken DEF RingsSound
<1>4. \A k \in 1 .. Len(Tail(ctrl)) : \E j \in 1 .. Len(ctrl) : Tail(ctrl)[k] = ctrl[j]
  BY <1>1, Elements
<1>5. /\ \A t \in Slots : Awaits(Tail(encryptq), t) => Awaits(encryptq, t)
      /\ Awaits(encryptq, Head(encryptq).slot)
  BY <1>1, LeftTaken
<1> DEFINE s == Head(encryptq).slot
<1>6. ASSUME Sound(s)
      PROVE  /\ Progress(s) /\ Head(ctrl).value = ValueOf(try[s]) /\ mem[s].pres # 0
             /\ mem[s].rand = <<try[s], try[s]>>
  <2>1. Head(ctrl).value = ValueOf(try[s])
    BY <1>2, <1>6 DEF EncryptFits
  <2>2. Progress(s)
    BY <1>1, <1>6 DEF RingsSound
  <2> QED
    BY <1>5, <2>1, <2>2 DEF Progress
<1> QED
  BY <1>2, <1>3, <1>4, <1>5, <1>6

LEMMA RingsConfirmHalf ==
    ASSUME SmpTypeOK, RingsSound, ConfirmHalf
    PROVE  RingsSound'
<1> DEFINE s == Head(encryptq).slot
           e == [slot |-> s, cb |-> "confirm_complete"]
           d == Head(ctrl)
<1>1. /\ SmpTypeOK' /\ s \in Slots /\ e \in EncryptEntry
      /\ encryptq # <<>> /\ ctrl # <<>> /\ d.op = "encrypt"
      /\ encryptq' = Append(Tail(encryptq), e) /\ ctrl' = Append(Tail(ctrl), d)
      /\ \A t \in Slots : mem'[t].pres = mem[t].pres /\ mem'[t].rand = mem[t].rand
      /\ UNCHANGED <<try, stale, tries, phase, conf, randq>>
  BY ConfirmHalfEffect
<1>2. /\ randq \in Seq(RandEntry) /\ Tail(encryptq) \in Seq(EncryptEntry) /\ Tail(ctrl) \in Seq(Command)
      /\ d \in Command
  BY <1>1, TakenTypes, SmpTypeFacts DEF SmpTypeOK
<1>3. /\ Pairing(randq, Tail(ctrl), "rand", RandFits)
      /\ Pairing(Tail(encryptq), Tail(ctrl), "encrypt", EncryptFits)
      /\ \A k \in 1 .. Len(Tail(ctrl)) : \E j \in 1 .. Len(ctrl) : Tail(ctrl)[k] = ctrl[j]
      /\ \A t \in Slots : Awaits(Tail(encryptq), t) => Awaits(encryptq, t)
      /\ Awaits(encryptq, s)
      /\ Sound(s) => d.value = ValueOf(try[s])
  BY <1>1, EncryptTaken
<1>4. e.slot = s
  OBVIOUS
<1>5. <<e, d>> \in EncryptFits
  BY <1>1, <1>2, <1>3, <1>4 DEF EncryptFits
<1> HIDE DEF s, e, d
<1>6. Pairing(encryptq', ctrl', "encrypt", EncryptFits)
  BY <1>1, <1>2, <1>3, <1>5, MatchedAdded
<1>7. Pairing(randq', ctrl', "rand", RandFits)
  <2>1. d.op # "rand"
    BY <1>1
  <2> QED
    BY <1>1, <1>2, <1>3, <2>1, OtherAdded
<1>8. StartsSound'
  <2>1. \A k \in 1 .. Len(ctrl') : ctrl'[k] = d \/ \E j \in 1 .. Len(Tail(ctrl)) : ctrl'[k] = Tail(ctrl)[j]
    BY <1>1, <1>2, Elements
  <2>2. d.op # "start"
    BY <1>1
  <2>3. \A k \in 1 .. Len(ctrl') : ctrl'[k].op = "start" => \E j \in 1 .. Len(ctrl) : ctrl'[k] = ctrl[j]
    BY <1>3, <2>1, <2>2
  <2> QED
    BY <1>1, <2>3, StartsStay DEF RingsSound
<1>9. ASSUME NEW t \in Slots, Sound(t) PROVE Progress(t)'
  <2>1. Progress(t) /\ HalfFirst(randq, t)
    BY <1>9 DEF RingsSound, Progress
  <2>2. Awaits(encryptq', t) => Awaits(encryptq, t)
    <3>1. Awaits(encryptq', t) => Awaits(Tail(encryptq), t) \/ e.slot = t
      <4>1. Awaits(Append(Tail(encryptq), e), t) => Awaits(Tail(encryptq), t) \/ e.slot = t
        <5>1. Tail(encryptq) \in Seq(EncryptEntry) /\ e \in EncryptEntry
          BY <1>1, <1>2
        <5> QED
          BY <5>1, LeftAdded
      <4> QED
        BY <1>1, <4>1
    <3> QED
      BY <1>3, <1>4, <3>1
  <2> QED
    BY <1>1, <2>1, <2>2, ProgressKept
<1> QED
  BY <1>1, <1>6, <1>7, <1>8, <1>9, RingsByParts

LEMMA RingsConfirmComplete ==
    ASSUME SmpTypeOK, RingsSound, ConfirmComplete
    PROVE  RingsSound'
<1> DEFINE s == Head(encryptq).slot
<1>1. /\ SmpTypeOK' /\ s \in Slots
      /\ encryptq # <<>> /\ ctrl # <<>> /\ Head(ctrl).op = "encrypt"
      /\ encryptq' = Tail(encryptq) /\ ctrl' = Tail(ctrl)
      /\ \A t \in Slots : mem'[t].pres = mem[t].pres /\ mem'[t].rand = mem[t].rand
      /\ \A t \in Slots : t # s => conf'[t] = conf[t] /\ phase'[t] = phase[t]
      /\ try[s] # 0 => conf'[s] = Head(ctrl).value
      /\ phase'[s] = phase[s] \/ (phase[s] = "await confirm" /\ phase'[s] = "confirm")
      /\ UNCHANGED <<try, stale, tries, randq>>
  BY ConfirmCompleteEffect
<1>2. /\ Pairing(randq, Tail(ctrl), "rand", RandFits)
      /\ Pairing(Tail(encryptq), Tail(ctrl), "encrypt", EncryptFits)
      /\ \A k \in 1 .. Len(Tail(ctrl)) : \E j \in 1 .. Len(ctrl) : Tail(ctrl)[k] = ctrl[j]
      /\ \A t \in Slots : Awaits(Tail(encryptq), t) => Awaits(encryptq, t)
      /\ Sound(s) => /\ Progress(s) /\ Head(ctrl).value = ValueOf(try[s]) /\ mem[s].pres # 0
                     /\ mem[s].rand = <<try[s], try[s]>>
  BY <1>1, EncryptTaken
<1> HIDE DEF s
<1>3. StartsSound'
  BY <1>1, <1>2, StartsStay DEF RingsSound
<1>4. ASSUME NEW t \in Slots, Sound(t) PROVE Progress(t)'
  <2>1. Progress(t) /\ HalfFirst(randq, t)
    BY <1>4 DEF RingsSound, Progress
  <2>2. Awaits(encryptq', t) => Awaits(encryptq, t)
    BY <1>1, <1>2
  <2>3. CASE t # s
    BY <1>1, <2>1, <2>2, <2>3, ProgressKept
  <2>4. CASE t = s
    <3>1. /\ mem[s].pres # 0 /\ mem[s].rand = <<try[s], try[s]>> /\ conf'[s] = ValueOf(try[s])
      BY <1>1, <1>2, <1>4, <2>4 DEF Sound
    <3>2. /\ phase'[s] = "rsp" => phase[s] = "rsp"
          /\ phase'[s] \notin {"failed", "refused"}
      BY <1>1, <2>1, <2>4 DEF Progress
    <3> QED
      BY <1>1, <2>1, <2>2, <2>4, <3>1, <3>2 DEF Progress, ValueOf
  <2> QED
    BY <2>3, <2>4
<1> QED
  BY <1>1, <1>2, <1>3, <1>4, RingsByParts

\* ... and one for the key of the link, ...
LEMMA RingsStkComplete ==
    ASSUME SmpTypeOK, SlotsUsed, RingsSound, StkComplete
    PROVE  RingsSound'
<1> DEFINE s == Head(encryptq).slot
           c == [op |-> "start", slot |-> s, of |-> try[s], value |-> Head(ctrl).value]
<1>1. /\ SmpTypeOK' /\ s \in Slots /\ c \in Command
      /\ encryptq # <<>> /\ ctrl # <<>> /\ Head(ctrl).op = "encrypt"
      /\ encryptq' = Tail(encryptq) /\ ctrl' = Append(Tail(ctrl), c)
      /\ \A t \in Slots : mem'[t].pres = mem[t].pres /\ mem'[t].rand = mem[t].rand
      /\ UNCHANGED <<try, stale, tries, phase, conf, randq>>
  BY StkCompleteEffect
<1>2. /\ randq \in Seq(RandEntry) /\ Tail(encryptq) \in Seq(EncryptEntry) /\ Tail(ctrl) \in Seq(Command)
  BY <1>1, TakenTypes DEF SmpTypeOK
<1>3. /\ Pairing(randq, Tail(ctrl), "rand", RandFits)
      /\ Pairing(Tail(encryptq), Tail(ctrl), "encrypt", EncryptFits)
      /\ \A k \in 1 .. Len(Tail(ctrl)) : \E j \in 1 .. Len(ctrl) : Tail(ctrl)[k] = ctrl[j]
      /\ \A t \in Slots : Awaits(Tail(encryptq), t) => Awaits(encryptq, t)
      /\ Sound(s) => Head(ctrl).value = ValueOf(try[s])
  BY <1>1, EncryptTaken
<1>4. c.op = "start" /\ c.slot = s /\ c.of = try[s] /\ c.value = Head(ctrl).value
  OBVIOUS
<1> HIDE DEF s, c
<1>5. Pairing(randq', ctrl', "rand", RandFits) /\ Pairing(encryptq', ctrl', "encrypt", EncryptFits)
  <2>1. c.op # "rand" /\ c.op # "encrypt"
    BY <1>4
  <2>2. Pairing(randq, Append(Tail(ctrl), c), "rand", RandFits)
    BY <1>1, <1>2, <1>3, <2>1, OtherAdded
  <2>3. Pairing(Tail(encryptq), Append(Tail(ctrl), c), "encrypt", EncryptFits)
    BY <1>1, <1>2, <1>3, <2>1, OtherAdded
  <2> QED
    BY <1>1, <2>2, <2>3
<1>6. StartsSound'
  <2>1. \A k \in 1 .. Len(ctrl') : ctrl'[k] = c \/ \E j \in 1 .. Len(Tail(ctrl)) : ctrl'[k] = Tail(ctrl)[j]
    <3>1. Tail(ctrl) \in Seq(Command) /\ c \in Command /\ ctrl' = Append(Tail(ctrl), c)
      BY <1>1, <1>2
    <3> QED
      BY <3>1, Elements
  <2> SUFFICES ASSUME NEW k \in 1 .. Len(ctrl'), NEW b, b = ctrl'[k], b.op = "start"
               PROVE  /\ b.of <= tries'
                      /\ Sound(b.slot)' /\ b.of = try'[b.slot] => b.value = ValueOf(b.of)
    BY DEF StartsSound, ValueOf, Sound
  <2>2. \A t : Sound(t)' = Sound(t)
    BY <1>1, FitsSame
  <2>3. CASE b = c
    <3>1. try[s] <= tries
      BY <1>1 DEF SlotsUsed
    <3> QED
      BY <1>1, <1>3, <1>4, <2>2, <2>3, <3>1
  <2>4. CASE b # c
    <3>1. PICK j \in 1 .. Len(ctrl) : b = ctrl[j]
      BY <1>3, <2>1, <2>4
    <3>2. b.of <= tries /\ (Sound(b.slot) /\ b.of = try[b.slot] => b.value = ValueOf(b.of))
      BY <3>1 DEF RingsSound, StartsSound
    <3> QED
      BY <1>1, <2>2, <3>2
  <2> QED
    BY <2>3, <2>4
<1>7. ASSUME NEW t \in Slots, Sound(t) PROVE Progress(t)'
  <2>1. Progress(t) /\ HalfFirst(randq, t)
    BY <1>7 DEF RingsSound, Progress
  <2> QED
    BY <1>1, <1>3, <2>1, ProgressKept
<1> QED
  BY <1>1, <1>5, <1>6, <1>7, RingsByParts

\* ... that the link is then encrypted with.
LEMMA RingsEncrypted ==
    ASSUME SmpTypeOK, RingsSound, Encrypted
    PROVE  RingsSound'
<1> DEFINE c == Head(ctrl)
           s == c.slot
<1>1. /\ SmpTypeOK' /\ c \in Command /\ s \in Slots
      /\ ctrl # <<>> /\ c.op = "start" /\ ctrl' = Tail(ctrl)
      /\ \A t \in Slots : t # s => phase'[t] = phase[t]
      /\ \/ phase'[s] = phase[s]
         \/ /\ c.of = try[s] /\ phase[s] = "await encryption"
            /\ \/ phase'[s] \in {"done", "info"}
               \/ phase'[s] = "refused" /\ c.value # [rand |-> conf[s].rand, of |-> try[s]]
      /\ UNCHANGED <<try, stale, tries, mem, conf, randq, encryptq>>
  BY EncryptedEffect
<1>2. randq \in Seq(RandEntry) /\ encryptq \in Seq(EncryptEntry) /\ ctrl \in Seq(Command)
  BY DEF SmpTypeOK
<1>3. Pairing(randq, Tail(ctrl), "rand", RandFits) /\ Pairing(encryptq, Tail(ctrl), "encrypt", EncryptFits)
  <2>1. c.op # "rand" /\ c.op # "encrypt"
    BY <1>1
  <2> QED
    BY <1>1, <1>2, <2>1, OtherTaken DEF RingsSound
<1>4. StartsSound'
  <2>1. \A k \in 1 .. Len(Tail(ctrl)) : \E j \in 1 .. Len(ctrl) : Tail(ctrl)[k] = ctrl[j]
    <3>1. ctrl # <<>>
      BY <1>1
    <3> QED
      BY <1>2, <3>1, Elements
  <2> QED
    BY <1>1, <2>1, StartsStay DEF RingsSound
<1>5. Sound(s) /\ c.of = try[s] => c.value = ValueOf(try[s])
  <2>1. 1 \in 1 .. Len(ctrl) /\ c = ctrl[1]
    <3>1. ctrl # <<>>
      BY <1>1
    <3> QED
      BY <1>2, <3>1, HeadAndTail
  <2> QED
    BY <1>1, <2>1 DEF RingsSound, StartsSound
<1> HIDE DEF c, s
<1>6. ASSUME NEW t \in Slots, Sound(t) PROVE Progress(t)'
  <2>1. Progress(t) /\ HalfFirst(randq, t)
    BY <1>6 DEF RingsSound, Progress
  <2>2. CASE phase'[t] = phase[t]
    BY <1>1, <2>1, <2>2, ProgressKept
  <2>3. CASE phase'[t] # phase[t]
    <3>1. t = s /\ c.of = try[s] /\ phase[s] = "await encryption"
      BY <1>1, <2>3
    <3>2. conf[s] = ValueOf(try[s]) /\ c.value = ValueOf(try[s])
      BY <1>5, <1>6, <2>1, <3>1 DEF Progress
    <3>3. phase'[s] \in {"done", "info"}
      <4>1. c.value = [rand |-> conf[s].rand, of |-> try[s]]
        BY <3>2 DEF ValueOf
      <4>2. phase'[s] # phase[s]
        BY <2>3, <3>1
      <4> QED
        BY <1>1, <4>1, <4>2
    <3> QED
      BY <1>1, <2>1, <3>1, <3>3 DEF Progress, ValueOf
  <2> QED
    BY <2>2, <2>3
<1> QED
  BY <1>1, <1>3, <1>4, <1>6, RingsByParts

-----------------------------------------------------------------------------
(* The invariant.                                                          *)

LEMMA RingsStaySound ==
    ASSUME SmpTypeOK, SlotsUsed, OnePerDevice(le_keys), BondsStored, RingsSound, SmpNext, trouble' = {}
    PROVE  RingsSound'
<1>1. ~CommandFails
  BY CommandFailsTypes
<1>2. \A s \in Slots : PairingRsp(s) => RingsSound'
  BY RingsRsp
<1> QED
  BY <1>1, <1>2, RingsClaim, RingsLost, RingsConfirm, RingsRandom, RingsInfo, RingsIdent, RingsFail, RingsRandDone,
     RingsConfirmHalf, RingsConfirmComplete, RingsStkComplete, RingsEncrypted DEF SmpNext

LEMMA SmpStarts == ASSUME SmpInit PROVE SmpInv
<1>1. SmpTypeOK
  <2>1. hid \in [Slots -> BOOLEAN]
    BY Zenon DEF SmpInit
  <2>2. /\ try \in [Slots -> 0 .. MaxTries] /\ who \in [Slots -> Remotes \cup {NOBODY}]
        /\ mem \in [Slots -> Mem] /\ conf \in [Slots -> Value] /\ bond \in [Remotes -> 0 .. MaxTries]
        /\ tries \in 0 .. MaxTries /\ errors \in 0 .. MaxErrors /\ le_keys \in LeKeyArray
    BY SmpFacts DEF SmpInit
  <2>3. phase \in [Slots -> Phases]
    BY DEF SmpInit, Phases
  <2>4. /\ randq \in Seq(RandEntry) /\ encryptq \in Seq(EncryptEntry) /\ ctrl \in Seq(Command)
        /\ Len(randq) <= RingLen /\ Len(encryptq) <= RingLen
    BY SmpFacts DEF SmpInit
  <2>5. stale \subseteq Slots /\ trouble \subseteq {"half a key", "full", "error"}
    BY DEF SmpInit
  <2> QED
    BY <2>1, <2>2, <2>3, <2>4, <2>5 DEF SmpTypeOK
<1>2. SlotsUsed
  BY DEF SmpInit, SlotsUsed
<1>3. OnePerDevice(le_keys)
  BY SmpFacts DEF SmpInit
<1>4. BondsStored
  BY SmpFacts DEF SmpInit, BondsStored
<1>5. RingsSound
  <2>1. \A s \in Slots : ~Sound(s)
    BY DEF SmpInit, Sound
  <2>2. StartsSound
    BY DEF SmpInit, StartsSound
  <2>3. ASSUME NEW op, NEW Fits PROVE Pairing(<<>>, <<>>, op, Fits)
    <3>1. Len(<<>>) = 0 /\ 1 .. 0 = {}
      OBVIOUS
    <3> DEFINE f == [i \in 1 .. 0 |-> 0]
    <3>2. f \in [1 .. 0 -> 1 .. 0]
      BY <3>1
    <3> QED
      BY <3>1, <3>2 DEF Pairing
  <2> QED
    BY <2>1, <2>2, <2>3 DEF SmpInit, RingsSound
<1> QED
  BY <1>1, <1>2, <1>3, <1>4, <1>5 DEF SmpInv

(***************************************************************************)
(* Whatever the order of the answers and of the messages, every step of a  *)
(* pairing keeps the invariant: the types, the use of the slots, one entry *)
(* for a controller in the array of the LE keys, and, without trouble, the *)
(* stored keys and the two rings as they should be.                        *)
(***************************************************************************)
THEOREM SmpInvariant == SmpSpec => []SmpInv
<1>1. ASSUME SmpInv, [SmpNext]_smpvars PROVE SmpInv'
  <2>1. CASE SmpNext
    <3>1. SmpTypeOK' /\ SlotsUsed' /\ OnePerDevice(le_keys)' /\ trouble \subseteq trouble'
      BY <1>1, <2>1, TypesAndSlots DEF SmpInv
    <3>2. ("half a key" \notin trouble => BondsStored)' 
      <4>1. ASSUME "half a key" \notin trouble' PROVE BondsStored'
        <5>1. "half a key" \notin trouble
          BY <3>1, <4>1
        <5>2. BondsStored
          BY <1>1, <5>1 DEF SmpInv
        <5> QED
          BY <1>1, <2>1, <4>1, <5>2, BondsStayStored DEF SmpInv
      <4> QED
        BY <4>1
    <3>3. (trouble = {} => RingsSound)'
      <4>1. ASSUME trouble' = {} PROVE RingsSound'
        <5>1. trouble = {}
          BY <3>1, <4>1
        <5>2. BondsStored /\ RingsSound
          BY <1>1, <5>1 DEF SmpInv
        <5> QED
          BY <1>1, <2>1, <4>1, <5>2, RingsStaySound DEF SmpInv
      <4> QED
        BY <4>1
    <3> QED
      BY <3>1, <3>2, <3>3 DEF SmpInv
  <2>2. CASE UNCHANGED smpvars
    <3>1. /\ UNCHANGED <<try, who, mem, hid, phase, conf, ctrl, randq, encryptq, le_keys, bond, tries, errors>>
          /\ UNCHANGED <<stale, trouble>>
      BY <2>2 DEF smpvars, slots, rings
    <3>2. SmpTypeOK' /\ SlotsUsed' /\ OnePerDevice(le_keys)'
      BY <1>1, <3>1 DEF SmpInv, SmpTypeOK, SlotsUsed, OnePerDevice
    <3>3. BondsStored' <=> BondsStored
      BY <3>1 DEF BondsStored
    <3>4. ASSUME RingsSound PROVE RingsSound'
      <4>1. \A t \in Slots : Sound(t) => Progress(t)'
        BY <3>1, <3>4 DEF RingsSound, Progress, ValueOf
      <4>2. StartsSound'
        BY <3>1, <3>4 DEF RingsSound, StartsSound, Sound, ValueOf
      <4>3. Pairing(randq', ctrl', "rand", RandFits) /\ Pairing(encryptq', ctrl', "encrypt", EncryptFits)
        BY <3>1, <3>4 DEF RingsSound
      <4> QED
        BY <1>1, <3>1, <3>2, <3>4, <4>1, <4>2, <4>3, RingsByParts DEF SmpInv
    <3> QED
      BY <1>1, <3>1, <3>2, <3>3, <3>4 DEF SmpInv
  <2> QED
    BY <1>1, <2>1, <2>2
<1> QED
  BY <1>1, SmpStarts, PTL DEF SmpSpec

(***************************************************************************)
(* The two parts of a stored LE key are of one pairing, and of the last    *)
(* one, for any number of controllers and entries: KeysOfOnePairing.       *)
(***************************************************************************)
THEOREM KeysAreOfOnePairing == SmpSpec => []KeysOfOnePairing
<1>1. ASSUME SmpInv PROVE KeysOfOnePairing
  <2> SUFFICES ASSUME BondsStored, NEW d \in Remotes, Having(le_keys, d) # {}
               PROVE  \/ Find(le_keys, d).key = bond[d] /\ Find(le_keys, d).ident = bond[d]
                      \/ \E s \in Slots : who[s] = d /\ phase[s] = "ident"
    BY <1>1 DEF SmpInv, KeysOfOnePairing
  <2> DEFINE j == LastOf(Having(le_keys, d))
  <2>1. j \in Entries /\ le_keys.keys[j].dev = d /\ Find(le_keys, d) = le_keys.keys[j]
    BY <1>1, LeLastFact DEF Find, SmpInv, SmpTypeOK
  <2> HIDE DEF j
  <2> QED
    BY <2>1, ConstantFacts DEF BondsStored
<1> QED
  BY <1>1, SmpInvariant, PTL

(***************************************************************************)
(* No confirm value is refused and no link is encrypted with a wrong key,  *)
(* however many pairings share the two rings, except where the slot was    *)
(* used again too early, or something else went wrong: ConfirmsItsRandom.  *)
(***************************************************************************)
THEOREM ConfirmsStaySound == SmpSpec => []ConfirmsItsRandom
<1>1. ASSUME SmpInv PROVE ConfirmsItsRandom
  <2> SUFFICES ASSUME NEW s \in Slots, phase[s] \in {"failed", "refused"}, s \notin stale, trouble = {}
               PROVE  FALSE
    BY DEF ConfirmsItsRandom
  <2>1. SlotsUsed /\ RingsSound
    BY <1>1 DEF SmpInv
  <2>2. try[s] # 0
    BY <2>1 DEF SlotsUsed
  <2> QED
    BY <2>1, <2>2 DEF Sound, RingsSound, Progress
<1> QED
  BY <1>1, SmpInvariant, PTL

-----------------------------------------------------------------------------
(* Where the attributes of a report are.                                  *)
LEMMA ChrcGrows ==
    ASSUME NEW m \in Nat, NEW n \in Nat
    PROVE  /\ ChrcOf(m) \in Nat
           /\ m < n => ChrcOf(m) + 3 <= ChrcOf(n) /\ RefOfReport(m) < ChrcOf(n)
           /\ m > 0 => CccOf(m) <= RefOfReport(m) /\ ChrcOf(m) + 1 < RefOfReport(m)
                       /\ (m # 2 => CccOf(m) < RefOfReport(m)) /\ ChrcOf(m) >= 4
           /\ RefOfReport(m) < ChrcOf(m + 1) /\ RefOfReport(m) \in Nat /\ CccOf(m) \in Nat
BY DEF ChrcOf, RefOfReport, CccOf

LEMMA ReportOfFact ==
    ASSUME NEW h \in Nat
    PROVE  /\ ReportOf(h) \in Nat
           /\ ReportOf(h) = 0 <=> h < 4
           /\ ReportOf(h) > 0 => ChrcOf(ReportOf(h)) <= h /\ h < ChrcOf(ReportOf(h) + 1)
BY DEF ReportOf, ChrcOf

LEMMA ReportIs ==
    ASSUME NEW h \in Nat, NEW n \in Nat \ {0}, ChrcOf(n) <= h, h < ChrcOf(n + 1)
    PROVE  ReportOf(h) = n
BY DEF ReportOf, ChrcOf

LEMMA UuidFact ==
    ASSUME NEW h \in Nat \ {0}
    PROVE  LET n == ReportOf(h)
           IN /\ Uuid(h) = "CHRC" <=> h = 2 \/ (n > 0 /\ h = ChrcOf(n))
              /\ Uuid(h) = "REPORT" <=> n > 0 /\ h = ChrcOf(n) + 1
              /\ Uuid(h) = "CCC" <=> n > 0 /\ n # 2 /\ h = CccOf(n)
              /\ Uuid(h) = "REF" <=> n > 0 /\ h = RefOfReport(n)
<1>1. CASE h < 4
  <2>1. ReportOf(h) = 0 /\ h \in {1, 2, 3} /\ ChrcOf(1) = 4
    BY <1>1, ReportOfFact DEF ChrcOf
  <2>2. Uuid(h) = <<"PRIMARY", "CHRC", "MAP">>[h]
    BY <1>1, <2>1 DEF Uuid
  <2> QED
    BY <2>1, <2>2
<1>2. CASE h >= 4
  <2> DEFINE n == ReportOf(h)
  <2>1. n \in Nat /\ n > 0 /\ ChrcOf(n) <= h /\ h < ChrcOf(n + 1) /\ ChrcOf(1) = 4
    BY <1>2, ReportOfFact DEF ChrcOf
  <2>2. Uuid(h) = ReportAttributes(n)[h - ChrcOf(n) + 1]
    BY <1>2, <2>1 DEF Uuid
  <2>3. CASE n = 2
    <3>1. ChrcOf(2) = 8 /\ ChrcOf(3) = 11
      BY DEF ChrcOf
    <3>2. Uuid(h) = <<"CHRC", "REPORT", "REF">>[h - 7] /\ h \in 8 .. 10
      BY <2>1, <2>2, <2>3, <3>1 DEF ReportAttributes
    <3>3. RefOfReport(n) = 10
      BY <2>3, <3>1 DEF RefOfReport
    <3> HIDE DEF n
    <3> QED
      BY <3>1, <3>2, <3>3, <2>3 DEF n
  <2>4. CASE n # 2
    <3>1. ChrcOf(n + 1) = ChrcOf(n) + 4 /\ ChrcOf(n) \in Nat
      BY <2>1, <2>4 DEF ChrcOf
    <3> DEFINE k == h - ChrcOf(n) + 1
    <3>2. k \in 1 .. 4 /\ Uuid(h) = <<"CHRC", "REPORT", "CCC", "REF">>[k]
      BY <2>1, <2>2, <2>4, <3>1 DEF ReportAttributes
    <3>3. CccOf(n) = ChrcOf(n) + 2 /\ RefOfReport(n) = ChrcOf(n) + 3
      BY <3>1 DEF CccOf, RefOfReport
    <3>4. /\ Uuid(h) = "CHRC" <=> k = 1
          /\ Uuid(h) = "REPORT" <=> k = 2
          /\ Uuid(h) = "CCC" <=> k = 3
          /\ Uuid(h) = "REF" <=> k = 4
      BY <3>2
    <3>5. h # 2
      BY <1>2
    <3> QED
      BY <3>1, <3>3, <3>4, <3>5, <2>1, <2>4
  <2> QED
    BY <2>3, <2>4
<1> QED
  BY <1>1, <1>2

LEMMA ChrcReached ==
    ASSUME NEW h \in Nat, NEW n \in Nat \ {0}
    PROVE  ChrcOf(n) <= h <=> n <= ReportOf(h)
<1>1. ReportOf(h) \in Nat /\ (ReportOf(h) = 0 <=> h < 4)
  BY ReportOfFact
<1>2. CASE ReportOf(h) = 0
  <2>1. ChrcOf(n) >= 4
    BY ChrcGrows
  <2> QED
    BY <1>1, <1>2, <2>1, ChrcGrows
<1>3. CASE ReportOf(h) > 0
  <2> DEFINE m == ReportOf(h)
  <2>1. ChrcOf(m) <= h /\ h < ChrcOf(m + 1)
    BY <1>3, ReportOfFact
  <2> HIDE DEF m
  <2>2. ASSUME n <= m PROVE ChrcOf(n) <= h
    BY <2>1, <2>2, <1>1 DEF m, ChrcOf
  <2>3. ASSUME n > m PROVE ChrcOf(n) > h
    <3>1. m + 1 <= n /\ m + 1 \in Nat
      BY <2>3, <1>1 DEF m
    <3>2. ChrcOf(m + 1) <= ChrcOf(n)
      BY <3>1, <1>1 DEF m, ChrcOf
    <3> QED
      BY <2>1, <3>1, <3>2, ChrcGrows
  <2> QED
    BY <2>2, <2>3, <1>1, ChrcGrows DEF m
<1> QED
  BY <1>1, <1>2, <1>3

LEMMA ReportGrows ==
    ASSUME NEW g \in Nat, NEW h \in Nat, g <= h
    PROVE  ReportOf(g) <= ReportOf(h)
<1>1. ReportOf(g) \in Nat /\ ReportOf(h) \in Nat
  BY ReportOfFact
<1>2. CASE ReportOf(g) = 0
  BY <1>1, <1>2
<1>3. CASE ReportOf(g) > 0
  <2>1. ChrcOf(ReportOf(g)) <= h /\ ChrcOf(ReportOf(g)) \in Nat
    BY <1>1, <1>3, ReportOfFact, ChrcGrows
  <2> QED
    BY <1>1, <1>3, <2>1, ChrcReached
<1> QED
  BY <1>1, <1>2, <1>3

\* The handle of an attribute of a report tells the report.
LEMMA AttributesOf ==
    ASSUME NEW n \in Nat \ {0}
    PROVE  /\ ReportOf(ChrcOf(n)) = n /\ ReportOf(ChrcOf(n) + 1) = n
           /\ ReportOf(RefOfReport(n)) = n /\ ReportOf(CccOf(n)) = n
<1>1. /\ ChrcOf(n) \in Nat /\ RefOfReport(n) \in Nat /\ CccOf(n) \in Nat
      /\ ChrcOf(n) + 1 < RefOfReport(n) /\ CccOf(n) <= RefOfReport(n) /\ RefOfReport(n) < ChrcOf(n + 1)
      /\ CccOf(n) = ChrcOf(n) + 2
  BY ChrcGrows DEF CccOf
<1>2. ChrcOf(n + 1) \in Nat
  BY ChrcGrows
<1> QED
  BY <1>1, <1>2, ReportIs

-----------------------------------------------------------------------------
(* What an answer with attributes does to the table.                       *)

\* report_cnt goes up at the characteristic of every report but the first.
LEMMA NextsFact ==
    ASSUME NEW s \in HidSlots, NEW h \in Nat \ {0}, NEW last \in Nat, h <= last,
           att_hid[s].found = (IF FoundAt(h - 1) THEN 1 ELSE 0), ReportOf(h - 1) <= HID_MAX_REPORT
    PROVE  NextReports(s, h, last) = {c \in h .. last : ReportOf(c) >= 2 /\ c = ChrcOf(ReportOf(c))}
<1> DEFINE Between(a, c) == \A b \in a .. c - 1 : Uuid(b) # "CHRC"
           Counted(c) == \/ att_hid[s].found = 1 /\ Between(h, c)
                         \/ \E r \in h .. c - 1 : Uuid(r) = "REPORT" /\ Between(r, c)
<1>1. NextReports(s, h, last) = {c \in h .. last : Uuid(c) = "CHRC" /\ Counted(c)}
  BY DEF NextReports
<1>2. h - 1 \in Nat /\ ReportOf(h - 1) \in Nat
  BY ReportOfFact
<1>3. att_hid[s].found = 1 <=> ReportOf(h - 1) > 0 /\ h - 1 > ChrcOf(ReportOf(h - 1))
  BY <1>2 DEF FoundAt, HID_MAX_REPORT
<1>4. ASSUME NEW c \in h .. last, Uuid(c) = "CHRC", Counted(c)
      PROVE  ReportOf(c) >= 2 /\ c = ChrcOf(ReportOf(c))
  <2>1. c \in Nat \ {0} /\ ReportOf(c) \in Nat /\ (c = 2 \/ (ReportOf(c) > 0 /\ c = ChrcOf(ReportOf(c))))
    BY <1>4, UuidFact, ReportOfFact
  <2>2. SUFFICES ASSUME c = 2 \/ ReportOf(c) = 1 PROVE FALSE
    <3>1. c = 2 => ReportOf(c) = 0
      BY ReportOfFact
    <3> QED
      BY <2>1, <2>2, <3>1
  <2>3. c <= 4
    BY <2>1, <2>2 DEF ChrcOf
  <2>4. att_hid[s].found # 1
    <3>1. h - 1 < 4
      BY <2>3
    <3> QED
      BY <1>2, <1>3, <3>1, ReportOfFact
  <2>5. PICK r \in h .. c - 1 : Uuid(r) = "REPORT"
    BY <1>4, <2>4
  <2>6. r \in Nat \ {0} /\ r < 4
    BY <2>3, <2>5
  <2> QED
    BY <2>5, <2>6, UuidFact, ReportOfFact
<1>5. ASSUME NEW c \in h .. last, ReportOf(c) >= 2, c = ChrcOf(ReportOf(c))
      PROVE  Uuid(c) = "CHRC" /\ Counted(c)
  <2> DEFINE n == ReportOf(c)
             r == ChrcOf(n - 1) + 1
  <2>1. c \in Nat \ {0} /\ n \in Nat /\ n - 1 \in Nat \ {0}
    BY <1>5, ReportOfFact
  <2>2. Uuid(c) = "CHRC"
    BY <1>5, <2>1, UuidFact
  <2>3. r \in Nat /\ r >= 5 /\ r < c
    <3>1. ChrcOf(n - 1) \in Nat /\ ChrcOf(n - 1) >= 4 /\ ChrcOf(n - 1) + 3 <= ChrcOf(n)
      BY <2>1, ChrcGrows
    <3> QED
      BY <1>5, <3>1
  <2>4. ASSUME NEW b \in r .. c - 1 PROVE ReportOf(b) = n - 1 /\ Uuid(b) # "CHRC"
    <3>1. b \in Nat \ {0} /\ ChrcOf(n - 1) < b /\ ChrcOf(n - 1) <= b /\ b < ChrcOf((n - 1) + 1)
      <4>1. (n - 1) + 1 = n /\ ChrcOf(n - 1) \in Nat
        BY <2>1, ChrcGrows
      <4> QED
        BY <2>1, <2>3, <1>5, <4>1
    <3>2. ReportOf(b) = n - 1
      <4> HIDE DEF n
      <4> QED
        BY <2>1, <3>1, ReportIs
    <3> QED
      BY <2>1, <2>3, <3>1, <3>2, UuidFact, ChrcGrows
  <2>5. Uuid(r) = "REPORT"
    BY <2>1, <2>3, <2>4, UuidFact
  <2>6. CASE r >= h
    BY <2>2, <2>3, <2>4, <2>5, <2>6
  <2>7. CASE r < h
    <3>1. h - 1 \in r .. c - 1
      BY <2>3, <2>7, <1>2
    <3>2. att_hid[s].found = 1
      <4>1. ReportOf(h - 1) = n - 1 /\ n - 1 > 0
        BY <2>1, <2>4, <3>1
      <4>2. h - 1 > ChrcOf(n - 1)
        <5>1. ChrcOf(n - 1) \in Nat /\ h - 1 >= r
          BY <2>1, <3>1, ChrcGrows
        <5> QED
          BY <1>2, <5>1
      <4> HIDE DEF n
      <4> QED
        BY <1>3, <4>1, <4>2
    <3>3. Between(h, c)
      BY <2>3, <2>4, <2>7
    <3> QED
      BY <2>2, <3>2, <3>3
  <2> QED
    BY <2>3, <2>6, <2>7
<1> QED
  BY <1>1, <1>4, <1>5

\* So that its value goes with the reports that have been seen.
LEMMA CountFact ==
    ASSUME NEW h \in Nat \ {0}, NEW last \in Nat, NEW a \in h .. last
    PROVE  LET S == {c \in {d \in h .. last : ReportOf(d) >= 2 /\ d = ChrcOf(ReportOf(d))} : c <= a}
           IN IsFiniteSet(S) /\ Cardinality(S) = CountAt(a) - CountAt(h - 1)
<1> DEFINE S == {c \in {d \in h .. last : ReportOf(d) >= 2 /\ d = ChrcOf(ReportOf(d))} : c <= a}
           low == IF ReportOf(h - 1) = 0 THEN 1 ELSE ReportOf(h - 1)
           high == IF ReportOf(a) = 0 THEN 1 ELSE ReportOf(a)
           f == [k \in 1 .. high - low |-> ChrcOf(low + k)]
<1>1. h - 1 \in Nat /\ a \in Nat /\ ReportOf(h - 1) \in Nat /\ ReportOf(a) \in Nat /\ ReportOf(h - 1) <= ReportOf(a)
  BY ReportOfFact, ReportGrows
<1>2. low \in Nat \ {0} /\ high \in Nat /\ low <= high
  BY <1>1
<1>3. high - low = CountAt(a) - CountAt(h - 1)
  BY <1>1 DEF CountAt
<1>4. ASSUME NEW k \in 1 .. high - low PROVE f[k] \in S /\ ReportOf(f[k]) = low + k
  <2>1. low + k \in Nat \ {0} /\ low + k >= 2 /\ low + k <= ReportOf(a) /\ low + k > ReportOf(h - 1)
    BY <1>1, <1>2
  <2>2. f[k] = ChrcOf(low + k) /\ f[k] \in Nat /\ ReportOf(f[k]) = low + k
    BY <2>1, AttributesOf, ChrcGrows
  <2>3. f[k] <= a /\ ~(f[k] <= h - 1)
    BY <1>1, <2>1, <2>2, ChrcReached
  <2> QED
    BY <1>1, <2>1, <2>2, <2>3
<1>5. ASSUME NEW c \in S PROVE \E k \in 1 .. high - low : f[k] = c
  <2>1. c \in Nat /\ c <= a /\ ~(c <= h - 1) /\ ReportOf(c) \in Nat /\ ReportOf(c) >= 2 /\ c = ChrcOf(ReportOf(c))
    BY <1>1, ReportOfFact
  <2>2. ReportOf(c) <= ReportOf(a) /\ ~(ReportOf(c) <= ReportOf(h - 1))
    BY <1>1, <2>1, ChrcReached
  <2>3. ReportOf(c) - low \in 1 .. high - low
    BY <1>1, <1>2, <2>1, <2>2
  <2>4. low + (ReportOf(c) - low) = ReportOf(c)
    BY <1>2, <2>1
  <2> QED
    BY <2>1, <2>3, <2>4
<1>6. ExistsBijection(1 .. high - low, S)
  <2> HIDE DEF low, high, S
  <2>1. f \in [1 .. high - low -> S]
    BY <1>4
  <2>2. \A j, k \in 1 .. high - low : f[j] = f[k] => j = k
    BY <1>2, <1>4
  <2> HIDE DEF f
  <2>3. f \in Bijection(1 .. high - low, S)
    BY <2>1, <2>2, <1>5 DEF Bijection, Injection, Surjection, IsInjective
  <2> QED
    BY <2>3 DEF ExistsBijection
<1>7. high - low \in Nat
  BY <1>2
<1> HIDE DEF S
<1>8. Cardinality(S) = high - low
  BY <1>6, <1>7, FS_CountingElements
<1>9. IsFiniteSet(S)
  BY <1>6, <1>7, FS_NatBijection
<1> QED
  BY <1>3, <1>8, <1>9 DEF S

\* The answer that begins where the last one ended takes the table from what was seen to what is seen.
LEMMA NotedFact ==
    ASSUME NEW s \in HidSlots, att_hid \in [HidSlots -> Table],
           NEW db \in Database, NEW h \in Nat \ {0}, NEW last \in Nat, h <= last, last <= EndOf(db),
           Scanned(att_hid[s], db, h - 1), att_hid[s].cnt < HID_MAX_REPORT
    PROVE  Scanned(Noted(s, h, last, NextReports(s, h, last))[s], db, last)
<1> DEFINE t == att_hid[s]
           nexts == NextReports(s, h, last)
           first == IF h = 1 THEN 0 ELSE t.cnt
           Index(a) == first + Cardinality({c \in nexts : c <= a})
           full == {c \in nexts : Index(c) = HID_MAX_REPORT}
           end == IF full = {} THEN last ELSE CHOOSE c \in full : TRUE
           At(uuid, i) == {a \in h .. end : Uuid(a) = uuid /\ Index(a) = i}
           Of(uuid, i, old) == IF At(uuid, i) = {} THEN old ELSE CHOOSE a \in At(uuid, i) : TRUE
           foundNow == \E r \in h .. end : Uuid(r) = "REPORT" /\ \A b \in r .. end : Uuid(b) # "CHRC"
           none == \A b \in h .. end : Uuid(b) # "CHRC"
           isFound == full # {} \/ foundNow \/ (none /\ t.found = 1)
           report(i, r) == [r EXCEPT !.hdl = Of("REPORT", i, @), !.cfg = Of("CCC", i, @),
                                     !.ref = Of("REF", i, @)]
           reports == [i \in 0 .. HID_MAX_REPORT - 1 |-> report(i, t.reports[i])]
           own == [t EXCEPT !.cnt = Index(end),
                            !.found = IF full # {} \/ foundNow \/ (none /\ @ = 1) THEN 1 ELSE 0,
                            !.map = IF MapHandle \in h .. end THEN MapHandle ELSE @,
                            !.reports = [i \in 0 .. HID_MAX_REPORT - 1 |-> report(i, t.reports[i])]]
           behind(u) ==
               LET ref == Of("REF", HID_MAX_REPORT, 0)
               IN [u EXCEPT !.end = Of("REPORT", HID_MAX_REPORT, @), !.map = Of("CCC", HID_MAX_REPORT, @),
                            !.cnt = IF ref = 0 THEN @ ELSE ref % 256, !.found = IF ref = 0 THEN @ ELSE ref \div 256]
           last6 == ChrcOf(HID_MAX_REPORT + 1)
<1>1. Noted(s, h, last, nexts)[s] = own
  <2>1. Noted(s, h, last, nexts) =
          [n \in HidSlots |-> CASE n = s -> own
                               [] n \in Behind(s) /\ t.cnt >= HID_MAX_REPORT -> behind(att_hid[n])
                               [] OTHER -> att_hid[n]]
    BY Zenon DEF Noted
  <2> HIDE DEF own, behind
  <2>2. s \notin Behind(s)
    BY AttHidAssumption DEF AttHidAssumption, Behind
  <2> QED
    BY <2>1, <2>2
<1>2. /\ h - 1 \in Nat /\ ReportOf(h - 1) \in Nat /\ ReportOf(last) \in Nat
      /\ last6 \in Nat \ {0} /\ ReportOf(last6) = 6 /\ last6 >= 4
  BY ReportOfFact, AttributesOf, ChrcGrows DEF HID_MAX_REPORT
<1>3. t \in Table /\ t.cnt = CountAt(h - 1) /\ t.found = (IF FoundAt(h - 1) THEN 1 ELSE 0)
      /\ ReportOf(h - 1) <= HID_MAX_REPORT
  BY <1>2 DEF Scanned, CountAt, HID_MAX_REPORT
<1>4. nexts = {d \in h .. last : ReportOf(d) >= 2 /\ d = ChrcOf(ReportOf(d))}
  BY <1>3, NextsFact
<1>5. first = CountAt(h - 1) /\ first \in Nat
  <2>1. h = 1 => ReportOf(h - 1) = 0
    BY <1>2, ReportOfFact
  <2> QED
    BY <1>2, <1>3, <2>1 DEF CountAt
<1>6. ReportOf(last) <= 6
  <2>1. db.reports \in 0 .. 6
    BY DEF Database
  <2>2. last < ChrcOf(7)
    BY <2>1 DEF EndOf, RefOfReport, ChrcOf
  <2>3. 7 \in Nat \ {0} /\ ChrcOf(7) \in Nat
    BY DEF ChrcOf
  <2> QED
    BY <1>2, <2>2, <2>3, ChrcReached
<1> HIDE DEF nexts, first
<1>7. \A a \in h .. last : Index(a) = CountAt(a)
  <2> TAKE a \in h .. last
  <2>1. Cardinality({c \in nexts : c <= a}) = CountAt(a) - CountAt(h - 1)
    BY <1>4, CountFact
  <2>2. a \in Nat /\ CountAt(a) \in Int
    BY ReportOfFact DEF CountAt
  <2> QED
    BY <1>5, <2>1, <2>2
<1> HIDE DEF Index
<1>8. ASSUME NEW a \in h .. last
      PROVE  a \in Nat \ {0} /\ ReportOf(a) \in Nat /\ ReportOf(a) <= 6 /\ ReportOf(h - 1) <= ReportOf(a)
             /\ ReportOf(a) <= ReportOf(last)
  <2>1. a \in Nat \ {0} /\ h - 1 <= a /\ a <= last
    BY <1>2
  <2> QED
    BY <1>2, <1>6, <2>1, ReportOfFact, ReportGrows
<1>9. full = {c \in h .. last : c = last6}
  <2>1. ASSUME NEW c \in full PROVE c \in h .. last /\ c = last6
    BY <1>4, <1>7, <1>8 DEF CountAt, HID_MAX_REPORT
  <2>2. ASSUME NEW c \in h .. last, c = last6 PROVE c \in full
    <3>1. ReportOf(c) = 6 /\ c = ChrcOf(ReportOf(c))
      BY <1>2, <2>2 DEF HID_MAX_REPORT
    <3>2. Index(c) = HID_MAX_REPORT
      BY <1>7, <3>1 DEF CountAt, HID_MAX_REPORT
    <3> QED
      BY <1>4, <3>1, <3>2
  <2> QED
    BY <2>1, <2>2
<1> HIDE DEF full
<1>10. /\ end = IF last6 \in h .. last THEN last6 ELSE last
       /\ full = {} <=> ~(last6 \in h .. last)
  BY <1>9
<1> HIDE DEF end
<1>11. end \in h .. last /\ ReportOf(end) = ReportOf(last)
  <2>1. CASE last6 \in h .. last
    BY <1>2, <1>6, <1>8, <1>10, <2>1
  <2>2. CASE ~(last6 \in h .. last)
    BY <1>10, <2>2
  <2> QED
    BY <2>1, <2>2
<1>12. ASSUME NEW a \in h .. last, ReportOf(a) <= HID_MAX_REPORT PROVE a \in h .. end
  <2>1. CASE last6 \in h .. last
    <3>1. ~(6 <= ReportOf(a))
      BY <1>8, <1>12 DEF HID_MAX_REPORT
    <3>2. ~(last6 <= a)
      BY <1>8, <3>1, ChrcReached DEF HID_MAX_REPORT
    <3> QED
      BY <1>2, <1>8, <1>10, <2>1, <3>2
  <2>2. CASE ~(last6 \in h .. last)
    BY <1>10, <2>2
  <2> QED
    BY <2>1, <2>2
<1>13. Index(end) = CountAt(last)
  BY <1>7, <1>11 DEF CountAt
<1> DEFINE m == ReportOf(last)
<1>14. isFound <=> FoundAt(last)
  <2>1. CASE last6 \in h .. last
    BY <1>2, <1>10, <1>11, <2>1 DEF FoundAt, HID_MAX_REPORT
  <2>2. CASE ~(last6 \in h .. last)
    <3>1. m <= HID_MAX_REPORT
      <4>1. SUFFICES ASSUME 6 <= m PROVE FALSE
        BY <1>2, <1>6 DEF HID_MAX_REPORT
      <4>2. last6 <= last
        BY <4>1, ChrcReached DEF HID_MAX_REPORT
      <4>3. last6 <= h - 1
        BY <1>2, <2>2, <4>2
      <4> QED
        BY <1>2, <1>3, <4>3, ChrcReached DEF HID_MAX_REPORT
    <3>2. isFound <=> foundNow \/ (none /\ t.found = 1)
      BY <1>10, <2>2
    <3>3. FoundAt(last) <=> m > 0 /\ last > ChrcOf(m)
      BY <1>2, <3>1 DEF FoundAt, HID_MAX_REPORT
    <3>4. t.found = 1 <=> ReportOf(h - 1) > 0 /\ h - 1 > ChrcOf(ReportOf(h - 1))
      BY <1>2, <1>3 DEF FoundAt, HID_MAX_REPORT
    <3>5. end = last /\ last \in h .. last
      BY <1>10, <2>2
    <3>6. m \in Nat /\ ChrcOf(m) \in Nat /\ ReportOf(h - 1) <= m
      BY <1>2, <1>8, <3>5, ChrcGrows
    <3> HIDE DEF t, isFound
    <3>7. ASSUME m > 0, last > ChrcOf(m) PROVE foundNow \/ (none /\ t.found = 1)
      <4> DEFINE r == ChrcOf(m) + 1
      <4>1. r \in Nat /\ r >= 5 /\ r <= last /\ ReportOf(r) = m
        BY <3>6, <3>7, ChrcGrows, AttributesOf
      <4>2. ASSUME NEW b \in h .. last, r <= b PROVE Uuid(b) # "CHRC" /\ (b = r => Uuid(b) = "REPORT")
        <5>1. ReportOf(b) = m
          BY <1>8, <4>1, <4>2, ReportGrows
        <5>2. b \in Nat \ {0} /\ b # 2 /\ b # ChrcOf(m)
          BY <4>1, <4>2, <3>6
        <5> QED
          BY <3>7, <5>1, <5>2, UuidFact
      <4>3. CASE r >= h
        BY <3>5, <4>1, <4>2, <4>3
      <4>4. CASE r < h
        <5>1. none
          BY <3>5, <4>1, <4>2, <4>4
        <5>2. r <= h - 1
          BY <1>2, <4>1, <4>4
        <5>3. ReportOf(h - 1) = m
          BY <1>2, <3>6, <4>1, <5>2, ReportGrows
        <5>4. t.found = 1
          BY <3>4, <3>6, <3>7, <5>2, <5>3, <1>2
        <5> QED
          BY <5>1, <5>4
      <4> QED
        BY <4>1, <4>3, <4>4
    <3>8. ASSUME foundNow \/ (none /\ t.found = 1) PROVE m > 0 /\ last > ChrcOf(m)
      <4>1. PICK x \in Nat : /\ h - 1 <= x /\ x <= last /\ ReportOf(x) > 0 /\ ReportOf(x) \in Nat
                             /\ x > ChrcOf(ReportOf(x)) /\ \A b \in h .. last : x < b => Uuid(b) # "CHRC"
        <5>1. CASE foundNow
          <6>1. PICK r \in h .. last : Uuid(r) = "REPORT" /\ \A b \in r .. last : Uuid(b) # "CHRC"
            BY <3>5, <5>1
          <6>2. r \in Nat \ {0} /\ ReportOf(r) \in Nat /\ ReportOf(r) > 0 /\ r = ChrcOf(ReportOf(r)) + 1
            BY <6>1, UuidFact, ReportOfFact
          <6>3. r > ChrcOf(ReportOf(r))
            BY <6>2, ChrcGrows
          <6> QED
            BY <1>2, <6>1, <6>2, <6>3
        <5>2. CASE none /\ t.found = 1
          BY <1>2, <3>4, <3>5, <5>2
        <5> QED
          BY <3>8, <5>1, <5>2
      <4>2. ReportOf(x) <= m
        BY <4>1, ReportGrows
      <4>3. ReportOf(x) = m
        <5>1. SUFFICES ASSUME ~(m <= ReportOf(x)) PROVE FALSE
          BY <3>6, <4>1, <4>2
        <5>2. ~(ChrcOf(m) <= x) /\ ChrcOf(m) <= last /\ ReportOf(ChrcOf(m)) = m
          BY <3>6, <4>1, <4>2, <5>1, ChrcReached, AttributesOf
        <5>3. ChrcOf(m) \in h .. last /\ x < ChrcOf(m)
          BY <1>2, <3>6, <4>1, <5>2
        <5>4. Uuid(ChrcOf(m)) = "CHRC"
          BY <1>8, <3>6, <4>1, <4>2, <5>2, <5>3, UuidFact
        <5> QED
          BY <4>1, <5>3, <5>4
      <4> QED
        BY <3>6, <4>1, <4>3
    <3> QED
      BY <3>2, <3>3, <3>7, <3>8
  <2> QED
    BY <2>1, <2>2
<1>15. ASSUME NEW i \in 0 .. HID_MAX_REPORT - 1, NEW old, old = HandleBy(RefOfReport(i + 1), h - 1)
       PROVE  Of("REF", i, old) = HandleBy(RefOfReport(i + 1), last)
  <2> DEFINE x == RefOfReport(i + 1)
  <2>1. i + 1 \in Nat \ {0} /\ i + 1 <= HID_MAX_REPORT /\ x \in Nat /\ x >= 4 /\ ReportOf(x) = i + 1
    BY ChrcGrows, AttributesOf DEF HID_MAX_REPORT
  <2>2. x \in h .. last => Uuid(x) = "REF" /\ Index(x) = i /\ x \in h .. end
    BY <1>7, <1>12, <2>1, UuidFact DEF CountAt
  <2>3. ASSUME NEW a \in h .. end, Uuid(a) = "REF", Index(a) = i PROVE a = x /\ x \in h .. last
    <3>1. a \in h .. last
      BY <1>11
    <3>2. ReportOf(a) > 0 /\ a = RefOfReport(ReportOf(a))
      BY <1>8, <2>3, <3>1, UuidFact
    <3>3. ReportOf(a) = i + 1
      BY <1>7, <1>8, <2>3, <3>1, <3>2 DEF CountAt
    <3> QED
      BY <3>1, <3>2, <3>3
  <2>4. At("REF", i) = IF x \in h .. last THEN {x} ELSE {}
    BY <2>2, <2>3
  <2> HIDE DEF At
  <2>5. Of("REF", i, old) = IF x \in h .. last THEN x ELSE old
    BY <2>4
  <2>6. h <= x \/ x <= h - 1
    BY <1>2, <2>1
  <2> HIDE DEF x, Of
  <2> QED
    BY <1>2, <1>15, <2>1, <2>5, <2>6 DEF HandleBy, x
<1>16. ASSUME NEW i \in 0 .. HID_MAX_REPORT - 1, i # 1, NEW old, old = HandleBy(CccOf(i + 1), h - 1)
       PROVE  Of("CCC", i, old) = HandleBy(CccOf(i + 1), last)
  <2> DEFINE x == CccOf(i + 1)
  <2>1. i + 1 \in Nat \ {0} /\ i + 1 <= HID_MAX_REPORT /\ x \in Nat /\ x >= 4 /\ ReportOf(x) = i + 1
    BY ChrcGrows, AttributesOf DEF HID_MAX_REPORT, CccOf
  <2>2. x \in h .. last => Uuid(x) = "CCC" /\ Index(x) = i /\ x \in h .. end
    BY <1>7, <1>12, <2>1, <1>16, UuidFact DEF CountAt
  <2>3. ASSUME NEW a \in h .. end, Uuid(a) = "CCC", Index(a) = i PROVE a = x /\ x \in h .. last
    <3>1. a \in h .. last
      BY <1>11
    <3>2. ReportOf(a) > 0 /\ a = CccOf(ReportOf(a))
      BY <1>8, <2>3, <3>1, UuidFact
    <3>3. ReportOf(a) = i + 1
      BY <1>7, <1>8, <2>3, <3>1, <3>2 DEF CountAt
    <3> QED
      BY <3>1, <3>2, <3>3
  <2>4. At("CCC", i) = IF x \in h .. last THEN {x} ELSE {}
    BY <2>2, <2>3
  <2> HIDE DEF At
  <2>5. Of("CCC", i, old) = IF x \in h .. last THEN x ELSE old
    BY <2>4
  <2>6. h <= x \/ x <= h - 1
    BY <1>2, <2>1
  <2> HIDE DEF x, Of
  <2> QED
    BY <1>2, <1>16, <2>1, <2>5, <2>6 DEF HandleBy, x
<1> HIDE DEF Of, isFound
<1>17. /\ own.start = t.start /\ own.end = t.end /\ own.idx = t.idx
       /\ own.cnt = Index(end) /\ own.found = (IF isFound THEN 1 ELSE 0) /\ own.reports = reports
  <2> DEFINE found == IF isFound THEN 1 ELSE 0
             map == IF MapHandle \in h .. end THEN MapHandle ELSE t.map
  <2>1. own = [t EXCEPT !.cnt = Index(end), !.found = found, !.map = map, !.reports = reports]
    BY DEF isFound
  <2> HIDE DEF own, found, map, reports
  <2>2. DOMAIN t = {"start", "end", "map", "cnt", "found", "idx", "reports"}
    BY <1>3 DEF Table
  <2>3. /\ own.start = t.start /\ own.end = t.end /\ own.idx = t.idx
        /\ own.cnt = Index(end) /\ own.found = found /\ own.reports = reports
    BY <2>1, <2>2
  <2> QED
    BY <2>3 DEF found
<1>18. t.reports \in [0 .. HID_MAX_REPORT - 1 -> Report]
  BY <1>3 DEF Table
<1>19. \A i \in 0 .. HID_MAX_REPORT - 1 :
          /\ reports[i].cfg = Of("CCC", i, t.reports[i].cfg)
          /\ reports[i].ref = Of("REF", i, t.reports[i].ref)
          /\ reports[i].input = t.reports[i].input /\ reports[i].id = t.reports[i].id
  BY <1>18 DEF Report
<1>20. HandlesNoted(t, h - 1) /\ InputsRead(t) /\ t.start = 1 /\ t.end = EndOf(db) /\ t.idx = 0
  BY DEF Scanned
<1> HIDE DEF own, reports, t
<1>21. HandlesNoted(own, last)
  BY <1>15, <1>16, <1>17, <1>19, <1>20 DEF HandlesNoted
<1>22. InputsRead(own)
  BY <1>17, <1>19, <1>20 DEF InputsRead
<1>23. Scanned(own, db, last)
  BY <1>13, <1>14, <1>17, <1>20, <1>21, <1>22 DEF Scanned
<1> QED
  BY <1>1, <1>23 DEF nexts

-----------------------------------------------------------------------------
(* Types.                                                                  *)

LEMMA AttConstants ==
    /\ HidSlots \subseteq Nat
    /\ Databases \subseteq Database /\ NO_DEVICE \in Database /\ NO_DEVICE \notin Databases
    /\ \A db \in Database : /\ db.reports \in 0 .. 6 /\ db.chunk \in Nat \ {0} /\ db.map \in Nat \ {0}
                            /\ EndOf(db) \in Nat /\ EndOf(db) >= 3
    /\ MaxDiscoveries \in Nat /\ MaxRefusals \in Nat
<1>1. NO_DEVICE \in Database
  BY DEF NO_DEVICE, Database
<1>2. \A db \in Database : db.reports \in 0 .. 6 /\ db.chunk \in Nat \ {0} /\ db.map \in Nat \ {0}
  BY DEF Database
<1>3. \A n \in 0 .. 6 : RefOfReport(n) \in Nat /\ RefOfReport(n) >= 3
  BY DEF RefOfReport, ChrcOf
<1> QED
  BY <1>1, <1>2, <1>3, AttHidAssumption DEF AttHidAssumption, EndOf

LEMMA BlankFacts ==
    /\ BlankReport \in Report /\ BlankTable \in Table /\ NOTHING \in Request
    /\ BlankTable.start = 0 /\ BlankTable.end = 0 /\ BlankTable.idx = 0 /\ BlankTable.cnt = 0
    /\ BlankTable.found = 0 /\ BlankTable.reports = [i \in 0 .. HID_MAX_REPORT - 1 |-> BlankReport]
<1>1. BlankReport \in Report
  BY DEF BlankReport, Report
<1>2. [i \in 0 .. HID_MAX_REPORT - 1 |-> BlankReport] \in [0 .. HID_MAX_REPORT - 1 -> Report]
  BY <1>1
<1>3. 0 \in 0 .. HID_MAX_REPORT + 1
  BY DEF HID_MAX_REPORT
<1>4. BlankTable \in Table
  <2> HIDE DEF Report, BlankReport, HID_MAX_REPORT
  <2> QED
    BY <1>2, <1>3 DEF BlankTable, Table
<1>5. NOTHING \in Request
  BY DEF NOTHING, Ask, Request
<1> QED
  BY <1>1, <1>4, <1>5 DEF BlankTable

LEMMA AttInitType == AttInit => AttTypeOK
BY BlankFacts, AttConstants DEF AttInit, AttTypeOK, Asked, NOTHING, Ask

LEMMA AskType ==
    ASSUME AttTypeOK, NEW s \in HidSlots, NEW h \in Nat,
           NEW op \in {"none", "mtu", "name", "group", "info", "map", "blob", "ref", "write"},
           Next1(s, op, h)
    PROVE  ask' \in [HidSlots -> Request] /\ ask'[s].op = op /\ ask'[s].handle = h
           /\ \A u \in HidSlots \ {s} : ask'[u] = ask[u]
<1>1. Ask(op, h) \in Request /\ Ask(op, h).op = op /\ Ask(op, h).handle = h
  BY DEF Ask, Request
<1>2. ask \in [HidSlots -> Request] /\ ask' = [ask EXCEPT ![s] = Ask(op, h)]
  BY DEF AttTypeOK, Next1
<1> QED
  BY <1>1, <1>2

\* What a subscription does, or the end of them.
LEMMA SubscribeFact ==
    ASSUME AttTypeOK, NEW s \in HidSlots, NEW t \in [HidSlots -> Table], NEW i \in Nat, SubscribeFrom(t, s, i)
    PROVE  /\ att_hid' \in [HidSlots -> Table] /\ ask' \in [HidSlots -> Request]
           /\ \A u \in HidSlots \ {s} : att_hid'[u] = t[u] /\ ask'[u] = ask[u] /\ ready'[u] = ready[u]
           /\ ready' \in [HidSlots -> BOOLEAN] /\ ask'[s].op \in {"none", "write"}
           /\ \/ /\ Wanted(t, s, i) = {}
                 /\ ask'[s] = NOTHING /\ ready'[s] /\ att_hid'[s] = t[s]
              \/ \E j \in Wanted(t, s, i) :
                    /\ \A k \in Wanted(t, s, i) : j <= k
                    /\ ask'[s].op = "write" /\ ask'[s].handle = t[s].reports[j].cfg
                    /\ att_hid'[s] = [t[s] EXCEPT !.idx = j + 1] /\ ready'[s] = ready[s]
<1>1. CASE Wanted(t, s, i) = {}
  <2>1. ask' = [ask EXCEPT ![s] = NOTHING] /\ ready' = [ready EXCEPT ![s] = TRUE] /\ att_hid' = t
    BY <1>1 DEF SubscribeFrom
  <2>2. ask \in [HidSlots -> Request] /\ ready \in [HidSlots -> BOOLEAN]
    BY DEF AttTypeOK
  <2>3. ready' \in [HidSlots -> BOOLEAN] /\ ready'[s] /\ \A u \in HidSlots \ {s} : ready'[u] = ready[u]
    BY <2>1, <2>2
  <2>4. ask' \in [HidSlots -> Request] /\ ask'[s] = NOTHING /\ \A u \in HidSlots \ {s} : ask'[u] = ask[u]
    BY <2>1, <2>2, BlankFacts
  <2>5. NOTHING.op = "none"
    BY DEF NOTHING, Ask
  <2> QED
    BY <1>1, <2>1, <2>3, <2>4, <2>5
<1>2. CASE Wanted(t, s, i) # {}
  <2> DEFINE W == Wanted(t, s, i)
             j == FirstIn(W)
  <2>1. W \subseteq Nat /\ W \subseteq 0 .. HID_MAX_REPORT - 1
    BY DEF Wanted, HID_MAX_REPORT
  <2>2. PICK w \in W : TRUE
    BY <1>2
  <2>3. \E k \in W : \A l \in W : k <= l
    <3> HIDE DEF W
    <3> QED
      BY <2>1, <2>2 DEF HID_MAX_REPORT
  <2>4. j \in W /\ \A k \in W : j <= k
    BY <2>3 DEF FirstIn
  <2>5. /\ Next1(s, "write", t[s].reports[j].cfg) /\ att_hid' = [t EXCEPT ![s].idx = j + 1] /\ ready' = ready
    BY <1>2 DEF SubscribeFrom
  <2> HIDE DEF j
  <2>6. t[s].reports[j].cfg \in Nat
    BY <2>1, <2>4 DEF Table, Report
  <2>7. ask' \in [HidSlots -> Request] /\ ask'[s].op = "write" /\ ask'[s].handle = t[s].reports[j].cfg
        /\ \A u \in HidSlots \ {s} : ask'[u] = ask[u]
    BY <2>5, <2>6, AskType
  <2>8. j + 1 \in 0 .. HID_MAX_REPORT + 1
    BY <2>1, <2>4 DEF HID_MAX_REPORT
  <2>9. att_hid' \in [HidSlots -> Table] /\ att_hid'[s] = [t[s] EXCEPT !.idx = j + 1]
        /\ \A u \in HidSlots \ {s} : att_hid'[u] = t[u]
    BY <2>5, <2>8 DEF Table
  <2>10. ready \in [HidSlots -> BOOLEAN]
    BY DEF AttTypeOK
  <2> QED
    BY <2>4, <2>5, <2>7, <2>9, <2>10
<1> QED
  BY <1>1, <1>2

\* An answer changes its own table and, when that was full, the one behind it.
LEMMA NotedType ==
    ASSUME NEW s \in HidSlots, att_hid \in [HidSlots -> Table],
           NEW h \in Nat \ {0}, NEW last \in Nat, h <= last, NEW nexts \in SUBSET (h .. last)
    PROVE  /\ Noted(s, h, last, nexts) \in [HidSlots -> Table]
           /\ Noted(s, h, last, nexts)[s].idx = att_hid[s].idx
           /\ \A u \in HidSlots \ {s} :
                 \/ Noted(s, h, last, nexts)[u] = att_hid[u]
                 \/ u \in Behind(s) /\ att_hid[s].cnt >= HID_MAX_REPORT
                    /\ Noted(s, h, last, nexts)[u].idx = att_hid[u].idx
                    /\ \E a \in h .. last : Uuid(a) \in {"REPORT", "CCC", "REF"}
<1> DEFINE t == att_hid[s]
           first == IF h = 1 THEN 0 ELSE t.cnt
           Index(a) == first + Cardinality({c \in nexts : c <= a})
           full == {c \in nexts : Index(c) = HID_MAX_REPORT}
           end == IF full = {} THEN last ELSE CHOOSE c \in full : TRUE
           At(uuid, i) == {a \in h .. end : Uuid(a) = uuid /\ Index(a) = i}
           Of(uuid, i, old) == IF At(uuid, i) = {} THEN old ELSE CHOOSE a \in At(uuid, i) : TRUE
           foundNow == \E r \in h .. end : Uuid(r) = "REPORT" /\ \A b \in r .. end : Uuid(b) # "CHRC"
           none == \A b \in h .. end : Uuid(b) # "CHRC"
           report(i, r) == [r EXCEPT !.hdl = Of("REPORT", i, @), !.cfg = Of("CCC", i, @),
                                     !.ref = Of("REF", i, @)]
           own == [t EXCEPT !.cnt = Index(end),
                            !.found = IF full # {} \/ foundNow \/ (none /\ @ = 1) THEN 1 ELSE 0,
                            !.map = IF MapHandle \in h .. end THEN MapHandle ELSE @,
                            !.reports = [i \in 0 .. HID_MAX_REPORT - 1 |-> report(i, t.reports[i])]]
           behind(u) ==
               LET ref == Of("REF", HID_MAX_REPORT, 0)
               IN [u EXCEPT !.end = Of("REPORT", HID_MAX_REPORT, @), !.map = Of("CCC", HID_MAX_REPORT, @),
                            !.cnt = IF ref = 0 THEN @ ELSE ref % 256, !.found = IF ref = 0 THEN @ ELSE ref \div 256]
<1>1. Noted(s, h, last, nexts) =
        [n \in HidSlots |-> CASE n = s -> own
                             [] n \in Behind(s) /\ t.cnt >= HID_MAX_REPORT -> behind(att_hid[n])
                             [] OTHER -> att_hid[n]]
  BY Zenon DEF Noted
<1>2. t \in Table /\ t.cnt \in Nat /\ t.map \in Nat /\ t.reports \in [0 .. HID_MAX_REPORT - 1 -> Report]
  BY DEF Table
<1>3. IsFiniteSet(h .. last)
  BY FS_Interval
<1>4. \A a : Index(a) \in Nat
  <2> TAKE a
  <2> DEFINE S == {c \in nexts : c <= a}
  <2>1. S \in SUBSET (h .. last)
    OBVIOUS
  <2>2. Cardinality(S) \in Nat
    BY <1>3, <2>1, FS_Subset, FS_CardinalityType
  <2> HIDE DEF S
  <2> QED
    BY <1>2, <2>2 DEF S
<1> HIDE DEF Index, first
<1>5. end \in Nat /\ end <= last
  <2>1. nexts \subseteq Nat
    <3>1. h .. last \subseteq Nat
      OBVIOUS
    <3> QED
      BY Zenon, <3>1
  <2>2. full \subseteq nexts
    OBVIOUS
  <2>3. full # {} => (CHOOSE c \in full : TRUE) \in full
    OBVIOUS
  <2>4. \A c \in nexts : c <= last
    OBVIOUS
  <2> HIDE DEF full
  <2> QED
    <3>1. CASE full = {}
      BY <3>1
    <3>2. CASE full # {}
      <4>1. end = CHOOSE c \in full : TRUE
        BY <3>2
      <4>2. end \in nexts
        BY <2>2, <2>3, <3>2, <4>1
      <4> HIDE DEF end
      <4> QED
        BY <2>1, <2>4, <4>2
    <3> QED
      BY <3>1, <3>2
<1> HIDE DEF end, full
<1>6. ASSUME NEW uuid, NEW i, NEW old \in Nat PROVE Of(uuid, i, old) \in Nat
  <2>1. At(uuid, i) \subseteq Nat
    BY <1>5
  <2> HIDE DEF At
  <2> QED
    BY <2>1
<1> DEFINE some == \E a \in h .. last : Uuid(a) \in {"REPORT", "CCC", "REF"}
<1>11. ASSUME NEW uuid \in {"REPORT", "CCC", "REF"}, NEW i, NEW old, ~some PROVE Of(uuid, i, old) = old
  <2>1. At(uuid, i) = {}
    BY <1>5, <1>11
  <2> QED
    BY <2>1
<1> HIDE DEF Of
<1>7. ASSUME NEW i \in 0 .. HID_MAX_REPORT - 1 PROVE report(i, t.reports[i]) \in Report
  <2>1. t.reports[i] \in Report
    BY <1>2
  <2> DEFINE r == t.reports[i]
  <2>2. r.hdl \in Nat /\ r.cfg \in Nat /\ r.ref \in Nat
    BY <2>1 DEF Report
  <2>3. Of("REPORT", i, r.hdl) \in Nat /\ Of("CCC", i, r.cfg) \in Nat /\ Of("REF", i, r.ref) \in Nat
    BY <1>6, <2>2
  <2> HIDE DEF r
  <2> QED
    BY <2>1, <2>3 DEF Report, r
<1>8. own \in Table /\ own.idx = t.idx
  <2> DEFINE found == IF full # {} \/ foundNow \/ (none /\ t.found = 1) THEN 1 ELSE 0
             map == IF MapHandle \in h .. end THEN MapHandle ELSE t.map
             reports == [i \in 0 .. HID_MAX_REPORT - 1 |-> report(i, t.reports[i])]
             cnt == Index(end)
  <2>1. own = [t EXCEPT !.cnt = cnt, !.found = found, !.map = map, !.reports = reports]
    BY Zenon
  <2>2. found \in Nat /\ map \in Nat /\ cnt \in Nat
    BY <1>2, <1>4 DEF MapHandle
  <2> HIDE DEF report
  <2>3. reports \in [0 .. HID_MAX_REPORT - 1 -> Report]
    BY <1>7
  <2> HIDE DEF own, found, map, reports, cnt
  <2> QED
    BY <1>2, <2>1, <2>2, <2>3 DEF Table
<1>9. ASSUME NEW u \in Table PROVE behind(u) \in Table /\ behind(u).idx = u.idx
  <2> DEFINE ref == Of("REF", HID_MAX_REPORT, 0)
             newEnd == Of("REPORT", HID_MAX_REPORT, u.end)
             map == Of("CCC", HID_MAX_REPORT, u.map)
             cnt == IF ref = 0 THEN u.cnt ELSE ref % 256
             found == IF ref = 0 THEN u.found ELSE ref \div 256
  <2>1. behind(u) = [u EXCEPT !.end = newEnd, !.map = map, !.cnt = cnt, !.found = found]
    BY Zenon
  <2>2. u.end \in Nat /\ u.map \in Nat /\ u.cnt \in Nat /\ u.found \in Nat
    BY DEF Table
  <2>3. ref \in Nat /\ newEnd \in Nat /\ map \in Nat
    BY <1>6, <2>2
  <2>4. cnt \in Nat /\ found \in Nat
    <3> HIDE DEF ref
    <3> QED
      BY <2>2, <2>3
  <2> HIDE DEF behind, newEnd, map, cnt, found
  <2> QED
    BY <2>1, <2>3, <2>4 DEF Table
<1>12. ASSUME NEW u \in Table, ~some PROVE behind(u) = u
  <2>1. /\ Of("REF", HID_MAX_REPORT, 0) = 0 /\ Of("REPORT", HID_MAX_REPORT, u.end) = u.end
        /\ Of("CCC", HID_MAX_REPORT, u.map) = u.map
    BY <1>11, <1>12
  <2>2. behind(u) = [u EXCEPT !.end = u.end, !.map = u.map, !.cnt = u.cnt, !.found = u.found]
    BY <2>1
  <2> HIDE DEF behind
  <2> QED
    BY <2>2 DEF Table
<1> HIDE DEF own, behind
<1>10. s \notin Behind(s)
  BY AttConstants DEF Behind
<1>13. /\ Noted(s, h, last, nexts) \in [HidSlots -> Table] /\ Noted(s, h, last, nexts)[s].idx = att_hid[s].idx
       /\ \A u \in HidSlots \ {s} :
             \/ Noted(s, h, last, nexts)[u] = att_hid[u]
             \/ /\ u \in Behind(s) /\ att_hid[s].cnt >= HID_MAX_REPORT
                /\ Noted(s, h, last, nexts)[u] = behind(att_hid[u])
  <2> HIDE DEF some
  <2> QED
    BY <1>1, <1>2, <1>8, <1>9, <1>10
<1>14. ASSUME NEW u \in HidSlots
       PROVE  behind(att_hid[u]).idx = att_hid[u].idx /\ (~some => behind(att_hid[u]) = att_hid[u])
  BY <1>9, <1>12
<1> HIDE DEF some
<1>15. ASSUME NEW u \in HidSlots \ {s}
       PROVE  \/ Noted(s, h, last, nexts)[u] = att_hid[u]
              \/ u \in Behind(s) /\ att_hid[s].cnt >= HID_MAX_REPORT
                 /\ Noted(s, h, last, nexts)[u].idx = att_hid[u].idx /\ some
  BY <1>13, <1>14
<1> QED
  BY <1>13, <1>15 DEF some

LEMMA NextsInside ==
    ASSUME NEW s, NEW h, NEW last
    PROVE  NextReports(s, h, last) \in SUBSET (h .. last)
BY DEF NextReports

LEMMA ServicesFact ==
    ASSUME NEW db \in Database, NEW h \in Nat, ServicesFrom(db, h) # {}
    PROVE  LET found == ServicesFrom(db, h)
               last == CHOOSE v \in found : \A w \in found : w.start <= v.start
           IN /\ last \in found /\ From(last) \in Nat /\ From(last) >= EndOf(db)
              /\ \A v \in found : v.start \in Nat /\ v.start >= h
              /\ (\E v \in found : v.hid) <=> h <= 1
<1> DEFINE found == ServicesFrom(db, h)
           first == Service(1, EndOf(db), TRUE)
<1>1. EndOf(db) \in Nat /\ EndOf(db) >= 3 /\ db.tail \in {"none", "wide", "single"}
  BY AttConstants DEF Database
<1>2. PICK more : /\ Services(db) = {first} \cup more
                  /\ \/ more = {}
                     \/ \E e \in {EndOf(db) + 1, EndOf(db) + 3} : more = {Service(EndOf(db) + 1, e, FALSE)}
  BY <1>1 DEF Services
<1>3. ASSUME NEW v \in Services(db)
      PROVE  /\ v.start \in Nat /\ v.end \in Nat /\ v.end >= EndOf(db)
             /\ v.hid <=> v = first
             /\ v = first <=> v.start <= 1
             /\ v # first => v.start = EndOf(db) + 1
  BY <1>1, <1>2 DEF Service
<1>4. found = {v \in Services(db) : v.start >= h}
  BY DEF ServicesFrom
<1>5. first \in Services(db) /\ first.start = 1
  BY <1>2 DEF Service
<1> HIDE DEF first
<1>6. \E v \in found : \A w \in found : w.start <= v.start
  <2>1. CASE \E v \in found : v # first
    <3>1. PICK v \in found : v # first
      BY <2>1
    <3>2. v.start = EndOf(db) + 1
      BY <1>3, <1>4, <3>1
    <3>3. ASSUME NEW w \in found PROVE w.start <= v.start
      BY <1>1, <1>3, <1>4, <3>2, <3>3
    <3> QED
      BY <3>1, <3>3
  <2>2. CASE \A v \in found : v = first
    <3>1. PICK v \in found : TRUE
      OBVIOUS
    <3>2. ASSUME NEW w \in found PROVE w.start <= v.start
      <4>1. w = v /\ v.start \in Nat
        BY <1>3, <1>4, <2>2, <3>1
      <4> QED
        BY <4>1
    <3> QED
      BY <3>1, <3>2
  <2> QED
    BY <2>1, <2>2
<1> DEFINE last == CHOOSE v \in found : \A w \in found : w.start <= v.start
<1>7. last \in found
  BY <1>6
<1> HIDE DEF found, last
<1>8. From(last) \in Nat /\ From(last) >= EndOf(db)
  BY <1>3, <1>4, <1>7 DEF From
<1>9. (\E v \in found : v.hid) <=> h <= 1
  <2>1. h <= 1 => first \in found /\ first.hid
    BY <1>3, <1>4, <1>5
  <2>2. ASSUME NEW v \in found, v.hid PROVE h <= 1
    BY <1>3, <1>4, <1>5, <2>2
  <2> QED
    BY <2>1, <2>2
<1> QED
  BY <1>3, <1>4, <1>7, <1>8, <1>9 DEF found, last

LEMMA RefType ==
    ASSUME NEW t \in [HidSlots -> Table], NEW s \in HidSlots, NEW i \in Nat
    PROVE  RefOf(t, s, i) \in Nat /\ (RefOf(t, s, i) # 0 => i <= HID_MAX_REPORT)
<1>1. CASE i < HID_MAX_REPORT
  <2>1. i \in 0 .. HID_MAX_REPORT - 1
    BY <1>1 DEF HID_MAX_REPORT
  <2>2. t[s].reports[i].ref \in Nat
    BY <2>1 DEF Table, Report
  <2> QED
    BY <1>1, <2>2 DEF RefOf, HID_MAX_REPORT
<1>2. CASE i = HID_MAX_REPORT /\ Behind(s) # {}
  <2>1. s + 1 \in HidSlots
    BY <1>2 DEF Behind
  <2>2. t[s + 1].cnt \in Nat /\ t[s + 1].found \in Nat
    BY <2>1 DEF Table
  <2> QED
    BY <1>2, <2>2 DEF RefOf, HID_MAX_REPORT
<1> QED
  BY <1>1, <1>2 DEF RefOf, HID_MAX_REPORT

\* The tables with the reference of the next report.
ReadTable(s, n) ==
    LET i == att_hid[s].idx
    IN IF i < HID_MAX_REPORT
       THEN [att_hid EXCEPT ![s].idx = i + 1, ![s].reports[i].id = n, ![s].reports[i].input = n \in Inputs(gatt[s])]
       ELSE [m \in HidSlots |->
               CASE m = s -> [att_hid[m] EXCEPT !.idx = i + 1]
                 [] m \in Behind(s) -> [att_hid[m] EXCEPT !.start = n]
                 [] OTHER -> att_hid[m]]

LEMMA ReadRefFact ==
    ASSUME AttTypeOK, NEW s \in HidSlots, ReadRefRsp(s)
    PROVE  \E t, ref : \E n \in Nat :
           /\ t = ReadTable(s, n) /\ Touches(s, att_hid[s].idx + 1)
           /\ n = (IF Uuid(ask[s].handle) = "REF" THEN ReportOf(ask[s].handle) ELSE 0)
           /\ ref = RefOf(t, s, att_hid[s].idx + 1) /\ Asked(s, "ref") /\ ask[s].handle \in 1 .. EndOf(gatt[s])
           /\ \/ ref # 0 /\ Next1(s, "ref", ref) /\ att_hid' = t /\ UNCHANGED <<hid_state, ready>>
              \/ ref = 0 /\ SubscribeFrom(t, s, 0) /\ State(s, "REPORT_CFG")
<1> DEFINE n == IF Uuid(ask[s].handle) = "REF" THEN ReportOf(ask[s].handle) ELSE 0
<1>1. ask[s].handle \in Nat
  BY DEF AttTypeOK, Request
<1>2. n \in Nat
  BY <1>1, ReportOfFact
<1> DEFINE t == ReadTable(s, n)
           ref == RefOf(t, s, att_hid[s].idx + 1)
<1>3. /\ Asked(s, "ref") /\ ask[s].handle \in 1 .. EndOf(gatt[s]) /\ Touches(s, att_hid[s].idx + 1)
      /\ IF ref # 0
         THEN Next1(s, "ref", ref) /\ att_hid' = t /\ UNCHANGED <<hid_state, ready>>
         ELSE SubscribeFrom(t, s, 0) /\ State(s, "REPORT_CFG")
  BY Zenon DEF ReadRefRsp, ReadTable
<1>4. \/ ref # 0 /\ Next1(s, "ref", ref) /\ att_hid' = t /\ UNCHANGED <<hid_state, ready>>
      \/ ref = 0 /\ SubscribeFrom(t, s, 0) /\ State(s, "REPORT_CFG")
  BY Zenon, <1>3
<1> HIDE DEF t, ref
<1>5. t = ReadTable(s, n) /\ ref = RefOf(t, s, att_hid[s].idx + 1) /\ n = (IF Uuid(ask[s].handle) = "REF" THEN ReportOf(ask[s].handle) ELSE 0)
  BY Zenon DEF t, ref
<1> HIDE DEF n
<1> QED
  BY Zenon, <1>2, <1>3, <1>4, <1>5

LEMMA ReadTableIs ==
    ASSUME AttTypeOK, NEW s \in HidSlots, NEW n \in Nat, att_hid[s].idx < HID_MAX_REPORT
    PROVE  LET i == att_hid[s].idx
               t == att_hid[s]
               b == n \in Inputs(gatt[s])
               reports == [t.reports EXCEPT ![i].id = n, ![i].input = b]
           IN /\ i \in 0 .. HID_MAX_REPORT - 1 /\ t.reports \in [0 .. HID_MAX_REPORT - 1 -> Report]
              /\ reports \in [0 .. HID_MAX_REPORT - 1 -> Report]
              /\ ReadTable(s, n) = [att_hid EXCEPT ![s] = [t EXCEPT !.idx = i + 1, !.reports = reports]]
<1> DEFINE i == att_hid[s].idx
           t == att_hid[s]
           b == n \in Inputs(gatt[s])
           reports == [t.reports EXCEPT ![i].id = n, ![i].input = b]
           new == [t EXCEPT !.idx = i + 1, !.reports = reports]
<1>0. att_hid \in [HidSlots -> Table] /\ i \in Nat /\ i < HID_MAX_REPORT /\ i + 1 \in 0 .. HID_MAX_REPORT + 1
  BY DEF AttTypeOK, Table, HID_MAX_REPORT
<1>1. i \in 0 .. HID_MAX_REPORT - 1
  BY <1>0 DEF HID_MAX_REPORT
<1>2. ReadTable(s, n) = [att_hid EXCEPT ![s].idx = i + 1, ![s].reports[i].id = n, ![s].reports[i].input = b]
  BY <1>0 DEF ReadTable
<1>3. b \in BOOLEAN
  OBVIOUS
<1> HIDE DEF b
<1>4. t.reports \in [0 .. HID_MAX_REPORT - 1 -> Report]
  BY <1>0 DEF Table
<1>5. reports \in [0 .. HID_MAX_REPORT - 1 -> Report]
  BY <1>1, <1>3, <1>4 DEF Report
<1>6. ReadTable(s, n) = [att_hid EXCEPT ![s] = new]
  <2> DEFINE t1 == [t EXCEPT !.idx = i + 1]
             r2 == [t.reports EXCEPT ![i].id = n]
             a1 == [att_hid EXCEPT ![s].idx = i + 1]
             a2 == [a1 EXCEPT ![s].reports[i].id = n]
             a3 == [a2 EXCEPT ![s].reports[i].input = b]
  <2>1. ReadTable(s, n) = a3
    BY Zenon, <1>2
  <2>2. a1 = [att_hid EXCEPT ![s] = t1] /\ t1 \in Table /\ t1.reports = t.reports
    BY <1>0 DEF Table
  <2> HIDE DEF a1, t1
  <2>3. a1 \in [HidSlots -> Table] /\ a1[s] = t1
    BY <1>0, <2>2
  <2>4. a2 = [a1 EXCEPT ![s] = [t1 EXCEPT !.reports = r2]]
    BY <2>2, <2>3
  <2>5. r2 \in [0 .. HID_MAX_REPORT - 1 -> Report] /\ reports = [r2 EXCEPT ![i].input = b]
    BY <1>1, <1>4 DEF Report
  <2> HIDE DEF a2, r2
  <2> DEFINE t2 == [t1 EXCEPT !.reports = r2]
  <2>6. t2 \in Table /\ t2.reports = r2
    BY <2>2, <2>5 DEF Table
  <2> HIDE DEF t2
  <2>7. a2 \in [HidSlots -> Table] /\ a2[s] = t2 /\ a2 = [a1 EXCEPT ![s] = t2]
    BY <2>3, <2>4, <2>6 DEF t2
  <2> HIDE DEF reports
  <2>8. a3 = [a2 EXCEPT ![s] = [t2 EXCEPT !.reports = reports]]
    BY <2>5, <2>6, <2>7
  <2>9. [t2 EXCEPT !.reports = reports] = new
    BY <1>0, <2>2 DEF t1, t2, Table
  <2> HIDE DEF a3, new
  <2>10. a3 = [att_hid EXCEPT ![s] = new]
    BY <1>0, <2>2, <2>3, <2>7, <2>8, <2>9
  <2> QED
    BY <2>1, <2>10
<1> QED
  BY <1>1, <1>4, <1>5, <1>6 DEF new, b, reports

LEMMA ReadTableType ==
    ASSUME AttTypeOK, NEW s \in HidSlots, Asked(s, "ref"), NEW n \in Nat
    PROVE  /\ ReadTable(s, n) \in [HidSlots -> Table]
           /\ ReadTable(s, n)[s].idx = att_hid[s].idx + 1
           /\ \A u \in HidSlots : u # s => /\ ReadTable(s, n)[u].idx = att_hid[u].idx
                                           /\ \/ ReadTable(s, n)[u] = att_hid[u]
                                              \/ u \in Behind(s) /\ att_hid[s].idx >= HID_MAX_REPORT
<1> DEFINE i == att_hid[s].idx
           t == att_hid[s]
<1>1. att_hid \in [HidSlots -> Table] /\ i \in 0 .. HID_MAX_REPORT /\ i + 1 \in 0 .. HID_MAX_REPORT + 1
  BY DEF AttTypeOK, Table, HID_MAX_REPORT
<1>2. CASE i < HID_MAX_REPORT
  <2> DEFINE b == n \in Inputs(gatt[s])
             reports == [t.reports EXCEPT ![i].id = n, ![i].input = b]
             new == [t EXCEPT !.idx = i + 1, !.reports = reports]
  <2>1. ReadTable(s, n) = [att_hid EXCEPT ![s] = new] /\ reports \in [0 .. HID_MAX_REPORT - 1 -> Report]
    BY <1>2, ReadTableIs
  <2> HIDE DEF reports
  <2>2. new \in Table /\ new.idx = i + 1
    BY <1>1, <2>1 DEF Table
  <2> HIDE DEF new
  <2> QED
    BY <1>1, <2>1, <2>2
<1>3. CASE ~(i < HID_MAX_REPORT)
  <2> DEFINE new == [t EXCEPT !.idx = i + 1]
  <2>1. ReadTable(s, n) = [m \in HidSlots |->
               CASE m = s -> new
                 [] m \in Behind(s) -> [att_hid[m] EXCEPT !.start = n]
                 [] OTHER -> att_hid[m]]
    BY <1>3 DEF ReadTable
  <2>2. new \in Table /\ new.idx = i + 1
    BY <1>1 DEF Table
  <2>3. \A m \in HidSlots : [att_hid[m] EXCEPT !.start = n] \in Table /\ [att_hid[m] EXCEPT !.start = n].idx = att_hid[m].idx
    BY <1>1 DEF Table
  <2>4. i >= HID_MAX_REPORT
    BY <1>1, <1>3 DEF HID_MAX_REPORT
  <2>5. s \notin Behind(s)
    BY AttConstants DEF Behind
  <2> HIDE DEF new
  <2> QED
    BY <1>1, <2>1, <2>2, <2>3, <2>4, <2>5
<1> QED
  BY <1>2, <1>3

LEMMA AttStepType ==
    ASSUME AttTypeOK, [AttNext]_attvars
    PROVE  AttTypeOK'
<1>1. CASE UNCHANGED attvars
  BY <1>1 DEF attvars, AttTypeOK, Asked
<1>2. ASSUME NEW s \in HidSlots, NEW db \in Databases, HidInit(s, db) PROVE AttTypeOK'
  <2>1. ask' \in [HidSlots -> Request] /\ ask'[s].op = "mtu" /\ \A u \in HidSlots \ {s} : ask'[u] = ask[u]
    BY <1>2, AskType DEF HidInit
  <2>2. att_hid' \in [HidSlots -> Table] /\ \A u \in HidSlots \ {s} : att_hid'[u] = att_hid[u]
    BY <1>2, BlankFacts DEF HidInit, AttTypeOK
  <2>3. {ready, refused, astray, spoiled}' \subseteq [HidSlots -> BOOLEAN]
    BY <1>2 DEF HidInit, AttTypeOK
  <2>4. gatt' \in [HidSlots -> Databases \cup {NO_DEVICE}] /\ hid_state' \in [HidSlots -> {"DEVICE_NAME", "DISCOVERY", "REPORT_MAP", "REPORT_REF", "REPORT_CFG"}]
    BY <1>2 DEF HidInit, AttTypeOK, State
  <2>5. subscribed' \in [HidSlots -> SUBSET Nat] /\ discoveries' \in 0 .. MaxDiscoveries /\ refusals' \in 0 .. MaxRefusals
    BY <1>2, AttConstants DEF HidInit, AttTypeOK
  <2>6. \A u \in HidSlots : Asked(u, "ref")' => att_hid'[u].idx <= HID_MAX_REPORT
    BY <2>1, <2>2 DEF AttTypeOK, Asked
  <2> QED
    BY <2>1, <2>2, <2>3, <2>4, <2>5, <2>6 DEF AttTypeOK
<1>3. ASSUME NEW s \in HidSlots, AttLinkLost(s) PROVE AttTypeOK'
  <2>1. ask' \in [HidSlots -> Request] /\ ask'[s].op = "none" /\ \A u \in HidSlots \ {s} : ask'[u] = ask[u]
    BY <1>3, BlankFacts DEF AttLinkLost, AttTypeOK, NOTHING, Ask
  <2>2. {ready, refused, astray, spoiled}' \subseteq [HidSlots -> BOOLEAN]
    BY <1>3 DEF AttLinkLost, AttTypeOK
  <2> QED
    BY <1>3, <2>1, <2>2 DEF AttLinkLost, AttTypeOK, Asked, State
<1>4. ASSUME NEW s \in HidSlots, MtuRsp(s) \/ NameRsp(s) \/ ReadGroupRsp(s) \/ NoMoreServices(s) \/ NoMoreAttributes(s)
      PROVE  AttTypeOK'
  <2>1. att_hid' \in [HidSlots -> Table]
    <3>1. EndOf(gatt[s]) \in Nat /\ 1 \in Nat
      BY AttConstants DEF AttTypeOK
    <3>2. [att_hid EXCEPT ![s].start = 1, ![s].end = EndOf(gatt[s])] \in [HidSlots -> Table]
      <4> DEFINE e == EndOf(gatt[s])
                 new == [att_hid[s] EXCEPT !.start = 1, !.end = e]
      <4>1. e \in Nat /\ att_hid \in [HidSlots -> Table]
        BY <3>1 DEF AttTypeOK
      <4> HIDE DEF e
      <4>2. new \in Table
        BY <4>1 DEF Table
      <4>3. [att_hid EXCEPT ![s].start = 1, ![s].end = e] = [att_hid EXCEPT ![s] = new]
        BY <4>1
      <4> HIDE DEF new
      <4> QED
        BY <4>1, <4>2, <4>3 DEF e
    <3> QED
      BY <1>4, <3>2 DEF MtuRsp, NameRsp, ReadGroupRsp, NoMoreServices, NoMoreAttributes, AttTypeOK
  <2>2. ask' \in [HidSlots -> Request] /\ ask'[s].op # "ref" /\ \A u \in HidSlots \ {s} : ask'[u] = ask[u]
    <3>1. ask[s].handle \in Nat /\ att_hid[s].start \in Nat /\ att_hid[s].map \in Nat /\ gatt[s] \in Database
      BY AttConstants DEF AttTypeOK, Request, Table
    <3>2. PICK op \in {"name", "group", "info", "map"}, h \in Nat : Next1(s, op, h)
      <4>1. CASE ReadGroupRsp(s)
        BY <3>1, <4>1, ServicesFact DEF ReadGroupRsp
      <4> QED
        BY <1>4, <3>1, <4>1 DEF MtuRsp, NameRsp, NoMoreServices, NoMoreAttributes
    <3> QED
      BY <3>2, AskType
  <2>3. hid_state' \in [HidSlots -> {"DEVICE_NAME", "DISCOVERY", "REPORT_MAP", "REPORT_REF", "REPORT_CFG"}]
    BY <1>4 DEF MtuRsp, NameRsp, ReadGroupRsp, NoMoreServices, NoMoreAttributes, AttTypeOK, State
  <2>4. UNCHANGED <<gatt, subscribed, ready, refused, discoveries, refusals, astray, spoiled>>
    BY <1>4 DEF MtuRsp, NameRsp, ReadGroupRsp, NoMoreServices, NoMoreAttributes, Keep, Apart
  <2>5. \A u \in HidSlots \ {s} : att_hid'[u] = att_hid[u]
    BY <1>4 DEF MtuRsp, NameRsp, ReadGroupRsp, NoMoreServices, NoMoreAttributes, AttTypeOK
  <2>6. \A u \in HidSlots : Asked(u, "ref")' => att_hid'[u].idx <= HID_MAX_REPORT
    BY <2>2, <2>5 DEF AttTypeOK, Asked
  <2> QED
    BY <2>1, <2>2, <2>3, <2>4, <2>6 DEF AttTypeOK
<1>5. ASSUME NEW s \in HidSlots, FindInfoRsp(s) PROVE AttTypeOK'
  <2> DEFINE h == ask[s].handle
             last == IF h + gatt[s].chunk - 1 < EndOf(gatt[s]) THEN h + gatt[s].chunk - 1 ELSE EndOf(gatt[s])
  <2>1. /\ h \in Nat \ {0} /\ last \in Nat /\ h <= last
    <3>1. h \in Nat \ {0} /\ h <= EndOf(gatt[s]) /\ gatt[s] \in Database
      BY <1>5, AttConstants DEF FindInfoRsp, AttTypeOK, Request
    <3> QED
      BY <3>1, AttConstants
  <2>2. att_hid' = Noted(s, h, last, NextReports(s, h, last))
    BY <1>5 DEF FindInfoRsp
  <2>3. \/ Next1(s, "info", last + 1) /\ UNCHANGED hid_state
        \/ Next1(s, "map", att_hid'[s].map) /\ State(s, "REPORT_MAP")
    BY <1>5 DEF FindInfoRsp
  <2>4. UNCHANGED <<gatt, subscribed, ready, refused, discoveries, refusals>>
    BY <1>5 DEF FindInfoRsp, Keep
  <2>5. PICK i : Touches(s, i)
    BY <1>5 DEF FindInfoRsp
  <2> HIDE DEF h, last
  <2>6. att_hid' \in [HidSlots -> Table] /\ \A u \in HidSlots : att_hid'[u].idx = att_hid[u].idx
    BY <2>1, <2>2, NextsInside, NotedType DEF AttTypeOK
  <2>7. ask' \in [HidSlots -> Request] /\ ask'[s].op # "ref" /\ \A u \in HidSlots \ {s} : ask'[u] = ask[u]
    <3>1. last + 1 \in Nat /\ att_hid'[s].map \in Nat
      BY <2>1, <2>6 DEF Table
    <3> QED
      BY <2>3, <3>1, AskType
  <2>8. hid_state' \in [HidSlots -> {"DEVICE_NAME", "DISCOVERY", "REPORT_MAP", "REPORT_REF", "REPORT_CFG"}]
    BY <2>3 DEF AttTypeOK, State
  <2>9. {astray, spoiled}' \subseteq [HidSlots -> BOOLEAN]
    BY <2>5 DEF Touches, AttTypeOK
  <2>10. \A u \in HidSlots : Asked(u, "ref")' => att_hid'[u].idx <= HID_MAX_REPORT
    BY <2>6, <2>7 DEF AttTypeOK, Asked
  <2> QED
    BY <2>4, <2>6, <2>7, <2>8, <2>9, <2>10 DEF AttTypeOK
<1>6. ASSUME NEW s \in HidSlots, ReadMapRsp(s) PROVE AttTypeOK'
  <2> DEFINE ref == RefOf(att_hid, s, att_hid[s].idx)
  <2>1. UNCHANGED <<att_hid, gatt, subscribed, ready, refused, discoveries, refusals, astray, spoiled>>
    BY <1>6 DEF ReadMapRsp, Keep, Apart
  <2>2. PICK part \in 1 .. gatt[s].map :
           \/ Next1(s, "blob", part + 1) /\ UNCHANGED hid_state
           \/ ref # 0 /\ Next1(s, "ref", ref) /\ State(s, "REPORT_REF")
           \/ ask' = [ask EXCEPT ![s] = NOTHING] /\ UNCHANGED hid_state
    BY <1>6 DEF ReadMapRsp
  <2>3. part + 1 \in Nat /\ ref \in Nat /\ (ref # 0 => att_hid[s].idx <= HID_MAX_REPORT)
    <3>1. att_hid \in [HidSlots -> Table] /\ att_hid[s].idx \in Nat
      BY DEF AttTypeOK, Table, HID_MAX_REPORT
    <3>2. part + 1 \in Nat
      BY AttConstants DEF AttTypeOK
    <3> QED
      BY <3>1, <3>2, RefType
  <2>4. hid_state' \in [HidSlots -> {"DEVICE_NAME", "DISCOVERY", "REPORT_MAP", "REPORT_REF", "REPORT_CFG"}]
    BY <2>2 DEF State, AttTypeOK
  <2> HIDE DEF ref
  <2>5. /\ ask' \in [HidSlots -> Request] /\ \A u \in HidSlots \ {s} : ask'[u] = ask[u]
        /\ ask'[s].op = "ref" => att_hid[s].idx <= HID_MAX_REPORT
    <3>1. CASE ask' = [ask EXCEPT ![s] = NOTHING]
      BY <3>1, BlankFacts DEF AttTypeOK, NOTHING, Ask
    <3>2. CASE Next1(s, "blob", part + 1)
      BY <2>3, <3>2, AskType
    <3>3. CASE ref # 0 /\ Next1(s, "ref", ref)
      BY <2>3, <3>3, AskType
    <3> QED
      BY <2>2, <3>1, <3>2, <3>3
  <2>6. \A u \in HidSlots : Asked(u, "ref")' => att_hid'[u].idx <= HID_MAX_REPORT
    BY <2>1, <2>5 DEF AttTypeOK, Asked
  <2> QED
    BY <2>1, <2>4, <2>5, <2>6 DEF AttTypeOK
<1>7. ASSUME NEW s \in HidSlots, ReadRefRsp(s) PROVE AttTypeOK'
  <2>1. PICK t, ref : \E n \in Nat :
           /\ t = ReadTable(s, n) /\ Touches(s, att_hid[s].idx + 1)
           /\ ref = RefOf(t, s, att_hid[s].idx + 1) /\ Asked(s, "ref")
           /\ \/ ref # 0 /\ Next1(s, "ref", ref) /\ att_hid' = t /\ UNCHANGED <<hid_state, ready>>
              \/ SubscribeFrom(t, s, 0) /\ State(s, "REPORT_CFG")
    BY <1>7, ReadRefFact
  <2>2. t \in [HidSlots -> Table] /\ t[s].idx = att_hid[s].idx + 1
        /\ \A u \in HidSlots : u # s => t[u].idx = att_hid[u].idx
    BY <2>1, ReadTableType
  <2>3. UNCHANGED <<gatt, subscribed, refused, discoveries, refusals>>
    BY <1>7 DEF ReadRefRsp
  <2>4. {astray, spoiled}' \subseteq [HidSlots -> BOOLEAN]
    BY <2>1 DEF Touches, AttTypeOK
  <2>5. hid_state' \in [HidSlots -> {"DEVICE_NAME", "DISCOVERY", "REPORT_MAP", "REPORT_REF", "REPORT_CFG"}]
    BY <2>1 DEF State, AttTypeOK
  <2>6. att_hid[s].idx + 1 \in Nat
    BY <2>2 DEF AttTypeOK, Table
  <2>7. CASE ref # 0 /\ Next1(s, "ref", ref) /\ att_hid' = t /\ UNCHANGED <<hid_state, ready>>
    <3>1. ref \in Nat /\ att_hid[s].idx + 1 <= HID_MAX_REPORT
      BY <2>1, <2>2, <2>6, <2>7, RefType
    <3>2. ask' \in [HidSlots -> Request] /\ \A u \in HidSlots \ {s} : ask'[u] = ask[u]
      BY <2>7, <3>1, AskType
    <3>3. \A u \in HidSlots : Asked(u, "ref")' => att_hid'[u].idx <= HID_MAX_REPORT
      BY <2>2, <2>7, <3>1, <3>2 DEF AttTypeOK, Asked
    <3> QED
      BY <2>2, <2>3, <2>4, <2>5, <2>7, <3>2, <3>3 DEF AttTypeOK
  <2>8. CASE SubscribeFrom(t, s, 0) /\ State(s, "REPORT_CFG")
    <3>1. /\ att_hid' \in [HidSlots -> Table] /\ ask' \in [HidSlots -> Request] /\ ready' \in [HidSlots -> BOOLEAN]
          /\ \A u \in HidSlots \ {s} : att_hid'[u] = t[u] /\ ask'[u] = ask[u]
          /\ ask'[s].op # "ref"
      <4>1. 0 \in Nat /\ NOTHING.op = "none"
        BY DEF NOTHING, Ask
      <4> QED
        BY <2>2, <2>8, <4>1, SubscribeFact
    <3>2. \A u \in HidSlots : Asked(u, "ref")' => att_hid'[u].idx <= HID_MAX_REPORT
      BY <2>2, <3>1 DEF AttTypeOK, Asked
    <3> QED
      BY <2>3, <2>4, <2>5, <3>1, <3>2 DEF AttTypeOK
  <2> QED
    BY <2>1, <2>7, <2>8
<1>8. ASSUME NEW s \in HidSlots, WriteRsp(s) PROVE AttTypeOK'
  <2>1. att_hid \in [HidSlots -> Table] /\ att_hid[s].idx \in Nat /\ ask[s].handle \in Nat
    BY DEF AttTypeOK, Table, Request
  <2>2. /\ att_hid' \in [HidSlots -> Table] /\ ask' \in [HidSlots -> Request] /\ ready' \in [HidSlots -> BOOLEAN]
        /\ \A u \in HidSlots \ {s} : att_hid'[u] = att_hid[u] /\ ask'[u] = ask[u]
        /\ ask'[s].op # "ref"
    <3>1. NOTHING.op = "none" /\ SubscribeFrom(att_hid, s, att_hid[s].idx)
      BY <1>8 DEF NOTHING, Ask, WriteRsp
    <3> QED
      BY <2>1, <3>1, SubscribeFact
  <2>3. subscribed' \in [HidSlots -> SUBSET Nat]
    BY <1>8, <2>1 DEF WriteRsp, AttTypeOK
  <2>4. UNCHANGED <<gatt, hid_state, refused, discoveries, refusals, astray, spoiled>>
    BY <1>8 DEF WriteRsp, Apart
  <2>5. \A u \in HidSlots : Asked(u, "ref")' => att_hid'[u].idx <= HID_MAX_REPORT
    BY <2>2 DEF AttTypeOK, Asked
  <2> QED
    BY <2>2, <2>3, <2>4, <2>5 DEF AttTypeOK
<1>9. ASSUME NEW s \in HidSlots, ErrorRsp(s) PROVE AttTypeOK'
  <2>1. ask' \in [HidSlots -> Request] /\ ask'[s].op # "ref" /\ \A u \in HidSlots \ {s} : ask'[u] = ask[u]
    BY <1>9, BlankFacts DEF ErrorRsp, AttTypeOK, NOTHING, Ask
  <2>2. refused' \in [HidSlots -> BOOLEAN] /\ refusals' \in 0 .. MaxRefusals
    <3>1. /\ refused' = refused \/ refused' = [refused EXCEPT ![s] = TRUE]
          /\ refusals' = refusals \/ (refusals < MaxRefusals /\ refusals' = refusals + 1)
      BY <1>9 DEF ErrorRsp
    <3>2. refused \in [HidSlots -> BOOLEAN] /\ refusals \in 0 .. MaxRefusals
      BY DEF AttTypeOK
    <3>3. refused' \in [HidSlots -> BOOLEAN]
      BY <3>1, <3>2
    <3>4. refusals' \in 0 .. MaxRefusals
      <4>1. MaxRefusals \in Nat /\ refusals \in 0 .. MaxRefusals
        BY <3>2, AttConstants
      <4> QED
        BY <3>1, <4>1
    <3> QED
      BY <3>3, <3>4
  <2>3. UNCHANGED <<gatt, hid_state, att_hid, subscribed, ready, discoveries, astray, spoiled>>
    BY <1>9 DEF ErrorRsp, Apart
  <2>4. \A u \in HidSlots : Asked(u, "ref")' => att_hid'[u].idx <= HID_MAX_REPORT
    BY <2>1, <2>3 DEF AttTypeOK, Asked
  <2> QED
    BY <2>1, <2>2, <2>3, <2>4 DEF AttTypeOK
<1> QED
  BY <1>1, <1>2, <1>3, <1>4, <1>5, <1>6, <1>7, <1>8, <1>9 DEF AttNext

-----------------------------------------------------------------------------
(* The stage of a discovery.                                               *)

LEMMA SlotKept ==
    ASSUME AttTypeOK, NEW u \in HidSlots, SlotInv(u),
           gatt'[u] = gatt[u], ask'[u] = ask[u], ready'[u] = ready[u], subscribed'[u] = subscribed[u],
           astray'[u] = astray[u], spoiled'[u] \/ (att_hid'[u] = att_hid[u] /\ spoiled'[u] = spoiled[u])
    PROVE  SlotInv(u)'
<1>1. gatt'[u] = NO_DEVICE => ask'[u] = NOTHING /\ ~ready'[u] /\ ~astray'[u]
  BY DEF SlotInv
<1>2. CASE spoiled'[u]
  BY <1>1, <1>2 DEF SlotInv
<1>3. CASE att_hid'[u] = att_hid[u] /\ spoiled'[u] = spoiled[u]
  BY <1>3 DEF SlotInv
<1> QED
  BY <1>2, <1>3

LEMMA TouchesFact ==
    ASSUME AttTypeOK, NEW s \in HidSlots, NEW i \in Nat, Touches(s, i)
    PROVE  /\ astray'[s] <=> astray[s] \/ i >= HID_MAX_REPORT
           /\ spoiled'[s] <=> spoiled[s]
           /\ \A u \in HidSlots \ {s} :
                 /\ astray'[u] = astray[u]
                 /\ spoiled'[u] \/ spoiled'[u] = spoiled[u]
                 /\ u \in Behind(s) /\ i >= HID_MAX_REPORT => spoiled'[u]
<1>1. s \notin Behind(s)
  BY AttConstants DEF Behind
<1>2. astray \in [HidSlots -> BOOLEAN] /\ spoiled \in [HidSlots -> BOOLEAN]
  BY DEF AttTypeOK
<1>3. /\ astray' = [astray EXCEPT ![s] = @ \/ i >= HID_MAX_REPORT]
      /\ spoiled' = [n \in HidSlots |-> spoiled[n] \/ (i >= HID_MAX_REPORT /\ n \in Behind(s))]
  BY DEF Touches
<1> DEFINE over == i >= HID_MAX_REPORT
<1> HIDE DEF over
<1>4. /\ astray' = [astray EXCEPT ![s] = @ \/ over]
      /\ spoiled' = [n \in HidSlots |-> spoiled[n] \/ (over /\ n \in Behind(s))]
  BY Zenon, <1>3 DEF over
<1>5. astray'[s] <=> astray[s] \/ over
  BY Zenon, <1>2, <1>4
<1>6. spoiled'[s] <=> spoiled[s]
  BY Zenon, <1>1, <1>2, <1>4
<1>7. ASSUME NEW u \in HidSlots \ {s}
      PROVE  /\ astray'[u] = astray[u]
             /\ spoiled'[u] \/ spoiled'[u] = spoiled[u]
             /\ u \in Behind(s) /\ over => spoiled'[u]
  <2>1. spoiled'[u] = (spoiled[u] \/ (over /\ u \in Behind(s)))
    BY <1>4
  <2>2. spoiled[u] \in BOOLEAN /\ spoiled'[u] \in BOOLEAN
    BY <1>2, <2>1
  <2>3. astray'[u] = astray[u]
    BY <1>2, <1>4
  <2> QED
    BY <2>1, <2>2, <2>3
<1> QED
  BY <1>5, <1>6, <1>7 DEF over

\* An answer to a controller whose discovery keeps to its table.
LEMMA AnswerSlot ==
    ASSUME NEW s \in HidSlots, SlotInv(s), ask[s].op # "none", gatt'[s] = gatt[s],
           spoiled'[s] <=> spoiled[s], astray[s] => astray'[s],
           gatt[s] # NO_DEVICE /\ ~spoiled[s] /\ ~astray[s] =>
             /\ astray'[s] => gatt[s].reports >= HID_MAX_REPORT
             /\ ~astray'[s] => Stage(gatt[s], ask'[s], att_hid'[s], subscribed'[s], ready'[s])
    PROVE  SlotInv(s)'
<1>1. gatt[s] # NO_DEVICE
  BY DEF SlotInv, NOTHING, Ask
<1>2. astray[s] /\ ~spoiled[s] => gatt[s].reports >= HID_MAX_REPORT
  BY <1>1 DEF SlotInv
<1> QED
  BY <1>1, <1>2 DEF SlotInv

\* What holds of a controller in that case.
LEMMA InStage ==
    ASSUME AttTypeOK, NEW s \in HidSlots, SlotInv(s), gatt[s] # NO_DEVICE, ~spoiled[s], ~astray[s]
    PROVE  /\ Stage(gatt[s], ask[s], att_hid[s], subscribed[s], ready[s])
           /\ gatt[s] \in Database /\ att_hid[s] \in Table /\ ask[s] \in Request
           /\ EndOf(gatt[s]) \in Nat /\ EndOf(gatt[s]) >= 3 /\ gatt[s].reports \in 0 .. 6
<1>1. Stage(gatt[s], ask[s], att_hid[s], subscribed[s], ready[s])
  BY DEF SlotInv
<1> QED
  BY <1>1, AttConstants DEF AttTypeOK

LEMMA NotReady ==
    ASSUME NEW db, NEW a, NEW t, NEW S, NEW r, Stage(db, a, t, S, r), a.op # "none"
    PROVE  ~r /\ (a.op # "write" => S = {})
BY DEF Stage

LEMMA WithinFact ==
    ASSUME NEW db \in Database, NEW n \in Nat \ {0}
    PROVE  /\ RefOfReport(n) \in Nat /\ RefOfReport(n) > 0 /\ CccOf(n) <= RefOfReport(n)
           /\ RefOfReport(n) <= EndOf(db) <=> n <= db.reports
<1>1. db.reports \in 0 .. 6
  BY DEF Database
<1> QED
  BY <1>1 DEF EndOf, RefOfReport, CccOf, ChrcOf

LEMMA HidInitSlot ==
    ASSUME AttTypeOK, NEW s \in HidSlots, SlotInv(s), NEW db \in Databases, HidInit(s, db)
    PROVE  SlotInv(s)'
<1>1. gatt'[s] = db /\ gatt[s] = NO_DEVICE /\ db # NO_DEVICE
  BY AttConstants DEF HidInit, AttTypeOK
<1>2. att_hid'[s] = BlankTable /\ subscribed'[s] = {} /\ ~astray'[s] /\ ready' = ready
  BY DEF HidInit, AttTypeOK
<1>3. ask'[s].op = "mtu"
  BY AskType DEF HidInit
<1>4. ~ready'[s]
  BY <1>1, <1>2 DEF SlotInv
<1>5. Stage(gatt'[s], ask'[s], att_hid'[s], subscribed'[s], ready'[s])
  BY <1>2, <1>3, <1>4 DEF Stage
<1> QED
  BY <1>1, <1>2, <1>5 DEF SlotInv

LEMMA LinkLostSlot ==
    ASSUME AttTypeOK, NEW s \in HidSlots, AttLinkLost(s)
    PROVE  SlotInv(s)'
<1>1. gatt'[s] = NO_DEVICE /\ ask'[s] = NOTHING /\ ~ready'[s] /\ ~astray'[s]
  BY DEF AttLinkLost, AttTypeOK
<1> QED
  BY <1>1 DEF SlotInv

\* The answers up to the services.
LEMMA EarlySlot ==
    ASSUME AttTypeOK, NEW s \in HidSlots, SlotInv(s),
           MtuRsp(s) \/ NameRsp(s) \/ ReadGroupRsp(s) \/ NoMoreServices(s) \/ NoMoreAttributes(s)
    PROVE  SlotInv(s)'
<1>1. gatt' = gatt /\ subscribed' = subscribed /\ ready' = ready /\ astray' = astray /\ spoiled' = spoiled
  BY DEF MtuRsp, NameRsp, ReadGroupRsp, NoMoreServices, NoMoreAttributes, Keep, Apart
<1>2. ask[s].op \in {"mtu", "name", "group", "info"}
  BY DEF MtuRsp, NameRsp, ReadGroupRsp, NoMoreServices, NoMoreAttributes, Asked
<1>3. ASSUME gatt[s] # NO_DEVICE, ~spoiled[s], ~astray[s]
      PROVE  Stage(gatt[s], ask'[s], att_hid'[s], subscribed'[s], ready'[s])
  <2>1. PICK db, h, t : db = gatt[s] /\ h = ask[s].handle /\ t = att_hid[s]
    OBVIOUS
  <2>2. /\ Stage(db, ask[s], t, subscribed[s], ready[s]) /\ db \in Database /\ t \in Table /\ h \in Nat
        /\ EndOf(db) \in Nat /\ EndOf(db) >= 3
    BY <1>3, <2>1, InStage DEF Request
  <2>3. ~ready'[s] /\ subscribed'[s] = {}
    BY <1>1, <1>2, <2>2, NotReady
  <2>4. ASSUME MtuRsp(s) PROVE ask'[s].op = "name" /\ att_hid'[s] = BlankTable
    <3>1. Next1(s, "name", 0) /\ att_hid' = att_hid /\ ask[s].op = "mtu"
      BY <2>4 DEF MtuRsp, Asked
    <3> QED
      BY <2>1, <2>2, <3>1, AskType DEF Stage
  <2>5. ASSUME NameRsp(s) PROVE ask'[s].op = "group" /\ ask'[s].handle = 1 /\ att_hid'[s] = BlankTable
    <3>1. Next1(s, "group", 1) /\ att_hid' = att_hid /\ ask[s].op = "name"
      BY <2>5 DEF NameRsp, Asked
    <3> QED
      BY <2>1, <2>2, <3>1, AskType DEF Stage
  <2> DEFINE served == [BlankTable EXCEPT !.start = 1, !.end = EndOf(db)]
  <2>6. ASSUME ReadGroupRsp(s)
        PROVE  ask'[s].op = "group" /\ ask'[s].handle >= EndOf(db) /\ att_hid'[s] = served
    <3> DEFINE found == ServicesFrom(db, h)
               end == From(CHOOSE v \in found : \A w \in found : w.start <= v.start)
    <3>1. /\ found # {} /\ Next1(s, "group", end) /\ ask[s].op = "group"
          /\ att_hid' = IF \E v \in found : v.hid
                        THEN [att_hid EXCEPT ![s].start = 1, ![s].end = EndOf(db)] ELSE att_hid
      BY <2>1, <2>6 DEF ReadGroupRsp, Asked
    <3>2. end \in Nat /\ end >= EndOf(db) /\ ((\E v \in found : v.hid) <=> h <= 1)
      BY <2>2, <3>1, ServicesFact
    <3> HIDE DEF found, end
    <3>3. ask'[s].op = "group" /\ ask'[s].handle >= EndOf(db)
      BY <3>1, <3>2, AskType
    <3>4. CASE h = 1 /\ t = BlankTable
      <4>1. att_hid' = [att_hid EXCEPT ![s].start = 1, ![s].end = EndOf(db)] /\ att_hid \in [HidSlots -> Table]
        BY <3>1, <3>2, <3>4 DEF AttTypeOK
      <4>2. att_hid'[s] = [t EXCEPT !.start = 1, !.end = EndOf(db)]
        BY <2>1, <4>1
      <4> QED
        BY <3>3, <3>4, <4>2
    <3>5. CASE h >= EndOf(db) /\ t = served
      <4>1. ~(\E v \in found : v.hid)
        BY <2>2, <3>2, <3>5
      <4>2. att_hid' = att_hid
        BY <3>1, <4>1
      <4> QED
        BY <2>1, <3>3, <3>5, <4>2
    <3> QED
      BY <2>1, <2>2, <3>1, <3>4, <3>5 DEF Stage
  <2>7. ASSUME NoMoreServices(s)
        PROVE  ask'[s].op = "info" /\ ask'[s].handle = 1 /\ Scanned(att_hid'[s], db, 0)
    <3>1. ask[s].op = "group" /\ ServicesFrom(db, h) = {} /\ Next1(s, "info", t.start) /\ att_hid' = att_hid
      BY <2>1, <2>7 DEF NoMoreServices, Asked
    <3>2. h # 1
      <4>1. Service(1, EndOf(db), TRUE) \in Services(db) /\ Service(1, EndOf(db), TRUE).start = 1
        BY DEF Services, Service
      <4>2. ASSUME h = 1 PROVE FALSE
        <5> DEFINE first == Service(1, EndOf(db), TRUE)
        <5>3. first \in Services(db) /\ first.start = 1
          BY <4>1
        <5> HIDE DEF first
        <5>1. first \in Services(db) /\ first.start >= h
          BY <2>2, <4>2, <5>3
        <5>2. first \in ServicesFrom(db, h)
          BY <5>1 DEF ServicesFrom
        <5> QED
          BY <3>1, <5>2
      <4> QED
        BY <4>2
    <3>3. t = served
      BY <2>1, <2>2, <3>1, <3>2 DEF Stage
    <3>4. /\ t.start = 1 /\ t.end = EndOf(db) /\ t.idx = 0 /\ t.cnt = 0 /\ t.found = 0
          /\ t.reports = [i \in 0 .. HID_MAX_REPORT - 1 |-> BlankReport]
      BY <3>3 DEF BlankTable
    <3>5. CountAt(0) = 0 /\ ~FoundAt(0)
      BY DEF CountAt, FoundAt, ReportOf, ChrcOf, HID_MAX_REPORT
    <3>6. HandlesNoted(t, 0) /\ InputsRead(t)
      <4>1. ASSUME NEW i \in 0 .. HID_MAX_REPORT - 1
            PROVE  /\ t.reports[i].ref = 0 /\ t.reports[i].cfg = 0 /\ t.reports[i].input = FALSE
                   /\ RefOfReport(i + 1) \in Nat /\ RefOfReport(i + 1) > 0
                   /\ CccOf(i + 1) \in Nat /\ CccOf(i + 1) > 0 /\ ~(i < 0)
        BY <3>4 DEF BlankReport, RefOfReport, CccOf, ChrcOf, HID_MAX_REPORT
      <4>2. HandlesNoted(t, 0)
        <5>1. \A a \in Nat : a > 0 => HandleBy(a, 0) = 0
          BY DEF HandleBy
        <5> QED
          BY <4>1, <5>1 DEF HandlesNoted
      <4>3. InputsRead(t)
        BY <3>4, <4>1 DEF InputsRead
      <4> QED
        BY <4>2, <4>3
    <3>7. Scanned(t, db, 0)
      BY <3>4, <3>5, <3>6 DEF Scanned
    <3> QED
      BY <2>1, <3>1, <3>4, <3>7, AskType
  <2>8. ~NoMoreAttributes(s)
    BY <2>1, <2>2 DEF NoMoreAttributes, Stage, Asked
  <2>9. 1 \in 1 .. EndOf(db) /\ 1 - 1 = 0
    BY <2>2
  <2> QED
    BY <2>1, <2>3, <2>4, <2>5, <2>6, <2>7, <2>8, <2>9 DEF Stage
<1> QED
  BY <1>1, <1>2, <1>3, AnswerSlot

LEMMA FindInfoSlot ==
    ASSUME AttTypeOK, NEW s \in HidSlots, SlotInv(s), FindInfoRsp(s)
    PROVE  SlotInv(s)'
<1> DEFINE h == ask[s].handle
           db == gatt[s]
           last == IF h + db.chunk - 1 < EndOf(db) THEN h + db.chunk - 1 ELSE EndOf(db)
           some == \E a \in h .. last : Uuid(a) \in {"REPORT", "CCC", "REF"}
           i == IF some THEN att_hid[s].cnt ELSE 0
<1>1. /\ ask[s].op = "info" /\ h \in 1 .. EndOf(db) /\ att_hid' = Noted(s, h, last, NextReports(s, h, last))
      /\ Touches(s, i) /\ gatt' = gatt /\ subscribed' = subscribed /\ ready' = ready
      /\ \/ last < att_hid'[s].end /\ Next1(s, "info", last + 1)
         \/ ~(last < att_hid'[s].end) /\ Next1(s, "map", att_hid'[s].map)
  BY DEF FindInfoRsp, Asked, Keep
<1>2. db \in Database /\ EndOf(db) \in Nat /\ att_hid[s] \in Table /\ att_hid[s].cnt \in Nat /\ h \in Nat \ {0}
  BY <1>1, AttConstants DEF AttTypeOK, Request, Table
<1>3. last \in Nat /\ h <= last /\ last <= EndOf(db)
  BY <1>1, <1>2, AttConstants
<1> HIDE DEF last
<1>4. i \in Nat /\ (~some => i = 0) /\ (some => i = att_hid[s].cnt)
  BY <1>2
<1> HIDE DEF some, i
<1>5. (astray'[s] <=> astray[s] \/ i >= HID_MAX_REPORT) /\ (spoiled'[s] <=> spoiled[s])
  BY <1>1, <1>4, TouchesFact
<1>6. att_hid' \in [HidSlots -> Table]
  BY <1>1, <1>2, <1>3, NextsInside, NotedType DEF AttTypeOK
<1>7. ASSUME db # NO_DEVICE, ~spoiled[s], ~astray[s]
      PROVE  /\ astray'[s] => db.reports >= HID_MAX_REPORT
             /\ ~astray'[s] => Stage(db, ask'[s], att_hid'[s], subscribed'[s], ready'[s])
  <2>1. Stage(db, ask[s], att_hid[s], subscribed[s], ready[s])
    BY <1>7, InStage
  <2>2. Scanned(att_hid[s], db, h - 1) /\ ~ready'[s] /\ subscribed'[s] = {}
    BY <1>1, <2>1, NotReady DEF Stage
  <2>3. att_hid[s].cnt = CountAt(h - 1) /\ h - 1 \in Nat /\ ReportOf(h - 1) \in Nat
    BY <1>2, <2>2, ReportOfFact DEF Scanned
  <2>4. CASE att_hid[s].cnt < HID_MAX_REPORT
    <3>1. Scanned(att_hid'[s], db, last)
      BY <1>1, <1>2, <1>3, <2>2, <2>4, NotedFact DEF AttTypeOK
    <3>2. ~astray'[s]
      BY <1>2, <1>4, <1>5, <1>7, <2>4 DEF HID_MAX_REPORT
    <3>3. att_hid'[s].end = EndOf(db)
      BY <3>1 DEF Scanned
    <3>4. last + 1 \in Nat /\ att_hid'[s].map \in Nat
      BY <1>3, <1>6 DEF Table
    <3>5. CASE last < EndOf(db) /\ Next1(s, "info", last + 1)
      <4>1. ask'[s].op = "info" /\ ask'[s].handle = last + 1
        BY <3>4, <3>5, AskType
      <4>2. last + 1 \in 1 .. EndOf(db) /\ (last + 1) - 1 = last
        BY <1>2, <1>3, <3>5
      <4> QED
        BY <2>2, <3>1, <3>2, <4>1, <4>2 DEF Stage
    <3>6. CASE last = EndOf(db) /\ Next1(s, "map", att_hid'[s].map)
      <4>1. ask'[s].op = "map"
        BY <3>4, <3>6, AskType
      <4> QED
        BY <2>2, <3>1, <3>2, <3>6, <4>1 DEF Stage
    <3> QED
      BY <1>1, <1>2, <1>3, <3>3, <3>5, <3>6
  \* The table was full: all that is left belongs to the sixth report.
  <2>5. CASE ~(att_hid[s].cnt < HID_MAX_REPORT)
    <3>1. ReportOf(h - 1) >= 6
      BY <1>2, <2>3, <2>5 DEF CountAt, HID_MAX_REPORT
    <3>2. ChrcOf(6) <= h - 1
      BY <2>3, <3>1, ChrcReached
    <3>3. db.reports \in 0 .. 6
      BY <1>2 DEF Database
    <3>4. h <= RefOfReport(db.reports) /\ RefOfReport(db.reports) \in Nat
      BY <1>1, <1>2 DEF EndOf
    <3>5. db.reports = 6 /\ h \in {24, 25, 26}
      BY <1>2, <3>2, <3>3, <3>4 DEF RefOfReport, ChrcOf
    <3>6. ReportOf(h) = 6 /\ ChrcOf(6) = 23 /\ CccOf(6) = 25 /\ RefOfReport(6) = 26
      BY <3>5 DEF ReportOf, RefOfReport, ChrcOf, CccOf
    <3>7. Uuid(h) \in {"REPORT", "CCC", "REF"}
      BY <1>2, <3>5, <3>6, UuidFact
    <3>8. some
      BY <1>2, <1>3, <3>7 DEF some
    <3>9. astray'[s]
      BY <1>2, <1>4, <1>5, <2>5, <3>8 DEF HID_MAX_REPORT
    <3> QED
      BY <3>5, <3>9 DEF HID_MAX_REPORT
  <2> QED
    BY <2>4, <2>5
<1> QED
  BY <1>1, <1>5, <1>7, AnswerSlot

LEMMA ReadMapSlot ==
    ASSUME AttTypeOK, NEW s \in HidSlots, SlotInv(s), ReadMapRsp(s)
    PROVE  SlotInv(s)'
<1> DEFINE ref == RefOf(att_hid, s, att_hid[s].idx)
<1>1. /\ gatt' = gatt /\ att_hid' = att_hid /\ subscribed' = subscribed /\ ready' = ready
      /\ astray' = astray /\ spoiled' = spoiled /\ ask[s].op \in {"map", "blob"}
  BY DEF ReadMapRsp, Keep, Apart, Asked
<1>2. PICK part \in 1 .. gatt[s].map :
         \/ Next1(s, "blob", part + 1)
         \/ ref # 0 /\ Next1(s, "ref", ref)
         \/ ask' = [ask EXCEPT ![s] = NOTHING]
  BY DEF ReadMapRsp
<1>3. ASSUME gatt[s] # NO_DEVICE, ~spoiled[s], ~astray[s]
      PROVE  Stage(gatt[s], ask'[s], att_hid'[s], subscribed'[s], ready'[s])
  <2>1. PICK db, t : db = gatt[s] /\ t = att_hid[s]
    OBVIOUS
  <2>2. /\ Stage(db, ask[s], t, subscribed[s], ready[s]) /\ db \in Database /\ t \in Table
        /\ EndOf(db) \in Nat /\ EndOf(db) >= 3 /\ part + 1 \in Nat
    BY <1>3, <2>1, InStage DEF Database
  <2>3. ~ready'[s] /\ subscribed'[s] = {} /\ Scanned(t, db, EndOf(db))
    BY <1>1, <2>2, NotReady DEF Stage
  <2>4. CASE Next1(s, "blob", part + 1)
    <3>1. ask'[s].op = "blob"
      BY <2>2, <2>4, AskType
    <3> QED
      BY <1>1, <2>1, <2>3, <3>1 DEF Stage
  <2>5. CASE ref # 0 /\ Next1(s, "ref", ref)
    <3>1. /\ t.idx = 0 /\ HandlesNoted(t, EndOf(db)) /\ InputsRead(t)
      BY <2>3 DEF Scanned
    <3>2. ref = t.reports[0].ref /\ 0 < HID_MAX_REPORT /\ 0 \in 0 .. HID_MAX_REPORT - 1
      BY <2>1, <3>1 DEF RefOf, HID_MAX_REPORT
    <3>3. t.reports[0].ref = HandleBy(RefOfReport(0 + 1), EndOf(db))
      BY <3>1, <3>2 DEF HandlesNoted
    <3>4. ref = RefOfReport(1) /\ ref \in Nat /\ 0 < db.reports
      BY <2>2, <2>5, <3>2, <3>3, WithinFact DEF HandleBy, Database
    <3> HIDE DEF ref
    <3>5. ask'[s].op = "ref" /\ ask'[s].handle = RefOfReport(1)
      BY <2>5, <3>4, AskType
    <3>6. RefOfReport(t.idx + 1) = RefOfReport(1)
      BY <3>1
    <3> QED
      BY <1>1, <2>1, <2>3, <3>1, <3>2, <3>4, <3>5, <3>6 DEF Stage
  <2>6. CASE ask' = [ask EXCEPT ![s] = NOTHING]
    <3>1. ask'[s].op = "none"
      BY <2>6 DEF AttTypeOK, NOTHING, Ask
    <3> QED
      BY <2>3, <3>1 DEF Stage
  <2> QED
    BY <1>2, <2>4, <2>5, <2>6
<1> QED
  BY <1>1, <1>3, AnswerSlot

LEMMA ErrorSlot ==
    ASSUME AttTypeOK, NEW s \in HidSlots, SlotInv(s), ErrorRsp(s)
    PROVE  SlotInv(s)'
<1>1. /\ gatt' = gatt /\ subscribed' = subscribed /\ ready' = ready /\ astray' = astray /\ spoiled' = spoiled
      /\ ask[s].op # "none" /\ ask'[s].op = "none"
  BY DEF ErrorRsp, Apart, AttTypeOK, NOTHING, Ask
<1>2. ASSUME gatt[s] # NO_DEVICE, ~spoiled[s], ~astray[s]
      PROVE  Stage(gatt[s], ask'[s], att_hid'[s], subscribed'[s], ready'[s])
  <2>1. ~ready'[s]
    BY <1>1, <1>2, InStage, NotReady
  <2> QED
    BY <1>1, <2>1 DEF Stage
<1> QED
  BY <1>1, <1>2, AnswerSlot

\* The table when the reference of a report that has a place was noted.
LEMMA ReadTableFact ==
    ASSUME AttTypeOK, NEW s \in HidSlots, NEW n \in Nat, att_hid[s].idx < HID_MAX_REPORT
    PROVE  LET t == ReadTable(s, n)[s]
           IN /\ t.idx = att_hid[s].idx + 1
              /\ \A j \in 0 .. HID_MAX_REPORT - 1 :
                    /\ t.reports[j].ref = att_hid[s].reports[j].ref
                    /\ t.reports[j].cfg = att_hid[s].reports[j].cfg
                    /\ j # att_hid[s].idx => /\ t.reports[j].input = att_hid[s].reports[j].input
                                             /\ t.reports[j].id = att_hid[s].reports[j].id
              /\ t.reports[att_hid[s].idx].input = (n \in Inputs(gatt[s]))
              /\ t.reports[att_hid[s].idx].id = n
<1> DEFINE i == att_hid[s].idx
           t == att_hid[s]
           b == n \in Inputs(gatt[s])
           reports == [t.reports EXCEPT ![i].id = n, ![i].input = b]
           new == [t EXCEPT !.idx = i + 1, !.reports = reports]
<1>1. /\ i \in 0 .. HID_MAX_REPORT - 1 /\ t.reports \in [0 .. HID_MAX_REPORT - 1 -> Report]
      /\ ReadTable(s, n) = [att_hid EXCEPT ![s] = new]
  BY ReadTableIs
<1>2. att_hid \in [HidSlots -> Table] /\ t \in Table
  BY DEF AttTypeOK
<1> HIDE DEF b
<1>3. /\ \A j \in 0 .. HID_MAX_REPORT - 1 :
            /\ reports[j].ref = t.reports[j].ref /\ reports[j].cfg = t.reports[j].cfg
            /\ j # i => reports[j].input = t.reports[j].input /\ reports[j].id = t.reports[j].id
      /\ reports[i].input = b /\ reports[i].id = n
  BY <1>1 DEF Report
<1> HIDE DEF reports
<1>4. ReadTable(s, n)[s] = new
  BY <1>1, <1>2
<1>5. new.idx = i + 1 /\ new.reports = reports
  BY <1>2 DEF Table
<1> HIDE DEF new
<1> QED
  BY <1>3, <1>4, <1>5 DEF b

\* Which reports are subscribed to next.
LEMMA WantedFact ==
    ASSUME NEW s \in HidSlots, NEW t \in [HidSlots -> Table], NEW i \in Nat, NEW db \in Database,
           db = gatt[s], RequiredKnown(t[s], db), db.reports < HID_MAX_REPORT
    PROVE  /\ Wanted(t, s, i) \subseteq i .. HID_MAX_REPORT - 1
           /\ \A n \in Required(db) : n > i <=> n - 1 \in Wanted(t, s, i)
           /\ \A j \in Wanted(t, s, i) : j + 1 \in Required(db)
<1>1. \A n \in Required(db) : n \in Nat \ {0} /\ n < HID_MAX_REPORT
  BY DEF Required, Inputs, Database, HID_MAX_REPORT
<1>2. ASSUME NEW n \in Required(db) PROVE n > i <=> n - 1 \in Wanted(t, s, i)
  <2>1. n - 1 \in 0 .. HID_MAX_REPORT - 1 /\ (n - 1) + 1 = n
    BY <1>1 DEF HID_MAX_REPORT
  <2>2. t[s].reports[n - 1].input /\ t[s].reports[n - 1].id \in gatt[s].kept
    BY <2>1 DEF RequiredKnown
  <2> QED
    BY <1>1, <2>1, <2>2 DEF Wanted, HID_MAX_REPORT
<1>3. ASSUME NEW j \in Wanted(t, s, i) PROVE j + 1 \in Required(db)
  BY DEF Wanted, RequiredKnown, HID_MAX_REPORT
<1> QED
  BY <1>2, <1>3 DEF Wanted

\* The subscription that comes after those below i leads to the stage after it.
LEMMA SubscribeStage ==
    ASSUME AttTypeOK, NEW s \in HidSlots, NEW t \in [HidSlots -> Table], NEW i \in Nat, NEW db \in Database,
           db = gatt[s], SubscribeFrom(t, s, i), db.reports < HID_MAX_REPORT,
           HandlesNoted(t[s], EndOf(db)), RequiredKnown(t[s], db),
           subscribed'[s] = {CccOf(n) : n \in {m \in Required(db) : m <= i}}, ~ready[s]
    PROVE  Stage(db, ask'[s], att_hid'[s], subscribed'[s], ready'[s])
<1>1. \A n \in Required(db) : n \in Nat \ {0} /\ n < HID_MAX_REPORT /\ n # 2 /\ n <= db.reports
  BY DEF Required, Inputs, Database, HID_MAX_REPORT
<1>2. CASE Wanted(t, s, i) = {} /\ ask'[s] = NOTHING /\ ready'[s]
  <2>1. {m \in Required(db) : m <= i} = {m \in Required(db) : m < HID_MAX_REPORT}
    BY <1>1, <1>2, WantedFact
  <2>2. SubscribedBelow(subscribed'[s], db, HID_MAX_REPORT)
    BY <2>1 DEF SubscribedBelow
  <2>3. ask'[s].op = "none"
    BY <1>2 DEF NOTHING, Ask
  <2> QED
    BY <2>2, <2>3 DEF Stage
<1>3. ASSUME NEW j \in Wanted(t, s, i), \A k \in Wanted(t, s, i) : j <= k,
             ask'[s].op = "write", ask'[s].handle = t[s].reports[j].cfg,
             att_hid'[s] = [t[s] EXCEPT !.idx = j + 1], ready'[s] = ready[s]
      PROVE  Stage(db, ask'[s], att_hid'[s], subscribed'[s], ready'[s])
  <2>1. PICK u : u = att_hid'[s]
    OBVIOUS
  <2>2. j \in 0 .. HID_MAX_REPORT - 1 /\ j >= i /\ j + 1 \in Required(db)
    BY WantedFact DEF HID_MAX_REPORT
  <2>3. u.idx = j + 1 /\ u.reports = t[s].reports
    BY <1>3, <2>1 DEF Table
  <2>4. HandlesNoted(u, EndOf(db)) /\ RequiredKnown(u, db)
    BY <2>3 DEF HandlesNoted, RequiredKnown
  <2>5. ask'[s].handle = CccOf(j + 1)
    <3>1. j # 1 /\ j + 1 \in Nat \ {0} /\ j + 1 <= db.reports
      BY <1>1, <2>2
    <3>2. t[s].reports[j].cfg = HandleBy(CccOf(j + 1), EndOf(db))
      BY <2>2, <3>1 DEF HandlesNoted
    <3>3. CccOf(j + 1) <= EndOf(db)
      <4>1. CccOf(j + 1) <= RefOfReport(j + 1) /\ RefOfReport(j + 1) <= EndOf(db)
        BY <3>1, WithinFact
      <4>2. CccOf(j + 1) \in Nat /\ RefOfReport(j + 1) \in Nat /\ EndOf(db) \in Nat
        BY <3>1, ChrcGrows, AttConstants
      <4> QED
        BY <4>1, <4>2
    <3> QED
      BY <1>3, <3>2, <3>3 DEF HandleBy
  <2>6. {m \in Required(db) : m <= i} = {m \in Required(db) : m < j + 1}
    <3>1. ASSUME NEW m \in Required(db) PROVE m <= i <=> m < j + 1
      <4>1. m \in Nat /\ (m > i => j <= m - 1)
        BY <1>1, <1>3, WantedFact
      <4> QED
        BY <2>2, <4>1
    <3> QED
      BY <3>1
  <2>7. SubscribedBelow(subscribed'[s], db, u.idx)
    BY <2>3, <2>6 DEF SubscribedBelow
  <2> QED
    BY <1>3, <2>1, <2>2, <2>3, <2>4, <2>5, <2>7 DEF Stage
<1> QED
  BY <1>2, <1>3, SubscribeFact

LEMMA ReadRefSlot ==
    ASSUME AttTypeOK, NEW s \in HidSlots, SlotInv(s), ReadRefRsp(s)
    PROVE  SlotInv(s)'
<1>1. PICK t, ref : \E n \in Nat :
         /\ t = ReadTable(s, n) /\ Touches(s, att_hid[s].idx + 1)
         /\ n = (IF Uuid(ask[s].handle) = "REF" THEN ReportOf(ask[s].handle) ELSE 0)
         /\ ref = RefOf(t, s, att_hid[s].idx + 1) /\ Asked(s, "ref") /\ ask[s].handle \in 1 .. EndOf(gatt[s])
         /\ \/ ref # 0 /\ Next1(s, "ref", ref) /\ att_hid' = t /\ UNCHANGED <<hid_state, ready>>
            \/ ref = 0 /\ SubscribeFrom(t, s, 0) /\ State(s, "REPORT_CFG")
  BY ReadRefFact
<1>2. gatt' = gatt /\ subscribed' = subscribed /\ ask[s].op = "ref"
  BY <1>1 DEF ReadRefRsp, Asked
<1>3. att_hid[s].idx + 1 \in Nat
  BY DEF AttTypeOK, Table
<1>4. /\ astray'[s] <=> astray[s] \/ att_hid[s].idx + 1 >= HID_MAX_REPORT
      /\ spoiled'[s] <=> spoiled[s]
  BY <1>1, <1>3, TouchesFact
<1>5. ASSUME gatt[s] # NO_DEVICE, ~spoiled[s], ~astray[s]
      PROVE  /\ astray'[s] => gatt[s].reports >= HID_MAX_REPORT
             /\ ~astray'[s] => Stage(gatt[s], ask'[s], att_hid'[s], subscribed'[s], ready'[s])
  <2>1. PICK db, o, i : db = gatt[s] /\ o = att_hid[s] /\ i = att_hid[s].idx
    OBVIOUS
  <2>2. /\ Stage(db, ask[s], o, subscribed[s], ready[s]) /\ db \in Database /\ db.reports \in 0 .. 6
        /\ EndOf(db) \in Nat /\ i = o.idx /\ i \in Nat
    BY <1>5, <2>1, InStage DEF Table, Database
  <2>3. /\ ~ready[s] /\ subscribed'[s] = {} /\ i < HID_MAX_REPORT /\ i < db.reports
        /\ ask[s].handle = RefOfReport(i + 1) /\ HandlesNoted(o, EndOf(db)) /\ InputsRead(o)
    BY <1>2, <2>2, NotReady DEF Stage
  <2>4. astray'[s] => db.reports >= HID_MAX_REPORT
    BY <1>4, <1>5, <2>1, <2>2, <2>3 DEF HID_MAX_REPORT
  <2>5. ASSUME ~astray'[s] PROVE Stage(db, ask'[s], att_hid'[s], subscribed'[s], ready'[s])
    <3>1. i + 1 < HID_MAX_REPORT /\ i + 1 \in 0 .. HID_MAX_REPORT - 1 /\ i \in 0 .. HID_MAX_REPORT - 1
      BY <1>4, <2>1, <2>2, <2>5 DEF HID_MAX_REPORT
    <3>2. PICK n \in Nat : t = ReadTable(s, n) /\ n = (IF Uuid(ask[s].handle) = "REF" THEN ReportOf(ask[s].handle) ELSE 0)
      BY <1>1
    <3>3. n = i + 1
      <4>1. i + 1 \in Nat \ {0} /\ RefOfReport(i + 1) \in Nat \ {0} /\ ReportOf(RefOfReport(i + 1)) = i + 1
        BY <2>2, WithinFact, AttributesOf
      <4>2. Uuid(RefOfReport(i + 1)) = "REF"
        BY <4>1, UuidFact
      <4> QED
        BY <2>3, <3>2, <4>1, <4>2
    <3>4. t \in [HidSlots -> Table] /\ \A u \in HidSlots : TRUE
      BY <1>1, <3>2, ReadTableType
    <3>5. PICK new : new = t[s]
      OBVIOUS
    <3>6. /\ new.idx = i + 1
          /\ \A j \in 0 .. HID_MAX_REPORT - 1 :
                /\ new.reports[j].ref = o.reports[j].ref /\ new.reports[j].cfg = o.reports[j].cfg
                /\ j # i => new.reports[j].input = o.reports[j].input /\ new.reports[j].id = o.reports[j].id
          /\ new.reports[i].input = (n \in Inputs(db)) /\ new.reports[i].id = n
      BY <2>1, <2>3, <3>2, <3>5, ReadTableFact
    <3>7. HandlesNoted(new, EndOf(db))
      BY <2>3, <3>6 DEF HandlesNoted
    <3>8. InputsRead(new)
      <4>1. ASSUME NEW j \in 0 .. HID_MAX_REPORT - 1 PROVE new.reports[j].input <=> j < i + 1 /\ j # 1
        <5>1. CASE j = i
          <6>1. n \in Inputs(db) <=> i # 1
            BY <2>2, <2>3, <3>3 DEF Inputs
          <6>2. new.reports[j].input <=> n \in Inputs(db)
            BY Zenon, <3>6, <5>1
          <6>3. j < i + 1
            BY <2>2, <5>1
          <6> QED
            BY Zenon, <5>1, <6>1, <6>2, <6>3
        <5>2. CASE j # i
          <6>1. new.reports[j].input <=> j < i /\ j # 1
            BY <2>2, <2>3, <3>6, <5>2 DEF InputsRead
          <6> QED
            BY <2>2, <5>2, <6>1
        <5> QED
          BY <5>1, <5>2
      <4>2. ASSUME NEW j \in 0 .. HID_MAX_REPORT - 1, j < i + 1 PROVE new.reports[j].id = j + 1
        <5>1. CASE j = i
          BY <3>3, <3>6, <5>1
        <5>2. CASE j # i
          BY <2>2, <2>3, <3>6, <4>2, <5>2 DEF InputsRead
        <5> QED
          BY <5>1, <5>2
      <4> QED
        BY <3>6, <4>1, <4>2 DEF InputsRead
    <3>9. ref = new.reports[i + 1].ref
      BY <1>1, <2>1, <3>1, <3>5 DEF RefOf
    <3>10. /\ ref = HandleBy(RefOfReport((i + 1) + 1), EndOf(db))
           /\ RefOfReport((i + 1) + 1) \in Nat /\ RefOfReport((i + 1) + 1) > 0
           /\ RefOfReport((i + 1) + 1) <= EndOf(db) <=> (i + 1) + 1 <= db.reports
      BY <2>2, <3>1, <3>7, <3>9, WithinFact DEF HandlesNoted
    <3>11. CASE ref # 0 /\ Next1(s, "ref", ref) /\ att_hid' = t /\ UNCHANGED <<hid_state, ready>>
      <4>1. ref = RefOfReport((i + 1) + 1) /\ i + 1 < db.reports /\ ref \in Nat
        BY <2>2, <3>10, <3>11 DEF HandleBy
      <4>2. ask'[s].op = "ref" /\ ask'[s].handle = ref
        BY <3>11, <4>1, AskType
      <4>3. ~ready'[s] /\ att_hid'[s] = new
        BY <2>3, <3>5, <3>11
      <4> QED
        BY <2>3, <3>1, <3>6, <3>7, <3>8, <4>1, <4>2, <4>3 DEF Stage
    <3>12. CASE ref = 0 /\ SubscribeFrom(t, s, 0)
      <4>1. db.reports = i + 1 /\ db.reports < HID_MAX_REPORT
        BY <2>2, <2>3, <3>1, <3>10, <3>12 DEF HandleBy
      <4>2. RequiredKnown(t[s], db)
        <5>1. ASSUME NEW j \in 0 .. HID_MAX_REPORT - 1
              PROVE  t[s].reports[j].input /\ t[s].reports[j].id \in db.kept <=> j + 1 \in Required(db)
          <6>1. /\ t[s].reports[j].input <=> j < i + 1 /\ j # 1
                /\ j < i + 1 => t[s].reports[j].id = j + 1
            BY <3>5, <3>6, <3>8 DEF InputsRead
          <6>2. j + 1 \in Inputs(db) <=> j < i + 1 /\ j # 1
            BY <2>2, <4>1 DEF Inputs
          <6> QED
            BY <6>1, <6>2 DEF Required
        <5> QED
          BY <5>1 DEF RequiredKnown
      <4>3. subscribed'[s] = {CccOf(m) : m \in {k \in Required(db) : k <= 0}}
        <5>1. {k \in Required(db) : k <= 0} = {}
          BY <2>2 DEF Required, Inputs
        <5> QED
          BY <2>3, <5>1
      <4>4. HandlesNoted(t[s], EndOf(db)) /\ 0 \in Nat
        BY <3>5, <3>7
      <4> QED
        BY <2>1, <2>2, <2>3, <3>4, <3>12, <4>1, <4>2, <4>3, <4>4, SubscribeStage
    <3> QED
      BY <1>1, <3>11, <3>12
  <2> QED
    BY <2>1, <2>4, <2>5
<1> QED
  BY <1>2, <1>4, <1>5, AnswerSlot

LEMMA WriteSlot ==
    ASSUME AttTypeOK, NEW s \in HidSlots, SlotInv(s), WriteRsp(s)
    PROVE  SlotInv(s)'
<1>1. /\ gatt' = gatt /\ astray' = astray /\ spoiled' = spoiled /\ ask[s].op = "write"
      /\ SubscribeFrom(att_hid, s, att_hid[s].idx) /\ subscribed'[s] = subscribed[s] \cup {ask[s].handle}
  BY DEF WriteRsp, Apart, Asked, AttTypeOK
<1>2. ASSUME gatt[s] # NO_DEVICE, ~spoiled[s], ~astray[s]
      PROVE  Stage(gatt[s], ask'[s], att_hid'[s], subscribed'[s], ready'[s])
  <2>1. PICK db, i : db = gatt[s] /\ i = att_hid[s].idx
    OBVIOUS
  <2>2. /\ Stage(db, ask[s], att_hid[s], subscribed[s], ready[s]) /\ db \in Database /\ db.reports \in 0 .. 6
        /\ att_hid \in [HidSlots -> Table] /\ i \in Nat
    BY <1>2, <2>1, InStage DEF Table, AttTypeOK
  <2>3. /\ ~ready[s] /\ db.reports < HID_MAX_REPORT /\ i \in Required(db) /\ ask[s].handle = CccOf(i)
        /\ HandlesNoted(att_hid[s], EndOf(db)) /\ RequiredKnown(att_hid[s], db)
        /\ subscribed[s] = {CccOf(n) : n \in {m \in Required(db) : m < i}}
    BY <1>1, <2>1, <2>2, NotReady DEF Stage, SubscribedBelow
  <2>4. subscribed'[s] = {CccOf(n) : n \in {m \in Required(db) : m <= i}}
    <3>1. {m \in Required(db) : m <= i} = {m \in Required(db) : m < i} \cup {i}
      BY <2>2, <2>3 DEF Required, Inputs
    <3> DEFINE below == {m \in Required(db) : m < i}
               upto == {m \in Required(db) : m <= i}
    <3>2. upto = below \cup {i} /\ subscribed'[s] = {CccOf(n) : n \in below} \cup {CccOf(i)}
      BY <1>1, <2>3, <3>1
    <3> HIDE DEF below, upto
    <3>3. subscribed'[s] = {CccOf(n) : n \in upto}
      BY <3>2
    <3> QED
      BY <3>3 DEF upto
  <2>5. Stage(db, ask'[s], att_hid'[s], subscribed'[s], ready'[s])
    BY <1>1, <2>1, <2>2, <2>3, <2>4, SubscribeStage
  <2> QED
    BY <2>1, <2>5
<1> QED
  BY <1>1, <1>2, AnswerSlot

\* What an action leaves of the discoveries of the others.
LEMMA OthersKept ==
    ASSUME AttTypeOK, NEW s \in HidSlots, NEW u \in HidSlots \ {s}, SlotInv(u),
           \/ \E db \in Databases : HidInit(s, db)
           \/ AttLinkLost(s)
           \/ MtuRsp(s) \/ NameRsp(s) \/ ReadGroupRsp(s) \/ NoMoreServices(s) \/ FindInfoRsp(s) \/ NoMoreAttributes(s)
           \/ ReadMapRsp(s) \/ ReadRefRsp(s) \/ WriteRsp(s) \/ ErrorRsp(s)
    PROVE  SlotInv(u)'
<1>1. CASE \E db \in Databases : HidInit(s, db)
  <2>1. /\ gatt'[u] = gatt[u] /\ ask'[u] = ask[u] /\ ready'[u] = ready[u] /\ subscribed'[u] = subscribed[u]
        /\ astray'[u] = astray[u] /\ att_hid'[u] = att_hid[u] /\ spoiled'[u] = spoiled[u]
    BY <1>1 DEF HidInit, Next1, AttTypeOK
  <2> QED
    BY <2>1, SlotKept
<1>2. CASE AttLinkLost(s)
  <2>1. /\ gatt'[u] = gatt[u] /\ ask'[u] = ask[u] /\ ready'[u] = ready[u] /\ subscribed'[u] = subscribed[u]
        /\ astray'[u] = astray[u] /\ att_hid'[u] = att_hid[u] /\ spoiled'[u] = spoiled[u]
    BY <1>2 DEF AttLinkLost, AttTypeOK
  <2> QED
    BY <2>1, SlotKept
<1>3. CASE MtuRsp(s) \/ NameRsp(s) \/ ReadGroupRsp(s) \/ NoMoreServices(s) \/ NoMoreAttributes(s)
  <2>1. /\ gatt' = gatt /\ ready' = ready /\ subscribed' = subscribed /\ astray' = astray /\ spoiled' = spoiled
    BY <1>3 DEF MtuRsp, NameRsp, ReadGroupRsp, NoMoreServices, NoMoreAttributes, Keep, Apart
  <2>2. ask'[u] = ask[u]
    BY <1>3 DEF MtuRsp, NameRsp, ReadGroupRsp, NoMoreServices, NoMoreAttributes, Next1, AttTypeOK
  <2>3. att_hid'[u] = att_hid[u]
    BY <1>3 DEF MtuRsp, NameRsp, ReadGroupRsp, NoMoreServices, NoMoreAttributes, AttTypeOK
  <2> QED
    BY <2>1, <2>2, <2>3, SlotKept
<1>4. CASE FindInfoRsp(s)
  <2> DEFINE h == ask[s].handle
             last == IF h + gatt[s].chunk - 1 < EndOf(gatt[s]) THEN h + gatt[s].chunk - 1 ELSE EndOf(gatt[s])
             some == \E a \in h .. last : Uuid(a) \in {"REPORT", "CCC", "REF"}
             i == IF some THEN att_hid[s].cnt ELSE 0
  <2>1. /\ h \in 1 .. EndOf(gatt[s]) /\ att_hid' = Noted(s, h, last, NextReports(s, h, last))
        /\ Touches(s, i) /\ gatt' = gatt /\ subscribed' = subscribed /\ ready' = ready
        /\ Next1(s, "info", last + 1) \/ Next1(s, "map", att_hid'[s].map)
    BY <1>4 DEF FindInfoRsp, Keep
  <2>2. /\ gatt[s] \in Database /\ EndOf(gatt[s]) \in Nat /\ att_hid \in [HidSlots -> Table]
        /\ att_hid[s].cnt \in Nat /\ h \in Nat \ {0}
    <3>1. gatt[s] \in Database /\ att_hid \in [HidSlots -> Table] /\ ask[s].handle \in Nat
      BY AttConstants DEF AttTypeOK, Request
    <3>2. EndOf(gatt[s]) \in Nat /\ att_hid[s].cnt \in Nat
      BY <3>1, AttConstants DEF Table
    <3> QED
      BY <2>1, <3>1, <3>2
  <2>3. last \in Nat /\ h <= last
    BY <2>1, <2>2, AttConstants
  <2> HIDE DEF last, h
  <2>4. i \in Nat /\ (some => i = att_hid[s].cnt)
    BY <2>2
  <2>5. att_hid'[u] = att_hid[u] \/ (u \in Behind(s) /\ att_hid[s].cnt >= HID_MAX_REPORT /\ some)
    BY <2>1, <2>2, <2>3, NextsInside, NotedType
  <2> HIDE DEF some, i
  <2>6. /\ astray'[u] = astray[u] /\ (spoiled'[u] \/ spoiled'[u] = spoiled[u])
        /\ u \in Behind(s) /\ i >= HID_MAX_REPORT => spoiled'[u]
    BY <2>1, <2>4, TouchesFact
  <2>7. spoiled'[u] \/ (att_hid'[u] = att_hid[u] /\ spoiled'[u] = spoiled[u])
    BY <2>4, <2>5, <2>6
  <2>8. ask'[u] = ask[u]
    BY <2>1 DEF Next1, AttTypeOK
  <2> QED
    BY <2>1, <2>6, <2>7, <2>8, SlotKept
<1>5. CASE ReadMapRsp(s)
  <2>1. /\ gatt' = gatt /\ att_hid' = att_hid /\ ready' = ready /\ subscribed' = subscribed
        /\ astray' = astray /\ spoiled' = spoiled
    BY <1>5 DEF ReadMapRsp, Keep, Apart
  <2>2. ask'[u] = ask[u]
    <3>1. \E r : ask' = [ask EXCEPT ![s] = r]
      BY <1>5 DEF ReadMapRsp, Next1
    <3> QED
      BY <3>1 DEF AttTypeOK
  <2> QED
    BY <2>1, <2>2, SlotKept
<1>6. CASE ReadRefRsp(s)
  <2>1. PICK t, ref : \E n \in Nat :
           /\ t = ReadTable(s, n) /\ Touches(s, att_hid[s].idx + 1) /\ Asked(s, "ref")
           /\ \/ ref # 0 /\ Next1(s, "ref", ref) /\ att_hid' = t /\ UNCHANGED <<hid_state, ready>>
              \/ SubscribeFrom(t, s, 0)
    BY <1>6, ReadRefFact
  <2>2. gatt' = gatt /\ subscribed' = subscribed /\ att_hid[s].idx \in Nat /\ 0 \in Nat
    BY <1>6 DEF ReadRefRsp, AttTypeOK, Table
  <2>3. t \in [HidSlots -> Table] /\ (t[u] = att_hid[u] \/ (u \in Behind(s) /\ att_hid[s].idx >= HID_MAX_REPORT))
    BY <2>1, ReadTableType
  <2>4. att_hid[s].idx + 1 \in Nat /\ (att_hid[s].idx >= HID_MAX_REPORT => att_hid[s].idx + 1 >= HID_MAX_REPORT)
    BY <2>2 DEF HID_MAX_REPORT
  <2>5. /\ astray'[u] = astray[u] /\ (spoiled'[u] \/ spoiled'[u] = spoiled[u])
        /\ u \in Behind(s) /\ att_hid[s].idx + 1 >= HID_MAX_REPORT => spoiled'[u]
    BY <2>1, <2>4, TouchesFact
  <2>6. att_hid'[u] = t[u] /\ ask'[u] = ask[u] /\ ready'[u] = ready[u]
    <3>1. CASE Next1(s, "ref", ref) /\ att_hid' = t /\ UNCHANGED <<hid_state, ready>>
      BY <3>1 DEF Next1, AttTypeOK
    <3>2. CASE SubscribeFrom(t, s, 0)
      BY <2>2, <2>3, <3>2, SubscribeFact
    <3> QED
      BY <2>1, <3>1, <3>2
  <2>7. spoiled'[u] \/ (att_hid'[u] = att_hid[u] /\ spoiled'[u] = spoiled[u])
    BY <2>3, <2>4, <2>5, <2>6
  <2> QED
    BY <2>2, <2>5, <2>6, <2>7, SlotKept
<1>7. CASE WriteRsp(s)
  <2>1. /\ gatt' = gatt /\ astray' = astray /\ spoiled' = spoiled /\ subscribed'[u] = subscribed[u]
        /\ SubscribeFrom(att_hid, s, att_hid[s].idx)
    BY <1>7 DEF WriteRsp, Apart, AttTypeOK
  <2>2. att_hid \in [HidSlots -> Table] /\ att_hid[s].idx \in Nat
    BY DEF AttTypeOK, Table
  <2>3. att_hid'[u] = att_hid[u] /\ ask'[u] = ask[u] /\ ready'[u] = ready[u]
    BY <2>1, <2>2, SubscribeFact
  <2> QED
    BY <2>1, <2>3, SlotKept
<1>8. CASE ErrorRsp(s)
  <2>1. /\ gatt' = gatt /\ att_hid' = att_hid /\ ready' = ready /\ subscribed' = subscribed
        /\ astray' = astray /\ spoiled' = spoiled /\ ask'[u] = ask[u]
    BY <1>8 DEF ErrorRsp, Apart, AttTypeOK
  <2> QED
    BY <2>1, SlotKept
<1> QED
  BY <1>1, <1>2, <1>3, <1>4, <1>5, <1>6, <1>7, <1>8

(***************************************************************************)
(* The discovery of every controller that keeps to its table is at its     *)
(* stage (bt_att_hid_hdlr): the inductive invariant.  An answer changes    *)
(* its own table and, from the sixth report on, the one behind it, which   *)
(* is spoiled then; up to the fifth, what the answers so far have noted is *)
(* told by the handle they went up to, however they were cut.              *)
(***************************************************************************)
THEOREM DiscoveryInvariant == AttSpec => []AttInv
<1>1. AttInit => AttInv
  <2> SUFFICES ASSUME AttInit PROVE AttInv
    OBVIOUS
  <2>1. ASSUME NEW s \in HidSlots PROVE SlotInv(s)
    BY DEF AttInit, SlotInv
  <2> QED
    BY <2>1, AttInitType DEF AttInv
<1>2. AttInv /\ [AttNext]_attvars => AttInv'
  <2> SUFFICES ASSUME AttInv, [AttNext]_attvars PROVE AttInv'
    OBVIOUS
  <2>1. AttTypeOK /\ AttTypeOK'
    BY AttStepType DEF AttInv
  <2>2. ASSUME NEW u \in HidSlots PROVE SlotInv(u)'
    <3>1. SlotInv(u)
      BY DEF AttInv
    <3>2. CASE UNCHANGED attvars
      BY <2>1, <3>1, <3>2, SlotKept DEF attvars
    <3>3. CASE AttNext
      <4>1. PICK s \in HidSlots :
              \/ \E db \in Databases : HidInit(s, db)
              \/ AttLinkLost(s)
              \/ MtuRsp(s) \/ NameRsp(s) \/ ReadGroupRsp(s) \/ NoMoreServices(s) \/ FindInfoRsp(s) \/ NoMoreAttributes(s)
              \/ ReadMapRsp(s) \/ ReadRefRsp(s) \/ WriteRsp(s) \/ ErrorRsp(s)
        BY <3>3 DEF AttNext
      <4>2. CASE u = s
        BY <2>1, <3>1, <4>1, <4>2, HidInitSlot, LinkLostSlot, EarlySlot, FindInfoSlot, ReadMapSlot,
           ReadRefSlot, WriteSlot, ErrorSlot
      <4>3. CASE u # s
        BY <2>1, <3>1, <4>1, <4>3, OthersKept
      <4> QED
        BY <4>2, <4>3
    <3> QED
      BY <3>2, <3>3
  <2> QED
    BY <2>1, <2>2 DEF AttInv
<1> QED
  BY <1>1, <1>2, PTL DEF AttSpec

(***************************************************************************)
(* A discovery keeps to its own table with up to four reports, however the *)
(* attributes are spread over the answers.                                 *)
(***************************************************************************)
THEOREM TablesStayApart == AttSpec => []TablesApart
<1>1. AttInv => TablesApart
  <2> SUFFICES ASSUME AttInv, NEW s \in HidSlots, astray[s], ~spoiled[s]
               PROVE  gatt[s].reports >= HID_MAX_REPORT
    BY DEF TablesApart
  <2> QED
    BY DEF AttInv, SlotInv
<1> QED
  BY <1>1, DiscoveryInvariant, PTL

(***************************************************************************)
(* When the start-up of a controller begins, exactly the CCCs of those of  *)
(* its input reports were written to that the parser kept.                 *)
(***************************************************************************)
THEOREM InputsSubscribed == AttSpec => []AllSubscribed
<1>1. AttInv => AllSubscribed
  <2> SUFFICES ASSUME AttInv, NEW s \in HidSlots, ready[s], ~spoiled[s], ~astray[s]
               PROVE  subscribed[s] = {CccOf(n) : n \in {m \in Required(gatt[s]) : m <= HID_MAX_REPORT}}
    BY DEF AllSubscribed
  <2>1. AttTypeOK /\ SlotInv(s)
    BY DEF AttInv
  <2>2. gatt[s] # NO_DEVICE
    BY <2>1 DEF SlotInv
  <2>3. gatt[s].reports \in 0 .. 6 /\ Stage(gatt[s], ask[s], att_hid[s], subscribed[s], ready[s])
    BY <2>1, <2>2, InStage
  <2>4. gatt[s].reports < HID_MAX_REPORT /\ SubscribedBelow(subscribed[s], gatt[s], HID_MAX_REPORT)
    BY <2>3 DEF Stage
  <2>5. {m \in Required(gatt[s]) : m <= HID_MAX_REPORT} = {m \in Required(gatt[s]) : m < HID_MAX_REPORT}
    BY <2>3, <2>4 DEF Required, Inputs, HID_MAX_REPORT
  <2> QED
    BY <2>4, <2>5 DEF SubscribedBelow
<1> QED
  BY <1>1, DiscoveryInvariant, PTL

=============================================================================
