---------------------------- MODULE SearchProofs ----------------------------
(***************************************************************************)
(* Proofs about Search, for any sensors and names and any number of        *)
(* searches.  The four invariants are inductive together: the list has     *)
(* no gaps and no repetitions because discovered_device appends, and only  *)
(* what is not there.                                                      *)
(***************************************************************************)
EXTENDS Search, TLAPS

USE SearchAssumption

Inv ==
    /\ TypeOK
    /\ FoundExactly
    /\ ListIsPrefix
    /\ AdaptersAccounted

\* Appending an element: which elements there are, that they are distinct, and
\* what is a prefix.
LEMMA AppendToSet ==
    ASSUME NEW S, NEW s \in Seq(S), NEW e
    PROVE  ToSet(Append(s, e)) = ToSet(s) \cup {e}
  <1>1. ToSet(Append(s, e)) \subseteq ToSet(s) \cup {e}
    BY DEF ToSet
  <1>2. ToSet(s) \subseteq ToSet(Append(s, e))
    BY DEF ToSet
  <1>3. e \in ToSet(Append(s, e))
    <2>1. Len(s) + 1 \in DOMAIN Append(s, e) /\ Append(s, e)[Len(s) + 1] = e
      OBVIOUS
    <2>2. QED
      BY <2>1 DEF ToSet
  <1>4. QED
    BY <1>1, <1>2, <1>3

LEMMA AppendInjective ==
    ASSUME NEW S, NEW s \in Seq(S), NEW e \in S,
           \A i \in DOMAIN s : s[i] # e,
           \A i, j \in DOMAIN s : s[i] = s[j] => i = j
    PROVE  \A i, j \in DOMAIN Append(s, e) :
              Append(s, e)[i] = Append(s, e)[j] => i = j
  <1> SUFFICES ASSUME NEW i \in DOMAIN Append(s, e), NEW j \in DOMAIN Append(s, e),
                      Append(s, e)[i] = Append(s, e)[j]
               PROVE  i = j
    OBVIOUS
  <1>1. DOMAIN s = 1 .. Len(s) /\ Len(s) \in Nat
    OBVIOUS
  <1>2. DOMAIN Append(s, e) = 1 .. Len(s) + 1
    OBVIOUS
  <1>3. \A k \in 1 .. Len(s) : Append(s, e)[k] = s[k]
    OBVIOUS
  <1>4. Append(s, e)[Len(s) + 1] = e
    OBVIOUS
  <1>5. \A k \in DOMAIN Append(s, e) : k \in DOMAIN s \/ k = Len(s) + 1
    BY <1>1, <1>2
  <1>6. QED
    BY <1>1, <1>3, <1>4, <1>5

LEMMA AppendPrefix ==
    ASSUME NEW S, NEW s \in Seq(S), NEW t \in Seq(S), NEW e \in S, IsPrefix(s, t)
    PROVE  IsPrefix(s, Append(t, e))
  <1>1. Len(s) <= Len(t) /\ SubSeq(s, 1, Len(s)) = SubSeq(t, 1, Len(s))
    BY DEF IsPrefix
  <1>2. SubSeq(Append(t, e), 1, Len(s)) = SubSeq(t, 1, Len(s))
    BY <1>1
  <1>3. QED
    BY <1>1, <1>2 DEF IsPrefix

LEMMA InvInit == Init => Inv
  <1> SUFFICES ASSUME Init PROVE Inv
    OBVIOUS
  <1>1. ToSet(foundDevices) = {} /\ DOMAIN foundDevices = {}
    BY DEF Init, ToSet
  <1>2. ListIsPrefix
    BY DEF Init, ListIsPrefix, IsPrefix
  <1>3. TypeOK
    <2>1. 0 \in 0 .. MaxAborted + 1 /\ 0 \in 0 .. MaxSearches
          /\ 0 \in 0 .. MaxAborted
      OBVIOUS
    <2>2. foundDevices \in Seq(Addresses) /\ found_devices_output \in Seq(Addresses)
      BY DEF Init
    <2>3. QED
      BY <2>1, <2>2 DEF Init, TypeOK
  <1>4. QED
    BY <1>1, <1>2, <1>3 DEF Init, Inv, FoundExactly, AdaptersAccounted

\* discovered_device: an advertisement that matches either is in the list or is
\* appended to it.
LEMMA InvDiscovered ==
    ASSUME Inv, NEW addr \in Addresses, NEW name \in Names \cup {Null},
           discovered_device(addr, name)
    PROVE  Inv'
  <1> USE DEF Inv, TypeOK
  <1>1. CASE name = search_name /\ ~present(addr)
    <2>1. foundDevices' = Append(foundDevices, addr)
      BY <1>1 DEF discovered_device, Appended
    <2>2. advertised' = advertised \cup {addr}
      BY <1>1 DEF discovered_device
    <2>3. ToSet(foundDevices') = advertised'
      BY <2>1, <2>2, AppendToSet DEF FoundExactly
    <2>4. \A i, j \in DOMAIN foundDevices' :
             foundDevices'[i] = foundDevices'[j] => i = j
      <3>1. \A i \in DOMAIN foundDevices : foundDevices[i] # addr
        BY <1>1 DEF present, ToSet
      <3>2. \A i, j \in DOMAIN foundDevices :
               foundDevices[i] = foundDevices[j] => i = j
        BY DEF FoundExactly
      <3>3. QED
        BY <2>1, <3>1, <3>2, AppendInjective
    <2>5. IsPrefix(found_devices_output, foundDevices')
      BY <2>1, AppendPrefix DEF ListIsPrefix
    <2>6. TypeOK'
      BY <2>1, <2>2 DEF discovered_device
    <2>7. QED
      BY <2>3, <2>4, <2>5, <2>6
         DEF discovered_device, FoundExactly, ListIsPrefix, AdaptersAccounted
  <1>2. CASE name = search_name /\ present(addr)
    <2>1. foundDevices' = foundDevices /\ advertised' = advertised
      BY <1>2 DEF discovered_device, present, FoundExactly
    <2>2. QED
      BY <2>1 DEF discovered_device, FoundExactly, ListIsPrefix,
                  AdaptersAccounted
  <1>3. CASE name # search_name
    BY <1>3 DEF discovered_device, FoundExactly, ListIsPrefix, AdaptersAccounted
  <1>4. QED
    BY <1>1, <1>2, <1>3

LEMMA InvNext == Inv /\ [Next]_vars => Inv'
  <1> SUFFICES ASSUME Inv, [Next]_vars PROVE Inv'
    OBVIOUS
  <1> USE DEF Inv, TypeOK, FoundExactly, ListIsPrefix, AdaptersAccounted
  <1>1. ASSUME NEW name \in Names, Search(name) PROVE Inv'
    <2>1. /\ adapters' = aborted' + (IF scanning' THEN 1 ELSE 0)
          /\ adapters' \in 0 .. MaxAborted + 1
          /\ searches' \in 0 .. MaxSearches
      BY <1>1 DEF Search
    <2>2. TypeOK'
      BY <1>1, <2>1 DEF Search
    <2>3. UNCHANGED <<foundDevices, found_devices_output, advertised>>
      BY <1>1 DEF Search
    <2>4. QED
      BY <2>1, <2>2, <2>3
  <1>2. ASSUME NEW addr \in Addresses, NEW name \in Names \cup {Null},
               discovered_device(addr, name)
        PROVE  Inv'
    BY <1>2, InvDiscovered
  <1>3. ASSUME ScanComplete PROVE Inv'
    <2>1. /\ adapters' = aborted' + (IF scanning' THEN 1 ELSE 0)
          /\ adapters' \in 0 .. MaxAborted + 1
      BY <1>3 DEF ScanComplete, Closed
    <2>2. TypeOK'
      BY <1>3, <2>1 DEF ScanComplete
    <2>3. QED
      BY <1>3, <2>1, <2>2 DEF ScanComplete
  <1>4. ASSUME ScanFails PROVE Inv'
    <2>1. /\ adapters' = aborted' + (IF scanning' THEN 1 ELSE 0)
          /\ adapters' \in 0 .. MaxAborted + 1
          /\ aborted' \in 0 .. MaxAborted
      BY <1>4 DEF ScanFails
    <2>2. TypeOK'
      BY <1>4, <2>1 DEF ScanFails
    <2>3. QED
      BY <1>4, <2>1, <2>2 DEF ScanFails
  <1>5. ASSUME atmotube_get_found_devices PROVE Inv'
    BY <1>5 DEF atmotube_get_found_devices, IsPrefix
  <1>6. ASSUME freeFoundDevices PROVE Inv'
    <2>1. ToSet(foundDevices') = {} /\ DOMAIN foundDevices' = {}
      BY <1>6 DEF freeFoundDevices, ToSet
    <2>2. IsPrefix(found_devices_output', foundDevices')
      BY <1>6 DEF freeFoundDevices, FreedList, IsPrefix
    <2>3. TypeOK'
      BY <1>6 DEF freeFoundDevices, FreedList
    <2>4. QED
      BY <1>6, <2>1, <2>2, <2>3 DEF freeFoundDevices
  <1>7. CASE UNCHANGED vars
    BY <1>7 DEF vars
  <1>8. QED
    BY <1>1, <1>2, <1>3, <1>4, <1>5, <1>6, <1>7 DEF Next

LEMMA Invariance == Spec => []Inv
  BY InvInit, InvNext, PTL DEF Spec

-----------------------------------------------------------------------------

\* The variables keep their types: a scan runs only under a name that was set,
\* and no more adapters are open than scans failed, and one.
THEOREM Typing == Spec => []TypeOK
  BY Invariance, PTL DEF Inv

\* The list is exactly the set of sensors that matched, each once.
THEOREM Exact == Spec => []FoundExactly
  BY Invariance, PTL DEF Inv

\* What was given to the client stays a prefix of the list.
THEOREM Prefix == Spec => []ListIsPrefix
  BY Invariance, PTL DEF Inv

\* Every open adapter belongs to the running scan or to one that failed.
THEOREM Adapters == Spec => []AdaptersAccounted
  BY Invariance, PTL DEF Inv

=============================================================================
