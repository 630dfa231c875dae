------------------------------- MODULE Search -------------------------------
(***************************************************************************)
(* Searching for sensors: atmotube-search.c and what atmotube_end frees of *)
(* it.  The client may search more than once and ask for the list at any   *)
(* time between; main of app/atmotube-find.c searches once and lists.      *)
(*                                                                         *)
(* gattlib_adapter_scan_enable blocks until the timeout and calls          *)
(* discovered_device for every advertisement meanwhile, as often as the    *)
(* sensor sends it, with a null name for a sensor that has none.           *)
(***************************************************************************)
EXTENDS Naturals, SequencesExt

CONSTANTS
    Addresses,    \* the sensors in reach
    Names,        \* the names they may advertise
    Null,         \* no name
    MaxSearches,  \* bound: calls of atmotube_search before atmotube_end
    MaxAborted    \* bound: scans that fail

ASSUME SearchAssumption ==
    /\ MaxSearches \in Nat /\ MaxAborted \in Nat
    /\ Null \notin Names

VARIABLES
    search_name,
    foundDevices,          \* the addresses found, in order
    found_devices_output,  \* the list given to the client, <<>> for NULL
    scanning,              \* gattlib_adapter_scan_enable is running
    adapters,              \* adapters opened and not closed
    searches,              \* history: searches since atmotube_end
    aborted,               \* history: searches whose scan failed, ever
    advertised             \* history: what matched since atmotube_end

vars == <<search_name, foundDevices, found_devices_output, scanning, adapters,
          searches, aborted, advertised>>

Init ==
    /\ search_name = Null
    /\ foundDevices = <<>>
    /\ found_devices_output = <<>>
    /\ scanning = FALSE
    /\ adapters = 0
    /\ searches = 0
    /\ aborted = 0
    /\ advertised = {}

\* The adapter opens or not; an earlier search_name is forgotten.
Search(name) ==
    /\ ~scanning
    /\ searches < MaxSearches
    /\ searches' = searches + 1
    /\ search_name' = name
    /\ \/ adapters' = adapters + 1 /\ scanning' = TRUE
       \/ UNCHANGED <<adapters, scanning>>
    /\ UNCHANGED <<foundDevices, found_devices_output, aborted, advertised>>

\* Bug: the address just added is the only one looked at.
PresentLast(addr) == foundDevices # <<>> /\ Last(foundDevices) = addr

present(addr) == addr \in ToSet(foundDevices)

\* Bug: g_slist_prepend, which does not walk the list.
Prepended(addr) == <<addr>> \o foundDevices

Appended(addr) == Append(foundDevices, addr)

discovered_device(addr, name) ==
    /\ scanning
    /\ advertised' = IF name = search_name THEN advertised \cup {addr}
                                           ELSE advertised
    /\ foundDevices' = IF name = search_name /\ ~present(addr)
                       THEN Appended(addr) ELSE foundDevices
    /\ UNCHANGED <<search_name, found_devices_output, scanning, adapters,
                   searches, aborted>>

\* Bug: the adapter is closed only when the search found something.
ClosedIfFound == IF foundDevices # <<>> THEN adapters - 1 ELSE adapters

Closed == adapters - 1

ScanComplete ==
    /\ scanning
    /\ scanning' = FALSE
    /\ adapters' = Closed
    /\ UNCHANGED <<search_name, foundDevices, found_devices_output, searches,
                   aborted, advertised>>

\* The scan cannot be enabled or breaks off: the adapter is not closed.
ScanFails ==
    /\ scanning
    /\ aborted < MaxAborted
    /\ scanning' = FALSE
    /\ aborted' = aborted + 1
    /\ UNCHANGED <<search_name, foundDevices, found_devices_output, adapters,
                   searches, advertised>>

\* A list given before is forgotten, or kept when there is nothing to give.
atmotube_get_found_devices ==
    /\ ~scanning
    /\ foundDevices # <<>>
    /\ found_devices_output' = foundDevices
    /\ UNCHANGED <<search_name, foundDevices, scanning, adapters, searches,
                   aborted, advertised>>

\* Bug: the pointer to the list is not cleared when the list is freed.
FreedListKept == UNCHANGED found_devices_output

FreedList == found_devices_output' = <<>>

\* atmotube_end calls freeFoundDevices; the adapter is not looked at.
freeFoundDevices ==
    /\ ~scanning
    /\ foundDevices' = <<>>
    /\ FreedList
    /\ search_name' = Null
    /\ searches' = 0
    /\ advertised' = {}
    /\ UNCHANGED <<scanning, adapters, aborted>>

Next ==
    \/ \E name \in Names : Search(name)
    \/ \E addr \in Addresses, name \in Names \cup {Null} :
          discovered_device(addr, name)
    \/ ScanComplete
    \/ ScanFails
    \/ atmotube_get_found_devices
    \/ freeFoundDevices

Spec == Init /\ [][Next]_vars

-----------------------------------------------------------------------------
(* Properties.                                                             *)

TypeOK ==
    /\ search_name \in Names \cup {Null}
    /\ foundDevices \in Seq(Addresses)
    /\ found_devices_output \in Seq(Addresses)
    /\ scanning \in BOOLEAN
    /\ adapters \in 0 .. MaxAborted + 1
    /\ searches \in 0 .. MaxSearches
    /\ aborted \in 0 .. MaxAborted
    /\ advertised \subseteq Addresses
    /\ scanning => search_name # Null

\* However often and in whatever order sensors advertise, and over several
\* searches with different names, the list has each sensor that advertised the
\* name then searched for exactly once, and no other.
FoundExactly ==
    /\ ToSet(foundDevices) = advertised
    /\ \A i, j \in DOMAIN foundDevices :
          foundDevices[i] = foundDevices[j] => i = j

\* A list the client holds stays the beginning of what is found, so that an
\* index into it means the same device until atmotube_end.
ListIsPrefix == IsPrefix(found_devices_output, foundDevices)

\* The adapter is open while a scan runs, and once more for each scan that
\* failed: nothing closes those.
AdaptersAccounted == adapters = aborted + (IF scanning THEN 1 ELSE 0)

=============================================================================
