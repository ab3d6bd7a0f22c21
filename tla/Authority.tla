------------------------------ MODULE Authority ------------------------------
(***************************************************************************)
(* What the publication kernel promises the drivers of a site: who may     *)
(* publish.  A key <<source, epoch, generation>> becomes live with its     *)
(* first publication and is closed, once and for all, by a generation      *)
(* fence or by the end of its epoch.  Publication implements this          *)
(* specification (publication.go, Apply and applyTo).                      *)
(***************************************************************************)
EXTENDS Integers

CONSTANTS Source, Epoch, Generation

VARIABLES live,     \* keys that may publish
          closed,   \* keys that may never publish again
          ended     \* <<source, epoch>> pairs that are over

authority == <<live, closed, ended>>

AuthorityKey == Source \X Epoch \X Generation
EpochOf(k) == <<k[1], k[2]>>

Known == live \cup closed
EpochsOf(source) == {EpochOf(j) : j \in {i \in Known : i[1] = source}}

\* One publication under k: it ends every other epoch of its source, closes
\* every other live key of its source, and may close its own key or end its
\* own epoch.  Keys and epochs of other sources stay as they are.
Publish(k, closing, ending) ==
    /\ k \notin closed
    /\ EpochOf(k) \notin ended
    /\ \A j \in Known : EpochOf(j) = EpochOf(k) => j[3] <= k[3]
    /\ EpochsOf(k[1]) \ (ended \cup {EpochOf(k)}) \subseteq ending
    /\ \A j \in live \cup {k} :
          j[1] = k[1] /\ (j # k \/ EpochOf(j) \in ending) => j \in closing
    /\ live' = (live \cup {k}) \ closing
    /\ closed' = closed \cup closing
    /\ ended' = ended \cup ending

AuthorityInit == live = {} /\ closed = {} /\ ended = {}

AuthorityNext ==
    \E k \in AuthorityKey :
        \E closing \in SUBSET {j \in live \cup {k} : j[1] = k[1]},
           ending \in SUBSET (EpochsOf(k[1]) \cup {EpochOf(k)}) :
               Publish(k, closing, ending)

AuthoritySpec == AuthorityInit /\ [][AuthorityNext]_authority

-----------------------------------------------------------------------------
\* At any time a source has at most one writer; it was never closed and its
\* epoch is not over.
OneWriter ==
    /\ live \cap closed = {}
    /\ \A j, k \in live : j[1] = k[1] => j = k
    /\ \A k \in live : EpochOf(k) \notin ended
=============================================================================
