--------------------------- MODULE MCAgreementJobs ---------------------------
(* Three callers of one link, of whom two may reclaim it from each other, and a *)
(* second link that one of them may ask for as well.                            *)
EXTENDS AgreementJobs

MCRequests ==
    [device : {"auto1", "auto2", "browser"}, link : {"link1"}]
        \cup {[device |-> "auto1", link |-> "link2"]}
MCInternal == {"auto1", "auto2"}

==============================================================================
