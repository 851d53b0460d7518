------------------------------ MODULE Entities ------------------------------
(***************************************************************************)
(* The two kinds of entity, findings (cards) and requirements, with their  *)
(* status vocabularies: src/src/codebugs/entities.py and types.py.  The    *)
(* status column is shared: claims, milestones and the tracker read it and *)
(* write it, each through its own calls.                                   *)
(***************************************************************************)
CONSTANTS
  Cards,      \* findings
  Reqs        \* requirements

VARIABLE
  status      \* the status column of findings and of requirements

Entities == Cards \cup Reqs

LiveStatus == {"open", "in_progress", "stale"}
FindingTerminal == {"fixed", "not_a_bug", "wont_fix"}
RequirementOpen == {"planned", "partial"}
RequirementTerminal == {"implemented", "verified", "superseded", "obsolete"}

\* EntityRef.of(e).kind: the statuses and the terminal set of e.
Statuses(e) ==
  IF e \in Cards THEN LiveStatus \cup FindingTerminal
                 ELSE RequirementOpen \cup RequirementTerminal
Terminal(e) == IF e \in Cards THEN FindingTerminal ELSE RequirementTerminal

Exists(e) == status[e] # "absent"
=============================================================================
