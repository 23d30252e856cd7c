------------------------------ MODULE SetupPages ------------------------------
(***************************************************************************)
(* What the setup wizard of an on-prem box promises about its pages        *)
(* (wizard_steps.py): a page is done for good, and it is done only because *)
(* a request proved everything the page shows, or because the customer     *)
(* skipped a page that may be skipped.  SetupWizard implements this.       *)
(***************************************************************************)

CONSTANTS
  Page,             \* the wizard's pages
  Optional          \* the pages the customer may skip

VARIABLES
  marked,           \* the pages with a done marker
  proved,           \* the pages a running request has just proved
  good              \* the pages all of whose rows are good right now, for
                    \* the form that was sent

pagesVars == <<marked, proved, good>>

PagesInit ==
  /\ marked = {}
  /\ proved = {}
  /\ good = {}

\* Every row of the page was good.
Prove(p) ==
  /\ p \in good \ proved
  /\ proved' = proved \cup {p}
  /\ UNCHANGED marked

\* The request that proved the page writes its marker and answers; another
\* one may have proved it too.
MarkProved(p) ==
  /\ p \in proved
  /\ marked' = marked \cup {p}
  /\ proved' \in {proved, proved \ {p}}

SkipPage(p) ==
  /\ p \in Optional
  /\ marked' = marked \cup {p}
  /\ UNCHANGED proved

\* The process dies with its requests; the markers are files.
Forget ==
  /\ proved' = {}
  /\ UNCHANGED marked

\* The box changes under the wizard, and because of it.
PagesNext ==
  /\ good' \in SUBSET Page
  /\ \/ \E p \in Page : Prove(p) \/ MarkProved(p) \/ SkipPage(p)
     \/ Forget
     \/ UNCHANGED <<marked, proved>>

PagesSpec == PagesInit /\ [][PagesNext]_pagesVars

=============================================================================
