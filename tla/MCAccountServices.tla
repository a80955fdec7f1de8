------------------------- MODULE MCAccountServices --------------------------
(***************************************************************************)
(* Model-checking instance of the services whose cases take three          *)
(* requests: the start, accounts and what is around them, patches,         *)
(* documents, the community, the Git mirrors, the sponsors' page and       *)
(* uploaded images.                                                        *)
(***************************************************************************)
EXTENDS Accounts, Administration, Mailboxes, Votes, Patches, Documents, Community, Mirrors, Sponsors,
        Images, Startup, TLC

CONSTANTS r1, r2, g1, g2, g3

PlatformAddresses == <<"contact", "support">>
PagesOf     == r1 :> {g1, g2} @@ r2 :> {g1, g3}
RedirectsOf == r1 :> {g3} @@ r2 :> {g2}

Symmetry == Permutations(Requests) \cup Permutations(Residents) \cup Permutations(Names)

vars ==
  <<handlers, accountVars, adminVars, mailboxVars, voteVars, patchVars, documentVars, communityVars, mirrorVars,
    sponsorVars, imageVars, startVars>>

Init ==
  /\ HandlersInit
  /\ AccountsInit /\ AdministrationInit /\ MailboxesInit /\ VotesInit
  /\ PatchesInit /\ DocumentsInit /\ CommunityInit /\ MirrorsInit
  /\ SponsorsInit /\ ImagesInit /\ StartupInit
  /\ service # "startup" => name = "admin" /\ founder = None /\ list = {}  \* it does not matter then

Next ==
  \/ /\ service = "accounts" /\ AccountsNext
     /\ UNCHANGED <<adminVars, mailboxVars, voteVars, patchVars, documentVars, communityVars,
                    mirrorVars, sponsorVars, imageVars, startVars>>
  \/ /\ service = "administration" /\ AdministrationNext
     /\ UNCHANGED <<accountVars, mailboxVars, voteVars, patchVars, documentVars, communityVars,
                    mirrorVars, sponsorVars, imageVars, startVars>>
  \/ /\ service = "mailboxes" /\ MailboxesNext
     /\ UNCHANGED <<accountVars, adminVars, voteVars, patchVars, documentVars, communityVars,
                    mirrorVars, sponsorVars, imageVars, startVars>>
  \/ /\ service = "votes" /\ VotesNext
     /\ UNCHANGED <<accountVars, adminVars, mailboxVars, patchVars, documentVars, communityVars,
                    mirrorVars, sponsorVars, imageVars, startVars>>
  \/ /\ service = "patches" /\ PatchesNext
     /\ UNCHANGED <<accountVars, adminVars, mailboxVars, voteVars, documentVars, communityVars,
                    mirrorVars, sponsorVars, imageVars, startVars>>
  \/ /\ service = "documents" /\ DocumentsNext
     /\ UNCHANGED <<accountVars, adminVars, mailboxVars, voteVars, patchVars, communityVars,
                    mirrorVars, sponsorVars, imageVars, startVars>>
  \/ /\ service = "community" /\ CommunityNext
     /\ UNCHANGED <<accountVars, adminVars, mailboxVars, voteVars, patchVars, documentVars,
                    mirrorVars, sponsorVars, imageVars, startVars>>
  \/ /\ service = "mirrors" /\ MirrorsNext
     /\ UNCHANGED <<accountVars, adminVars, mailboxVars, voteVars, patchVars, documentVars,
                    communityVars, sponsorVars, imageVars, startVars>>
  \/ /\ service = "sponsors" /\ SponsorsNext
     /\ UNCHANGED <<accountVars, adminVars, mailboxVars, voteVars, patchVars, documentVars,
                    communityVars, mirrorVars, imageVars, startVars>>
  \/ /\ service = "images" /\ ImagesNext
     /\ UNCHANGED <<accountVars, adminVars, mailboxVars, voteVars, patchVars, documentVars,
                    communityVars, mirrorVars, sponsorVars, startVars>>
  \/ /\ service = "startup" /\ StartupNext
     /\ UNCHANGED <<accountVars, adminVars, mailboxVars, voteVars, patchVars, documentVars,
                    communityVars, mirrorVars, sponsorVars, imageVars>>

Done == AllAnswered /\ UNCHANGED vars

Spec == Init /\ [][Next \/ Done]_vars

\* Every variable of every service has its type.
TypeOK ==
  /\ AccountsTypeOK /\ AdministrationTypeOK /\ MailboxesTypeOK /\ VotesTypeOK
  /\ PatchesTypeOK /\ DocumentsTypeOK /\ CommunityTypeOK /\ MirrorsTypeOK
  /\ SponsorsTypeOK /\ ImagesTypeOK /\ StartupTypeOK

\* The platform gets the owner it is configured with (Startup), and keeps an active one
\* whatever administrators decide about each other (Administration).
OwnersPromise == []AdministrationPromise /\ StartupPromise
=============================================================================
