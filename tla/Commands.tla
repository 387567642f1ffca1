------------------------------ MODULE Commands ------------------------------
(***************************************************************************)
(* The commands of a profile (arveil-app/src/lib.rs: ClientCommand,        *)
(* run_command, the methods of Application; arveil-flutter/src/api/        *)
(* profile.rs: the methods of Profile).  A command is run in one of four   *)
(* ways, and the way decides what its answer carries:                      *)
(*   plain       no change scope; an error carries no partial result       *)
(*   operation   the changes it recorded are its answer                    *)
(*   onboarding  a value and the changes it recorded                       *)
(*   valued      changes are recorded and told to watchers, but a success  *)
(*               answers with the value alone                              *)
(* Arguments are left out: what a command does to its own component is in  *)
(* the module of that component.                                           *)
(***************************************************************************)
\* Two tables as one.
f ++ g == [c \in DOMAIN f \cup DOMAIN g |-> IF c \in DOMAIN f THEN f[c] ELSE g[c]]

Plain(output)   == [run |-> "plain", output |-> output]
Operation       == [run |-> "operation", output |-> "Operation"]
Valued(output)  == [run |-> "valued", output |-> output]
Onboarding(value) == [run |-> "onboarding", output |-> value]

(* run_command, family by family. *)

AttachmentCommands ==
    [QueueAttachment |-> Plain("AttachmentQueued"), ResumeAttachment |-> Operation,
     CancelAttachment |-> Operation, ExportAttachment |-> Plain("AttachmentBytes"),
     Invitations |-> Valued("Invitations")]

ContactCommands ==
    [QueryDevices |-> Plain("Devices"), QueryContacts |-> Plain("Contacts"),
     SaveContact |-> Plain("Contact"), RenameContact |-> Plain("Contact"),
     VerifyContact |-> Plain("Contact"), CreateContactConversation |-> Operation]

CardCommands ==
    [OfferCard |-> Plain("CardOffer"), CloseCard |-> Operation,
     QuerySharedCards |-> Plain("SharedCards"), SetCardName |-> Operation,
     QueryCardName |-> Plain("CardName"), PreviewCard |-> Plain("CardPreview"),
     StartFromCard |-> Operation, AnswerRequest |-> Operation]

RouteCommands ==
    [QueryOwnRoute |-> Plain("OwnRoute"), PreviewRoutes |-> Plain("RoutePreviews"),
     CreateRouteConversation |-> Operation, QueueMessage |-> Operation]

UpkeepCommands ==
    [QueryKeyPackageSupply |-> Plain("KeyPackageSupply"),
     CheckKeyPackages |-> Valued("KeyPackageSupply"),
     ReplenishKeyPackages |-> Valued("KeyPackageSupply"),
     SetNotificationHint |-> Operation, RegisterWatchKey |-> Valued("Watch"),
     ClearWatchKey |-> Operation, QueryWatchCredentials |-> Plain("Watch")]

KeptCommands ==
    [ExportArchive |-> Plain("Archive"), ImportArchive |-> Plain("ArchiveReceipt"),
     QueryArchivePage |-> Plain("ArchivePage"), ExportArchiveFile |-> Plain("AttachmentBytes"),
     ExportKit |-> Plain("Kit"), ConfirmKitSaved |-> Plain("KitSaved"),
     RestoreKit |-> Valued("Recovery"), ResumeRecovery |-> Valued("Recovery")]

OnboardingCommands ==
    [CreateIdentity |-> Onboarding("Identity"), Enroll |-> Onboarding("Enrollment"),
     CreateLinkRequest |-> Onboarding("LinkRequest"),
     AuthorizeLink |-> Onboarding("LinkAuthorization"),
     CompleteLink |-> Onboarding("LinkedDevice"), BeginPairing |-> Onboarding("PairingSession"),
     AwaitPairing |-> Onboarding("PairingVerification"),
     ApprovePairing |-> Onboarding("PairingVerification"),
     ConfirmPairing |-> Onboarding("LinkedDevice"),
     CancelPairing |-> Onboarding("PairingCancellation"), OfferLink |-> Onboarding("LinkOffer"),
     AwaitLinkRequest |-> Onboarding("LinkAsked"), AnswerLink |-> Onboarding("LinkAnswered"),
     JoinLink |-> Onboarding("Joined"), QueryPendingPairing |-> Plain("PendingPairing")]

ChatCommands ==
    [CreateConversation |-> Operation, AddDevice |-> Operation, RemoveDevice |-> Operation,
     SendMessage |-> Operation, SendFile |-> Operation, Sync |-> Operation,
     RevokeDevice |-> Operation]

LocalQueries ==
    [QueryConversations |-> Plain("Conversations"), QueryOnboarding |-> Plain("OnboardingStatus"),
     QueryPeers |-> Plain("Peers"), QueryHistoryPage |-> Plain("HistoryPage"),
     SearchHistory |-> Plain("HistoryPage"), MarkRead |-> Plain("ReadMarker"),
     QueryArchived |-> Plain("Archived")]

run_command == AttachmentCommands ++ ContactCommands ++ CardCommands ++ RouteCommands
                   ++ UpkeepCommands ++ KeptCommands ++ OnboardingCommands ++ ChatCommands
                   ++ LocalQueries

ClientCommand == DOMAIN run_command

\* Changes are recorded into a scope only run_operation_with_value opens.
Scoped(c) == run_command[c].run # "plain"

\* What a success carries of the changes recorded, and what a failure does.
Keeps(c) == run_command[c].run \in {"operation", "onboarding"}
-----------------------------------------------------------------------------
(* The methods of Application: the output each takes apart, any other being *)
(* unreachable!().                                                          *)

OnboardingMethods ==
    [CreateIdentity |-> "Identity", Enroll |-> "Enrollment", CreateLinkRequest |-> "LinkRequest",
     AuthorizeLink |-> "LinkAuthorization", CompleteLink |-> "LinkedDevice",
     BeginPairing |-> "PairingSession", AwaitPairing |-> "PairingVerification",
     ApprovePairing |-> "PairingVerification", ConfirmPairing |-> "LinkedDevice",
     CancelPairing |-> "PairingCancellation"]

LinkMethods ==
    [OfferLink |-> "LinkOffer", AwaitLinkRequest |-> "LinkAsked", AnswerLink |-> "LinkAnswered",
     JoinLink |-> "Joined", Invitations |-> "Invitations", OfferCard |-> "CardOffer",
     QuerySharedCards |-> "SharedCards", QueryCardName |-> "CardName",
     PreviewCard |-> "CardPreview", QueryPendingPairing |-> "PendingPairing"]

UpkeepMethods ==
    [QueryKeyPackageSupply |-> "KeyPackageSupply", CheckKeyPackages |-> "KeyPackageSupply",
     ReplenishKeyPackages |-> "KeyPackageSupply", RegisterWatchKey |-> "Watch",
     QueryWatchCredentials |-> "Watch", ExportArchive |-> "Archive",
     ImportArchive |-> "ArchiveReceipt", QueryArchivePage |-> "ArchivePage",
     ExportArchiveFile |-> "AttachmentBytes", ExportKit |-> "Kit", ConfirmKitSaved |-> "KitSaved",
     RestoreKit |-> "Recovery", ResumeRecovery |-> "Recovery",
     QueryOnboarding |-> "OnboardingStatus"]

ContactMethods ==
    [QueryDevices |-> "Devices", QueryContacts |-> "Contacts", SaveContact |-> "Contact",
     RenameContact |-> "Contact", VerifyContact |-> "Contact", QueryOwnRoute |-> "OwnRoute",
     PreviewRoutes |-> "RoutePreviews"]

HistoryMethods ==
    [QueueAttachment |-> "AttachmentQueued", ExportAttachment |-> "AttachmentBytes",
     QueryConversations |-> "Conversations", QueryPeers |-> "Peers",
     QueryHistoryPage |-> "HistoryPage", SearchHistory |-> "HistoryPage",
     MarkRead |-> "ReadMarker", QueryArchived |-> "Archived"]

Methods == OnboardingMethods ++ LinkMethods ++ UpkeepMethods ++ ContactMethods ++ HistoryMethods

\* Application::operation serves every other command.
Expected(c) == IF c \in DOMAIN Methods THEN Methods[c] ELSE "Operation"

\* No method of Application reaches its unreachable!().
ASSUME MethodsFit == \A c \in ClientCommand : run_command[c].output = Expected(c)
-----------------------------------------------------------------------------
(* The methods of Profile, which Dart calls. *)

SetupCalls == {"CreateIdentity", "QueryOnboarding", "Enroll", "BeginPairing", "AwaitPairing",
               "ApprovePairing", "OfferLink", "AwaitLinkRequest", "AnswerLink", "JoinLink",
               "ConfirmPairing", "CancelPairing"}
UpkeepCalls == {"QueryKeyPackageSupply", "CheckKeyPackages", "SetNotificationHint",
                "ReplenishKeyPackages", "ExportArchive", "ImportArchive", "QueryArchivePage",
                "ExportArchiveFile", "ExportKit", "ConfirmKitSaved", "RestoreKit",
                "ResumeRecovery"}
InvitationCalls == {"Invitations"}
ContactCalls == {"QueryContacts", "QueryDevices", "RevokeDevice", "SaveContact", "RenameContact",
                 "VerifyContact", "OfferCard", "CloseCard", "QuerySharedCards", "SetCardName",
                 "QueryCardName", "PreviewCard", "StartFromCard", "AnswerRequest"}
ConversationCalls == {"CreateContactConversation", "QueryOwnRoute", "PreviewRoutes",
                      "CreateRouteConversation", "QueueAttachment", "ResumeAttachment",
                      "CancelAttachment", "ExportAttachment", "QueueMessage", "Sync",
                      "RegisterWatchKey", "ClearWatchKey", "QueryWatchCredentials"}
HistoryCalls == {"QueryHistoryPage", "SearchHistory", "MarkRead", "QueryConversations"}

ProfileCalls == SetupCalls \cup UpkeepCalls \cup InvitationCalls \cup ContactCalls
                    \cup ConversationCalls \cup HistoryCalls

\* The calls answered through chat_mutation: a retry would start a second
\* conversation or send a second message.
ChatMutations == {"StartFromCard", "CreateContactConversation", "CreateRouteConversation",
                  "QueueMessage"}

ASSUME CallsExist == ProfileCalls \subseteq ClientCommand /\ ChatMutations \subseteq ProfileCalls
-----------------------------------------------------------------------------
(* Admission and exclusions. *)

Queries == {"QueryConversations", "QueryPeers", "QueryHistoryPage", "SearchHistory",
            "QueryArchived", "QueryArchivePage", "ExportArchiveFile", "QueryOnboarding",
            "QueryOwnRoute", "ExportAttachment", "QueryDevices", "QueryContacts",
            "PreviewRoutes", "QueryKeyPackageSupply", "QueryPendingPairing",
            "QuerySharedCards", "QueryCardName", "PreviewCard"}

AdmissionOf(c) == CASE c = "Sync" -> "sync" [] c \in Queries -> "query" [] OTHER -> "mutation"

\* Mutant: invitations take the enrolment exclusion only.
ExclusionsOne(c) ==
    CASE c \in {"Sync", "RevokeDevice", "CheckKeyPackages", "ReplenishKeyPackages",
                "SetNotificationHint", "RegisterWatchKey", "ClearWatchKey"} -> <<"sync">>
      [] c \in {"Enroll", "RestoreKit", "ResumeRecovery", "Invitations"} -> <<"enrollment">>
      [] OTHER -> <<>>

\* Mutant: a sync takes both of an invitation's exclusions, the other way round.
ExclusionsCrossed(c) ==
    CASE c = "Invitations" -> <<"enrollment", "sync">>
      [] c = "Sync" -> <<"sync", "enrollment">>
      [] OTHER -> <<>>

\* The exclusions a command takes, in the order it takes them.  An invitation
\* action that only reads the profile takes none and is not modelled here.
Exclusions(c) ==
    CASE c = "Invitations" -> <<"enrollment", "sync">>
      [] c \in {"Sync", "RevokeDevice", "CheckKeyPackages", "ReplenishKeyPackages",
                "SetNotificationHint", "RegisterWatchKey", "ClearWatchKey"} -> <<"sync">>
      [] c = "ResumeAttachment" -> <<"attachment">>
      [] c \in {"Enroll", "RestoreKit", "ResumeRecovery"} -> <<"enrollment">>
      [] c \in {"CompleteLink", "ConfirmPairing", "BeginPairing", "JoinLink"} -> <<"link_completion">>
      [] c \in {"AwaitPairing", "ApprovePairing", "AwaitLinkRequest"} -> <<"pairing_wait">>
      [] OTHER -> <<>>
-----------------------------------------------------------------------------
(* The changes a command records, and the ones a watcher is told of.       *)

Told == {"MessageQueued", "MessageReceived", "EnvelopesPublished", "DeliveryChanged",
         "FileAnnounced", "UploadResumed", "FileDownloadResumed", "FileSaved", "SyncCompleted",
         "PairingCompletionChanged", "PairingVerificationReady", "PairingGrantSent",
         "LinkOffered", "LinkRequested", "LinkAnswered", "RelayUnavailable", "IdentityCreated",
         "DevicePrepared", "EnrollmentAccepted", "MailboxCreated", "KeyPackagesPublished",
         "DeviceLinked"}

Untold == {"EnrollmentEndpointListStored", "RouteAvailable", "LinkRequestCreated",
           "DeviceAuthorizationSigned", "ManifestPublished", "CredentialPublished",
           "LinkGrantCreated", "PairingStarted", "PairingCancelled",
           "PairingCancellationRejected", "LinkCompletionChanged", "PairingExpired",
           "HelloReceived", "ContactVerifiedInPerson", "RequestAnswered", "ConversationCreated",
           "ConversationJoined", "RosterUpdated", "DeviceAdded", "DeviceRemoved",
           "CommitApplied", "DuplicateDelivery", "DeliveryDeferred", "EndpointFallback",
           "EndpointFailed", "EndpointListStored", "EndpointListRejected", "ManifestUpdated",
           "ManifestRejected", "DeviceRevoked", "RealmRevocationPublished",
           "ConversationManifestSent", "KeyPackagesReplenished", "ArchivedConversation",
           "ArchivedEvent", "UploadRestarted", "BlobUploaded", "FileUnavailable",
           "MlsMessageProcessed"}

StateChange == Told \cup Untold

\* The changes that say something the person asked for is durable here.
Accepting == {"MessageQueued", "ConversationCreated"}
=============================================================================
