----------------------------- MODULE MozillaVPN -----------------------------
(***************************************************************************)
(* The application object of a desktop client: the states of               *)
(* src/src/mozillavpn.cpp with the tasks it schedules, the models it fills *)
(* from the replies (src/src/models), and the settings that survive a      *)
(* restart.                                                                *)
(*                                                                         *)
(* `vpn' holds the members of the object and of the models it owns, its    *)
(* TaskScheduler, and the settings in vpn.saved.  A method is an operator  *)
(* from such a record to the record it leaves behind; an action is a whole *)
(* handler of the event loop.  The Controller is the five states the rest  *)
(* of the application tells apart; `waiting' is the account request of an  *)
(* activation.  `guardian' is the account on the server.                   *)
(***************************************************************************)
EXTENDS Integers, Sequences, FiniteSets, Functions

CONSTANTS
    Keys,          \* public keys this device may register
    NoKey,         \* an empty public key
    Others,        \* the other devices of the account, by public key
    MaxDevices,    \* User::maxDevices
    StartAtBoot,   \* SettingsHolder::startAtBoot
    CustomDns,     \* SettingsHolder::dnsProviderFlags is not Gateway
    MaxCommands,   \* bound on what users, timers, crashes and other devices do
    MaxFailures    \* bound on failed or lost requests

ASSUME AppAssumption ==
    /\ Cardinality(Keys) > 3 /\ NoKey \notin Keys /\ Keys \cap Others = {} /\ NoKey \notin Others
    /\ MaxDevices \in Nat \ {0} /\ Others # {}
    /\ StartAtBoot \in BOOLEAN /\ CustomDns \in BOOLEAN
    /\ MaxCommands \in Nat /\ MaxFailures \in Nat

VARIABLES vpn, guardian, commands, failures, restarts

vars == <<vpn, guardian, commands, failures, restarts>>

-----------------------------------------------------------------------------
AppStates == {"Initialize", "Authenticating", "HeartbeatFailure", "Main",
              "Onboarding", "DeviceLimit", "SubscriptionNeeded",
              "SubscriptionInProgress", "UpdateRequired"}

\* "Idle" is a StateConnecting whose activation found no current device: no
\* attempt is under way.
ControllerStates == {"Initializing", "Off", "Connecting", "Idle", "On", "Disconnecting"}

\* The account as the server describes it, or no description at all.
Accounts == [known : BOOLEAN, active : BOOLEAN, own : Keys \cup {NoKey},
             others : SUBSET Others]
NoAccount == [known |-> FALSE, active |-> FALSE, own |-> NoKey, others |-> {}]

\* QNetworkReply errors, by what ErrorHandler::toErrorType makes of them.
Errors == {"Ignored", "Connection", "Authentication"}

-----------------------------------------------------------------------------
\* The tasks and their deletion policies.

ControllerActions == {"Activate", "Deactivate", "SilentSwitch"}
Functions == {"MaybeStateMain", "RecoverFromLimit", "RetrySubscription", "CheckKey",
              "LoadCompleted"}
Subtasks == {"Account", "Servers", "Details", "Heartbeat", "AddonIndex"}
TaskNames == ControllerActions \cup Functions \cup Subtasks \cup
             {"None", "Group", "Authenticate", "AddDevice", "RemoveDevice", "Addon"}

\* `quiet' (sub)tasks do not propagate their errors; `token' says whether the
\* requests carry one; `last' and `posted' are what a TaskControllerAction
\* remembers: the state it saw and a queued stateChanged.
Task(name) == [name |-> name, key |-> NoKey, subtasks |-> {}, quiet |-> {},
               token |-> FALSE, last |-> "Off", posted |-> FALSE]
NoTask == Task("None")
QuietTask(name) == [Task(name) EXCEPT !.quiet = {name}]
RemoveDeviceTask(key) == [Task("RemoveDevice") EXCEPT !.key = key, !.token = TRUE]
GroupTask(subtasks, quiet) ==
    [Task("Group") EXCEPT !.subtasks = subtasks, !.quiet = quiet]

PolicyOf(name) ==
    IF name \in {"AddonIndex", "Addon", "LoadCompleted"} THEN "Reschedulable"
    ELSE IF name \in ControllerActions \cup {"AddDevice", "RemoveDevice"}
    THEN "NonDeletable" ELSE "Deletable"

Deactivatable == {"Connecting", "Idle", "On"}

\* run() of a TaskControllerAction, with activate(), deactivate() and
\* silentSwitchServers() as far as they change the state at once.  The account
\* request of an activation is refused without a token.
RunControllerAction(s) ==
    LET ran == [s EXCEPT !.running.last = s.controller]
    IN  CASE s.running.name = "Activate" /\ s.controller = "Off" ->
                 [ran EXCEPT !.waiting = IF s.saved.token THEN "granted" ELSE "refused"]
          [] s.running.name = "Deactivate" /\ s.controller \in Deactivatable ->
                 [ran EXCEPT !.controller = "Disconnecting", !.running.posted = TRUE]
          [] s.running.name = "SilentSwitch" /\ s.controller = "On" ->
                 [ran EXCEPT !.controller = "Connecting", !.running.posted = TRUE]
          [] OTHER -> ran

\* Every other task sends its requests and returns; a TaskFunction is run by the
\* next step.
RunTask(s) ==
    IF s.running.name \in ControllerActions THEN RunControllerAction(s)
    ELSE [s EXCEPT !.running.token = @ \/ s.saved.token]

INSTANCE TaskScheduler WITH Run <- RunTask

-----------------------------------------------------------------------------
\* The models.

\* DeviceModel::fromJson(): devices being removed stay out of the list; a
\* description that did not change changes nothing.
DevicesFromJson(devices, json) ==
    IF devices.json = json THEN devices
    ELSE [json    |-> json,
          own     |-> json.own,
          others  |-> json.others \ devices.removed,
          removed |-> json.others \cap devices.removed]

\* ... and of a list that breaks off: the model has been emptied, and keeps the
\* entries it has `read'.
BrokenDevices(devices, json, read) ==
    [json    |-> NoAccount,
     own     |-> IF json.own \in read THEN json.own ELSE NoKey,
     others  |-> (json.others \cap read) \ devices.removed,
     removed |-> json.others \cap read \cap devices.removed]

NoDevices == [json |-> NoAccount, own |-> NoKey, others |-> {}, removed |-> {}]

ActiveDevices(a) == Cardinality(a.devices.others) + (IF a.devices.own = NoKey THEN 0 ELSE 1)

HasCurrentDevice(a) == a.keys # NoKey /\ a.devices.own = a.keys

\* Mutant: a state the rest of the client does not know.
UserFromJsonRaw(json) == IF json.active THEN "active" ELSE "expired"

UserFromJson(json) == IF json.active THEN "active" ELSE "needed"

\* User::fromJson() of what makes no sense: the user is not initialized any more, but
\* m_subscriptionNeeded stays.
UserForgotten(user) == IF user \in {"needed", "forgotten"} THEN "forgotten" ELSE "none"

\* What is left by a description that does not parse: of the user, or of the devices
\* after the user.
Malformed(a, json) ==
    {[a EXCEPT !.user = UserForgotten(@)]} \cup
    {[a EXCEPT !.user = UserFromJson(json), !.devices = BrokenDevices(@, json, read)] :
        read \in SUBSET (json.others \cup {json.own})}

ModelsInitialized(a) ==
    /\ a.user \in {"active", "needed"}
    /\ a.servers
    /\ a.devices.json.known
    /\ HasCurrentDevice(a)

\* What SettingsManager::reset() removes.
NoSettings == [token |-> FALSE, user |-> "none", keys |-> NoKey, keyVersion |-> FALSE,
               devices |-> NoAccount, servers |-> FALSE, serverData |-> FALSE]

\* UserAuthenticated(): App::userAuthenticated
UserAuthenticated(a) ==
    a.state \notin {"Initialize", "Authenticating"} /\ a.saved.token

-----------------------------------------------------------------------------
\* The methods of MozillaVPN.

\* App::setState() with the slot of stateChanged: entering the main view or the
\* onboarding initializes the Controller, every other state schedules a
\* deactivation.
SetState(a, state) ==
    LET entered == [a EXCEPT !.state = state]
    IN  IF state \in {"Main", "Onboarding"} THEN [entered EXCEPT !.initialize = TRUE]
        ELSE ScheduleTask(entered, Task("Deactivate"))

\* deactivate()
DeactivateVpn(a) == ScheduleTask(DeleteTasks(a), Task("Deactivate"))

\* Mutant: a reset keeps the tasks.
ResetKeepsTasks(a, forceInitialState) ==
    LET forgotten == [a EXCEPT !.saved = NoSettings, !.keys = NoKey,
                               !.serverData = FALSE, !.purchase = FALSE]
    IN  IF forceInitialState THEN SetState(forgotten, "Initialize") ELSE forgotten

\* reset(): the models of the user, the devices and the servers stay in memory.
Reset(a, forceInitialState) ==
    LET forgotten == [DeactivateVpn(a) EXCEPT !.saved = NoSettings, !.keys = NoKey,
                                              !.serverData = FALSE, !.purchase = FALSE]
    IN  IF forceInitialState THEN SetState(forgotten, "Initialize") ELSE forgotten

\* errorHandled(): any alert ends an authentication.
ErrorHandled(a, alert) ==
    IF a.state = "Authenticating" \/ alert = "Authentication" THEN Reset(a, TRUE) ELSE a

\* REPORTNETWORKERROR: authentication errors are always propagated, ignored
\* errors show no alert.
ReportNetworkError(a, error, propagate) ==
    IF error = "Ignored" \/ (error = "Connection" /\ ~propagate) THEN a
    ELSE ErrorHandled(a, error)

\* REPORTERROR(RemoteServiceError)
ReportError(a) == ErrorHandled(a, "RemoteService")

RefreshTasks == {"Account", "Servers", "Details"}
PeriodicTasks == RefreshTasks \cup {"Heartbeat", "AddonIndex"}

ScheduleRefreshDataTasks(a) == ScheduleTask(a, GroupTask(RefreshTasks, {}))

AddCurrentDeviceAndRefreshData(a) ==
    ScheduleRefreshDataTasks(ScheduleTask(a, Task("AddDevice")))

\* maybeRegenerateDeviceKey(): keys from before 2.5 do not work with custom DNS.
MaybeRegenerateDeviceKey(a) ==
    IF a.saved.keyVersion \/ ~CustomDns THEN a
    ELSE ScheduleTask(AddCurrentDeviceAndRefreshData(a), Task("CheckKey"))

\* Mutant: the models are not looked at.
MaybeStateMainTrusting(a) ==
    IF a.user = "needed" THEN SetState(a, "SubscriptionNeeded")
    ELSE IF a.devices.own = NoKey THEN SetState(a, "DeviceLimit")
    ELSE IF a.state = "UpdateRequired" THEN a
    ELSE SetState([a EXCEPT !.onboarded = TRUE], "Main")

MaybeStateMain(a) ==
    LET ready == MaybeRegenerateDeviceKey(a)
    IN  IF a.user = "needed" THEN SetState(a, "SubscriptionNeeded")
        ELSE IF ~HasCurrentDevice(a) THEN SetState(a, "DeviceLimit")
        ELSE IF ~a.onboarded THEN SetState(a, "Onboarding")
        ELSE IF ~ModelsInitialized(a)
        THEN SetState(ReportError([a EXCEPT !.saved = NoSettings]), "Initialize")
        ELSE IF a.state = "UpdateRequired" THEN ready
        ELSE SetState([ready EXCEPT !.onboarded = TRUE], "Main")

\* completeActivation() with maybeRemoveCurrentDevice(): a device of this computer
\* with another key is replaced.
CompleteActivation(a) ==
    LET own      == a.devices.own
        removed  == own # NoKey /\ own # a.keys
        removing == IF removed THEN ScheduleTask(a, RemoveDeviceTask(own)) ELSE a
        fetching == IF own # NoKey /\ ~removed THEN ScheduleRefreshDataTasks(a)
                    ELSE AddCurrentDeviceAndRefreshData(removing)
    IN  IF own = NoKey /\ ActiveDevices(a) >= MaxDevices THEN MaybeStateMain(a)
        ELSE ScheduleTask(fetching, Task("MaybeStateMain"))

\* completeAuthentication() with a description that parses; AuthenticationFails has
\* the others.
CompleteAuthentication(a, json) ==
    LET known == [a EXCEPT !.user = UserFromJson(json),
                           !.devices = DevicesFromJson(@, json)]
        saved == [known EXCEPT !.saved.user = known.user,
                               !.saved.devices = known.devices.json,
                               !.saved.token = TRUE]
    IN  IF saved.user = "needed" THEN MaybeStateMain(saved)
        ELSE CompleteActivation([saved EXCEPT !.purchase = FALSE])

\* accountChecked() with a description that parses; any other leaves what Malformed
\* says.  checkCurrentDevice() returns early in StateDeviceLimit, where the rest does
\* nothing, and otherwise writes back the keys it has read.
AccountChecked(a, json) ==
    LET known == [a EXCEPT !.user = UserFromJson(json),
                           !.devices = DevicesFromJson(@, json)]
        saved == [known EXCEPT !.saved.user = known.user,
                               !.saved.devices = known.devices.json]
    IN  IF a.state = "Main" /\ saved.user = "needed" THEN MaybeStateMain(saved) ELSE saved

\* serversFetched()
ServersFetched(a) ==
    [a EXCEPT !.servers = TRUE, !.saved.servers = TRUE,
              !.serverData = TRUE, !.saved.serverData = TRUE]

\* deviceAdded()
DeviceAdded(a, key) ==
    [a EXCEPT !.keys = key, !.saved.keys = key, !.saved.keyVersion = TRUE]

\* Mutant: a removal that failed leaves the device hidden.
StopDeviceRemovalHidden(a, key) == a

\* DeviceModel::stopDeviceRemovalFromPublicKey()
StopDeviceRemoval(a, key) ==
    IF key \notin a.devices.removed THEN a
    ELSE [a EXCEPT !.devices.removed = @ \ {key}, !.devices.others = @ \cup {key}]

\* removeDevice()
RemoveDevice(a, key) ==
    LET gone == [a EXCEPT !.devices.removed = @ \ {key},
                          !.devices.others = @ \ {key},
                          !.devices.own = IF @ = key THEN NoKey ELSE @]
    IN  IF a.state # "DeviceLimit" THEN gone
        ELSE ScheduleTask(AddCurrentDeviceAndRefreshData(gone), Task("RecoverFromLimit"))

\* heartbeatCompleted()
HeartbeatCompleted(a, success) ==
    IF ~success /\ a.state = "Authenticating"
    THEN SetState(DeleteTasks(a), "HeartbeatFailure")
    ELSE IF a.state # "HeartbeatFailure" THEN a
    ELSE IF ~ModelsInitialized(a) \/ ~UserAuthenticated(a) THEN SetState(a, "Initialize")
    ELSE MaybeStateMain(a)

\* activate()
ActivateVpn(a) ==
    ScheduleTask(MaybeRegenerateDeviceKey(DeleteTasks(a)), Task("Activate"))

\* Every change of the Controller's state: controllerStateChanged(), and a queued
\* stateChanged of the TaskControllerAction that runs.
ControllerStateChanged(a, controller) ==
    LET changed == [a EXCEPT !.controller = controller, !.controllerInitialized = TRUE,
                             !.running.posted = @ \/ a.running.name \in ControllerActions]
    IN  IF ~a.controllerInitialized /\ StartAtBoot THEN ActivateVpn(changed) ELSE changed

-----------------------------------------------------------------------------
\* start-up

\* The members before initialize(), with the settings of an earlier run.
Constructed(saved, onboarded) ==
    [state |-> "Initialize", user |-> "none", keys |-> NoKey, devices |-> NoDevices,
     servers |-> FALSE, serverData |-> FALSE,
     purchase |-> FALSE, queue |-> <<>>, running |-> NoTask, later |-> <<>>,
     controller |-> "Initializing", initialize |-> FALSE, updateNext |-> FALSE,
     controllerInitialized |-> FALSE, waiting |-> "no",
     saved |-> saved, onboarded |-> onboarded]

\* initialize(): the settings are read one after the other, and reset when one of
\* them is missing.
Initialized(a) ==
    LET s       == a.saved
        started == ScheduleTask(a, GroupTask({"AddonIndex"}, {}))
        user    == [started EXCEPT !.user = s.user]
        keys    == [user EXCEPT !.keys = s.keys]
        servers == [keys EXCEPT !.servers = s.servers]
        devices == [servers EXCEPT !.devices = DevicesFromJson(NoDevices, s.devices)]
        chosen  == [devices EXCEPT !.serverData = TRUE, !.saved.serverData = TRUE]
        forget(b) == [b EXCEPT !.saved = NoSettings]
    IN  IF ~s.token \/ s.user = "none" THEN started
        ELSE IF s.user = "needed"
        THEN ScheduleTask(SetState(user, "Authenticating"), Task("MaybeStateMain"))
        ELSE IF s.keys = NoKey THEN forget(user)
        ELSE IF ~s.servers THEN forget(keys)
        ELSE IF ~s.devices.known THEN forget(servers)
        ELSE IF ~ModelsInitialized(devices) THEN forget(devices)
        ELSE MaybeStateMain(ScheduleRefreshDataTasks(chosen))

\* The settings a client has that signed in with `account'; the key may be from
\* before 2.5.
SettingsOf(account, keyVersion) ==
    [token |-> TRUE, user |-> "active", keys |-> account.own,
     keyVersion |-> keyVersion, devices |-> account, servers |-> TRUE, serverData |-> TRUE]

\* The account at the start.  Keys and devices are interchangeable: some will do.
SomeKey == CHOOSE key \in Keys : TRUE
SomeOther == CHOOSE key \in Others : TRUE

Registrations ==
    {account \in [known : {TRUE}, active : BOOLEAN, own : {NoKey, SomeKey},
                  others : {{}, {SomeOther}, Others}] :
        /\ account.own # NoKey => Cardinality(account.others) < MaxDevices
        /\ ~account.active => account.others = {}}

\* The first start, or one after a login; the subscription may have ended since.
Init ==
    /\ guardian \in Registrations
    /\ \/ guardian.own = NoKey /\ vpn = Initialized(Constructed(NoSettings, FALSE))
       \/ /\ guardian.own # NoKey
          /\ \E keyVersion \in BOOLEAN :
                /\ ~keyVersion => guardian.active
                /\ vpn = Initialized(Constructed(
                             SettingsOf([guardian EXCEPT !.active = TRUE], keyVersion), TRUE))
    /\ commands = 0 /\ failures = 0 /\ restarts = 0

\* Nothing else happens between the start of a TaskFunction and its end.
Calm == vpn.running.name \notin Functions

Command ==
    /\ Calm
    /\ commands < MaxCommands
    /\ commands' = commands + 1
    /\ UNCHANGED <<guardian, failures, restarts>>

\* The client is closed or dies, and is started again.
Restart ==
    /\ Calm
    /\ commands < MaxCommands
    /\ commands' = commands + 1
    /\ restarts' = restarts + 1
    /\ vpn' = Initialized(Constructed(vpn.saved, vpn.onboarded))
    /\ UNCHANGED <<guardian, failures>>

-----------------------------------------------------------------------------
\* What the user, the timers and the other components ask for.

\* authenticate()
Authenticate ==
    /\ Command
    /\ vpn.state = "Initialize"
    /\ vpn' = ScheduleTask(ScheduleTask(SetState(vpn, "Authenticating"),
                                        Task("Heartbeat")),
                           Task("Authenticate"))

CancelAuthentication ==
    /\ Command
    /\ vpn.state = "Authenticating"
    /\ vpn' = Reset(vpn, TRUE)

\* activate() from the main view
Activate ==
    /\ Command
    /\ vpn.state = "Main"
    /\ vpn' = ActivateVpn(vpn)

Deactivate ==
    /\ Command
    /\ vpn.state = "Main"
    /\ vpn' = DeactivateVpn(vpn)

\* silentSwitch() of the connection health, SettingsWatcher::maybeServerSwitch()
SilentSwitch ==
    /\ Command
    /\ vpn.controller = "On"
    /\ vpn' = ScheduleTask(DeleteTasks(vpn), Task("SilentSwitch"))

\* logout()
Logout ==
    LET off      == DeleteTasks(DeactivateVpn(vpn))
        removing == IF HasCurrentDevice(vpn)
                    THEN ScheduleTask(off, RemoveDeviceTask(vpn.keys)) ELSE off
    IN  /\ Command
        /\ UserAuthenticated(vpn)
        /\ vpn' = Reset(removing, vpn.state # "UpdateRequired")

\* removeDeviceFromPublicKey()
RemoveOther(key) ==
    LET scheduled == ScheduleTask(vpn, RemoveDeviceTask(key))
    IN  /\ Command
        /\ vpn.state \in {"Main", "DeviceLimit"}
        /\ key \in vpn.devices.others
        /\ vpn' = IF vpn.state = "DeviceLimit" THEN scheduled
                  ELSE [scheduled EXCEPT !.devices.others = @ \ {key},
                                         !.devices.removed = @ \cup {key}]

\* onboardingCompleted()
OnboardingCompleted ==
    /\ Command
    /\ vpn.state = "Onboarding"
    /\ vpn' = MaybeStateMain([vpn EXCEPT !.onboarded = TRUE])

\* PurchaseHandler::subscribe() -> subscriptionStarted() -> startSubscription()
Subscribe ==
    LET started == SetState(vpn, "SubscriptionInProgress")
    IN  /\ Command
        /\ vpn.state = "SubscriptionNeeded"
        /\ vpn' = IF vpn.purchase THEN started
                  ELSE ScheduleTask([started EXCEPT !.purchase = TRUE],
                                    Task("Authenticate"))

\* PurchaseWebHandler::cancelSubscription() -> subscriptionFailedInternal()
CancelSubscription ==
    /\ Command
    /\ vpn.state = "SubscriptionInProgress"
    /\ vpn' = ScheduleTask(SetState(DeleteTasks([vpn EXCEPT !.purchase = FALSE]),
                                    "SubscriptionNeeded"),
                           Task("RetrySubscription"))

\* triggerHeartbeat(), from the screen of the failure
TriggerHeartbeat ==
    /\ Command
    /\ vpn.state = "HeartbeatFailure"
    /\ vpn' = ScheduleTask(vpn, Task("Heartbeat"))

\* refreshDevices()
RefreshDevices ==
    /\ Command
    /\ vpn.state = "Main"
    /\ vpn' = ScheduleTask(vpn, QuietTask("Account"))

\* m_periodicOperationsTimer, which runs in these two states
PeriodicOperations ==
    /\ Command
    /\ vpn.state \in {"Main", "Onboarding"}
    /\ vpn' = ScheduleTask(vpn, GroupTask(PeriodicTasks, {"Account", "Servers"}))

\* KeyRegenerator::stateChanged(), once the key is old enough
RegenerateKey ==
    /\ Command
    /\ vpn.state = "Main"
    /\ vpn.controller = "Off"
    /\ vpn' = ScheduleTask(ScheduleTask(vpn, Task("AddDevice")), Task("Account"))

\* ReleaseMonitor::updateRequired() -> Controller::updateRequired()
UpdateRequired ==
    /\ Command
    /\ vpn' = CASE vpn.controller = "Off" -> SetState(vpn, "UpdateRequired")
                [] vpn.controller = "On" ->
                       ControllerStateChanged([vpn EXCEPT !.updateNext = TRUE],
                                              "Disconnecting")
                [] OTHER -> [vpn EXCEPT !.updateNext = TRUE]

\* Elsewhere the account gets a subscription, loses it or another device.
AccountChanges ==
    /\ Calm
    /\ commands < MaxCommands
    /\ commands' = commands + 1
    /\ \/ guardian' = [guardian EXCEPT !.active = ~@]
       \/ /\ Cardinality(guardian.others) + 1 < MaxDevices \/ guardian.own = NoKey
          /\ \E key \in Others \ guardian.others :
                guardian' = [guardian EXCEPT !.others = @ \cup {key}]
    /\ UNCHANGED <<vpn, failures, restarts>>

-----------------------------------------------------------------------------
\* The event loop: functions, timers and replies.

Reply ==
    /\ Calm
    /\ UNCHANGED <<commands, restarts>>

\* TaskFunction::run(): the function, then completed().
RunFunction ==
    LET name == vpn.running.name
        ran  == CASE name = "MaybeStateMain" -> MaybeStateMain(vpn)
                  [] name = "RecoverFromLimit" /\ vpn.state = "DeviceLimit" ->
                         MaybeStateMain(vpn)
                  [] name = "RetrySubscription" /\ vpn.user \notin {"needed", "forgotten"}
                         /\ vpn.state = "SubscriptionNeeded" -> MaybeStateMain(vpn)
                  [] name = "CheckKey" /\ ~ModelsInitialized(vpn) ->
                         SetState(ReportError(vpn), "Initialize")
                  [] OTHER -> vpn
    IN  /\ name \in Functions
        /\ vpn' = TaskCompleted(ran, vpn.running)
        /\ UNCHANGED <<guardian, commands, failures, restarts>>

\* The singleShot(0) timers of tasks that come back.
Reschedule ==
    /\ Reply
    /\ vpn.later # <<>>
    /\ vpn' = RescheduleTask(vpn)
    /\ UNCHANGED <<guardian, failures>>

\* The running task, or a subtask of the running group.
Doing(name) ==
    \/ vpn.running.name = name
    \/ vpn.running.name = "Group" /\ name \in vpn.running.subtasks

\* Mutant: a group whose last subtask ends stays the running task.
DoneForgetsGroup(a, name) ==
    LET left == vpn.running.subtasks \ {name}
    IN  IF a.running # vpn.running THEN a
        ELSE IF vpn.running.name # "Group" THEN TaskCompleted(a, a.running)
        ELSE [a EXCEPT !.running.subtasks = left]

\* completed() of such a task, with TaskGroup::maybeComplete(); a task that its
\* own reply deleted completes nothing.
Done(a, name) ==
    LET left == vpn.running.subtasks \ {name}
    IN  IF a.running # vpn.running THEN a
        ELSE IF left = {} THEN TaskCompleted(a, a.running)
        ELSE [a EXCEPT !.running.subtasks = left]

\* A request without a token is refused.
RequestFails(error) ==
    \/ error = "Authentication" /\ ~vpn.running.token /\ UNCHANGED failures
    \/ failures < MaxFailures /\ failures' = failures + 1

Fetched(name) ==
    /\ Reply
    /\ Doing(name)
    /\ vpn.running.token
    /\ vpn' = Done(CASE name = "Account" -> AccountChecked(vpn, guardian)
                     [] name = "Servers" -> ServersFetched(vpn)
                     [] OTHER -> vpn,
                   name)
    /\ UNCHANGED <<guardian, failures>>

\* TaskAccount is done with a description that does not parse, too.
MalformedAccount ==
    /\ Reply
    /\ Doing("Account")
    /\ vpn.running.token
    /\ failures < MaxFailures
    /\ failures' = failures + 1
    /\ \E a \in Malformed(vpn, guardian) : vpn' = Done(a, "Account")
    /\ UNCHANGED guardian

\* TaskGetSubscriptionDetails keeps an authentication error to itself.
FetchFails(name, error) ==
    /\ Reply
    /\ Doing(name)
    /\ RequestFails(error)
    /\ vpn' = Done(IF name = "Details" /\ error = "Authentication" THEN vpn
                   ELSE ReportNetworkError(vpn, error, name \notin vpn.running.quiet),
                   name)
    /\ UNCHANGED guardian

HeartbeatReply(success) ==
    /\ Reply
    /\ Doing("Heartbeat")
    /\ vpn' = Done(HeartbeatCompleted(vpn, success), "Heartbeat")
    /\ IF success THEN UNCHANGED failures
       ELSE failures < MaxFailures /\ failures' = failures + 1
    /\ UNCHANGED guardian

\* TaskAddonIndex: the request fails, or the index is as before ...
AddonIndexReply ==
    /\ Reply
    /\ Doing("AddonIndex")
    /\ vpn' = Done(vpn, "AddonIndex")
    /\ UNCHANGED <<guardian, failures>>

\* ... or it lists a new add-on, which AddonManager::updateAddonsList() sends for.
NewAddonListed ==
    /\ Command
    /\ Doing("AddonIndex")
    /\ vpn' = Done(ScheduleTask(ScheduleTask(vpn, Task("Addon")), Task("LoadCompleted")),
                   "AddonIndex")

\* TaskAddon: the add-on is stored, or its request fails.
AddonReply ==
    /\ Reply
    /\ vpn.running.name = "Addon"
    /\ vpn' = Done(vpn, "Addon")
    /\ UNCHANGED <<guardian, failures>>

\* TaskAddDevice::run() makes a new key, which is registered in place of the one
\* this computer had.
FreshKey == CHOOSE key \in Keys : key \notin {guardian.own, vpn.keys, vpn.devices.own}

Registered(key) ==
    /\ Cardinality(guardian.others) < MaxDevices
    /\ guardian' = [guardian EXCEPT !.own = key]

AddDeviceSucceeds ==
    /\ Reply
    /\ vpn.running.name = "AddDevice"
    /\ vpn.running.token
    /\ Registered(FreshKey)
    /\ vpn' = Done(DeviceAdded(vpn, FreshKey), "AddDevice")
    /\ UNCHANGED failures

\* The server may have registered the key before the reply was lost.
AddDeviceFails(error) ==
    /\ Reply
    /\ vpn.running.name = "AddDevice"
    /\ RequestFails(error)
    /\ \/ UNCHANGED guardian
       \/ error = "Connection" /\ vpn.running.token /\ Registered(FreshKey)
    /\ vpn' = Done(ReportNetworkError(vpn, error, TRUE), "AddDevice")

Unregistered(key) ==
    guardian' = [guardian EXCEPT !.others = @ \ {key},
                                 !.own = IF @ = key THEN NoKey ELSE @]

\* A device that is already gone counts as removed; the destructor of the task
\* ends the removal in the model.
RemoveDeviceSucceeds ==
    LET key == vpn.running.key
    IN  /\ Reply
        /\ vpn.running.name = "RemoveDevice"
        /\ Unregistered(key)
        /\ vpn' = StopDeviceRemoval(Done(RemoveDevice(vpn, key), "RemoveDevice"), key)
        /\ UNCHANGED failures

RemoveDeviceFails(error) ==
    LET key == vpn.running.key
    IN  /\ Reply
        /\ vpn.running.name = "RemoveDevice"
        /\ RequestFails(error)
        /\ UNCHANGED guardian \/ (error = "Connection" /\ Unregistered(key))
        /\ vpn' = StopDeviceRemoval(
                      Done(ReportNetworkError(vpn, error, TRUE), "RemoveDevice"), key)

\* TaskAuthenticate: the listener has a code and the server accepts it.
AuthenticationSucceeds ==
    /\ Reply
    /\ vpn.running.name = "Authenticate"
    /\ vpn' = Done(CompleteAuthentication(vpn, guardian), "Authenticate")
    /\ UNCHANGED <<guardian, failures>>

\* The listener fails, the verification is refused, its reply makes no sense, or the
\* account in it does not parse; in the second and third case nothing completes the
\* task.
AuthenticationFails ==
    /\ Reply
    /\ vpn.running.name = "Authenticate"
    /\ failures < MaxFailures
    /\ failures' = failures + 1
    /\ \/ vpn' = Done(ReportError(vpn), "Authenticate")
       \/ \E error \in Errors : vpn' = ReportNetworkError(vpn, error, TRUE)
       \/ vpn' = ReportError(vpn)
       \/ \E a \in Malformed(vpn, guardian) : vpn' = Done(ReportError(a), "Authenticate")
    /\ UNCHANGED guardian

-----------------------------------------------------------------------------
\* The Controller, as far as the rest of the application sees it.

\* TaskControllerAction::checkStatus(), from its timer
TaskCheckStatus ==
    /\ Reply
    /\ vpn.running.name \in ControllerActions
    /\ vpn' = IF vpn.controller = vpn.running.last THEN TaskCompleted(vpn, vpn.running)
              ELSE [vpn EXCEPT !.running.last = vpn.controller]
    /\ UNCHANGED <<guardian, failures>>

\* TaskControllerAction::stateChanged()
TaskStateChanged ==
    LET reached == \/ vpn.running.name = "Activate" /\ vpn.controller = "On"
                   \/ vpn.running.name = "Deactivate" /\ vpn.controller = "Off"
    IN  /\ Reply
        /\ vpn.running.posted
        /\ vpn' = IF reached THEN TaskCompleted(vpn, vpn.running)
                  ELSE [vpn EXCEPT !.running.posted = FALSE]
        /\ UNCHANGED <<guardian, failures>>

\* setState(StateConnecting) and activateInternal(), which stops short without a
\* server or a current device.
StartActivation(a) ==
    ControllerStateChanged([a EXCEPT !.waiting = "no"],
                           IF a.servers /\ HasCurrentDevice(a) THEN "Connecting" ELSE "Idle")

\* The account request of activate() succeeds ...
ActivationGranted ==
    /\ Reply
    /\ vpn.waiting = "granted"
    /\ vpn' = StartActivation(AccountChecked(vpn, guardian))
    /\ UNCHANGED <<guardian, failures>>

\* ... with a description that does not parse, for all the activation cares ...
ActivationMisread ==
    /\ Reply
    /\ vpn.waiting = "granted"
    /\ failures < MaxFailures
    /\ failures' = failures + 1
    /\ \E a \in Malformed(vpn, guardian) : vpn' = StartActivation(a)
    /\ UNCHANGED guardian

\* ... or fails: activate() goes on unless the failure left the main view.
ActivationUnchecked(error) ==
    LET told == ReportNetworkError(vpn, error, FALSE)
    IN  /\ Reply
        /\ \/ vpn.waiting = "refused" /\ error = "Authentication" /\ UNCHANGED failures
           \/ /\ vpn.waiting # "no"
              /\ failures < MaxFailures
              /\ failures' = failures + 1
        /\ vpn' = IF told.state \in {"Main", "Onboarding"} THEN StartActivation(told)
                  ELSE [told EXCEPT !.waiting = "no"]
        /\ UNCHANGED guardian

\* The Controller reaches a state of rest; a required update is announced first.
\* A tunnel is found up only after a restart.
ReachOff(a) ==
    ControllerStateChanged(
        IF a.updateNext THEN SetState([a EXCEPT !.updateNext = FALSE], "UpdateRequired")
        ELSE a,
        "Off")

ControllerInitialized ==
    /\ Reply
    /\ vpn.controller = "Initializing"
    /\ vpn.initialize
    /\ \/ vpn' = ReachOff(vpn)
       \/ restarts > 0 /\ vpn' = ControllerStateChanged(vpn, "On")
    /\ UNCHANGED <<guardian, failures>>

\* connected(), the end of the attempts, or the end of the tunnel.
ControllerMoves ==
    /\ Reply
    /\ \/ /\ vpn.controller = "Connecting"
          /\ vpn' = IF vpn.updateNext THEN ControllerStateChanged(vpn, "Disconnecting")
                    ELSE ControllerStateChanged(vpn, "On")
       \/ vpn.controller \in {"Connecting", "Disconnecting"} /\ vpn' = ReachOff(vpn)
    /\ UNCHANGED <<guardian, failures>>

-----------------------------------------------------------------------------
Next ==
    \/ Authenticate \/ CancelAuthentication \/ Activate \/ Deactivate \/ SilentSwitch
    \/ Logout \/ OnboardingCompleted \/ Subscribe \/ CancelSubscription
    \/ TriggerHeartbeat \/ RefreshDevices \/ PeriodicOperations \/ RegenerateKey
    \/ UpdateRequired \/ AccountChanges \/ Restart
    \/ \E key \in Others : RemoveOther(key)
    \/ RunFunction \/ Reschedule
    \/ AddonIndexReply \/ NewAddonListed \/ AddonReply
    \/ \E name \in RefreshTasks : Fetched(name)
    \/ MalformedAccount
    \/ \E name \in RefreshTasks, error \in Errors : FetchFails(name, error)
    \/ \E success \in BOOLEAN : HeartbeatReply(success)
    \/ AddDeviceSucceeds
    \/ \E error \in Errors : AddDeviceFails(error) \/ RemoveDeviceFails(error)
    \/ RemoveDeviceSucceeds \/ AuthenticationSucceeds \/ AuthenticationFails
    \/ TaskCheckStatus \/ TaskStateChanged
    \/ ActivationGranted \/ ActivationMisread
    \/ \E error \in Errors : ActivationUnchecked(error)
    \/ ControllerInitialized \/ ControllerMoves

Spec == Init /\ [][Next]_vars

\* A step of the running task: its function, its timer, or a reply to a request that
\* has a timeout.  A login waits for the user, and nothing makes it end; nor does
\* anything end the request of an AddDevice or RemoveDevice task, which calls
\* disableTimeout() (taskadddevice.cpp:61, taskremovedevice.cpp:52).
TaskProgress ==
    \/ RunFunction \/ TaskCheckStatus \/ AddonIndexReply \/ AddonReply
    \/ \E name \in RefreshTasks : Fetched(name)
    \/ MalformedAccount
    \/ \E name \in RefreshTasks, error \in Errors : FetchFails(name, error)
    \/ \E success \in BOOLEAN : HeartbeatReply(success)

\* Timers fire, and a request with a timeout is answered or fails.
Fairness == WF_vars(TaskProgress)

FairSpec == Spec /\ Fairness

-----------------------------------------------------------------------------
Settings == [token : BOOLEAN, user : {"none", "active", "needed"},
             keys : Keys \cup {NoKey}, keyVersion : BOOLEAN, devices : Accounts,
             servers : BOOLEAN, serverData : BOOLEAN]

IsTask(task) ==
    /\ task.name \in TaskNames
    /\ task.key \in Keys \cup Others \cup {NoKey}
    /\ task.subtasks \subseteq Subtasks
    /\ task.quiet \subseteq task.subtasks \cup {task.name} \cup Subtasks
    /\ task.last \in ControllerStates
    /\ task.token \in BOOLEAN /\ task.posted \in BOOLEAN

\* Types of what replies, settings and tasks leave in the members.
TypeOK ==
    /\ vpn.state \in AppStates
    /\ vpn.user \in {"none", "active", "needed", "forgotten"}
    /\ vpn.controller \in ControllerStates
    /\ vpn.waiting \in {"no", "granted", "refused"}
    /\ vpn.saved \in Settings
    /\ \A task \in Range(vpn.queue) \cup Range(vpn.later) \cup {vpn.running} : IsTask(task)
    /\ guardian \in Accounts

SignedIn == {"Main", "Onboarding", "DeviceLimit", "SubscriptionNeeded",
             "SubscriptionInProgress"}

TokenOK(a) == a.state \in SignedIn => a.saved.token

\* No reply, error, heartbeat or restart leads a client without a token into a state
\* that shows an account; only a function queued by an earlier login can do it.
ShownByToken ==
    TokenOK(vpn) /\ ~TokenOK(vpn') =>
        vpn.running.name = "MaybeStateMain" /\ ~vpn.saved.token

\* maybeStateMain() finds a model missing and removes the settings; unless an
\* authentication is under way, nothing deletes the tasks.
SettingsWiped ==
    /\ vpn.running.name \in Functions \/ vpn.state = "Onboarding"
    /\ vpn.user # "needed" /\ HasCurrentDevice(vpn) /\ ~ModelsInitialized(vpn)
    /\ vpn.state # "Authenticating"

\* A step that takes the token away deletes that function, whatever waits or runs at
\* the time: the exception is the end of a maybeStateMain() above.
FunctionsGo ==
    vpn.saved.token /\ ~vpn'.saved.token =>
        \/ SettingsWiped
        \/ \A task \in Range(vpn'.queue) \cup {vpn'.running} :
               task.name # "MaybeStateMain"

\* A signed-out client is not led back to an account by what was scheduled before:
\* a sign-out (reset(), logout(), errorHandled()) deletes the functions that could do
\* it, and nothing else does it.
SignedOutStays == [][ShownByToken /\ FunctionsGo]_vars

\* TaskScheduler never goes idle with tasks in its queue, whatever order tasks are
\* deleted, completed and rescheduled in.
QueueAlwaysServed == vpn.queue # <<>> => vpn.running # NoTask

\* A device the list hides is one whose removal is still under way: whatever
\* becomes of the request, logins and resets, DeviceModel shows it again.
RemovalsTracked ==
    \A key \in vpn.devices.removed :
        \E task \in Range(vpn.queue) \cup {vpn.running} :
            task.name = "RemoveDevice" /\ task.key = key

\* maybeStateMain() enters the main view only with an active subscription, servers
\* and a device registered for the key in use.
MainIsReady ==
    [][vpn'.state = "Main" /\ vpn.state # "Main" =>
         vpn'.user = "active" /\ vpn'.servers /\ HasCurrentDevice(vpn')]_vars

\* A device task whose request has no timeout is running.
HeldUp == vpn.running.name \in {"AddDevice", "RemoveDevice"}

\* The deactivation that leaving the main view asked for is started sooner or later,
\* unless a login is in front of it or a restart left nothing to stop.  One device task
\* whose request is never answered holds it up for good: it has no timeout
\* (taskadddevice.cpp:61, taskremovedevice.cpp:52) and is not deletable, so the promise
\* is made only for clients that get past every device task.
DeactivationRuns ==
    []<>~HeldUp =>
        ((\E task \in Range(vpn.queue) : task.name = "Deactivate")
             ~> vpn.running.name \in {"Deactivate", "Authenticate"}
                \/ vpn.controller = "Initializing")
=============================================================================
