---------------------------- MODULE Rws2Methods -----------------------------
(*****************************************************************************)
(* The methods of the RWS 2.0 client (RWS2Adapter), one table for each       *)
(* stretch of a resource file.                                               *)
(*****************************************************************************)
EXTENDS Requests

\* rws2/rapid.ts, getRapidExecutionState to getRapidTasks
Rapid1 ==
    Sends(Get, {"getRapidExecutionState", "getRapidExecutionInfo", "getExecutionErrorState",
        "getBuildErrors", "getRapidTasks"}) @@
    Sends(RapidPut, {"startRapid", "resetRapid", "setExecutionCycle", "startProductionEntry",
        "loadProgram", "unloadProgram", "saveProgram"}) @@
    Sends(Put, {"stopRapid"})

\* rws2/rapid.ts, getRapidTask to getRapidVariable
Rapid2 ==
    Sends(Get, {"getRapidTask", "listModules", "listModulesDetailed", "getRapidVariable"}) @@
    Sends(RapidPut, {"activateRapidTask", "deactivateRapidTask", "loadModule", "unloadModule"}) @@
    Sends(Get \o Under({"rapid"}, Each(Put)), {"activateAllRapidTasks",
        "deactivateAllRapidTasks"})

\* rws2/rapid.ts, setRapidVariable to getRapidSymbolProperties
Rapid3 ==
    Sends(RapidPut, {"setRapidVariable"}) @@
    Sends(Ask, {"validateRapidValue"}) @@
    Sends(Get, {"getRapidSymbolProperties"})

\* rws2/rapid.ts, searchRapidSymbols to getModuleText
Rapid4 ==
    Sends(Ask, {"searchRapidSymbols"}) @@
    Sends(Quiet, {"getActiveUiInstruction"}) @@
    Sends(RapidPut, {"setUiInstructionParam", "ppPrevInst", "ppNextInst",
        "setPPToRoutineFromUrl"}) @@
    Sends(Get, {"getModuleText"})

\* rws2/rapid.ts, getModuleTextRange to getModuleAttributes
Rapid5 ==
    Sends(Get, {"getModuleTextRange", "searchModuleText", "getModuleChangeCount",
        "getModuleSyncPersStatus", "getModuleExtension", "getModPossibleAll",
        "getModuleModPossible", "getModuleSymbolInfo", "getModuleAttributes"})

\* rws2/rapid.ts, getModuleObject to setPPToCursor
Rapid6 ==
    Sends(Get, {"getModuleObject", "getProgramPointerSyncState", "getMotionPointerSyncState",
        "getSpyStatus", "listInstructionCategories", "listInstructions", "getRobTarget"}) @@
    Sends(Quiet, {"listServiceRoutines"}) @@
    Sends(Never, {"callServiceRoutine"}) @@
    Sends(RapidPut, {"setProgramPointer", "setPPToCursor"})

\* rws2/rapid.ts, stepRapid to getModuleSource
Rapid7 ==
    Sends(RapidPut, {"stepRapid", "holdToRun", "setBreakpoint", "removeBreakpoint"}) @@
    Sends(Quiet, {"listBreakpoints"}) @@
    Sends(Temp(Get), {"readModuleViaSave"}) @@
    Sends(Try(Temp(Get), Quiet \o Get), {"getModuleSource"})

\* rws2/rapid.ts, saveModule to getTaskRobTarget
Rapid8 ==
    Sends(Put, {"saveModule"}) @@
    Sends(Get, {"getModuleInfo", "getTaskStructuralChangeCount", "getTaskChangeCount",
        "getTaskMotion", "getTaskRobTarget"}) @@
    Sends(Ask, {"listModuleRoutines", "listModuleSymbols"})

\* rws2/rapid.ts, getTaskJointTarget to getProgramPointer
Rapid9 ==
    Sends(Get, {"getTaskJointTarget", "getTaskMechunits", "getTaskExtJointState",
        "getTaskActivationRecord", "getTaskProgramInfo", "listAliasIO", "getTaskSelection",
        "getProgramPointer"}) @@
    Sends(Never, {"setTaskSelection"})

\* rws2/rapid.ts, getMotionPointer to resetTaskProgramPointer
Rapid10 ==
    Sends(Get, {"getMotionPointer"}) @@
    Sends(RapidPut, {"setModuleText", "setModuleTextRange", "modifyPosition",
        "resetTaskProgramPointer"})

\* rws2/ctrl.ts, setVirtualTimeTimeslice to listLdapResources
Ctrl1 ==
    Sends(Put, {"setVirtualTimeTimeslice"}) @@
    Sends(Get, {"getSafetyMode", "getSafetyViolationInfo", "getSafetyLoadStatus",
        "getSafetyStartupStatus", "getSafetyConfigChangeCount", "getSafetyConfig",
        "getVirtualTimeTimeslice", "getRegistryFile", "listLdapResources"})

\* rws2/ctrl.ts, getLdapResource to getProgress
Ctrl2 ==
    Sends(Get, {"getLdapResource", "getBackupState", "listCertificateStores",
        "getCertificates"}) @@
    Sends(Quiet, {"describeReturnCode", "listBackups", "listProgress", "getProgress"}) @@
    Sends(Put, {"createBackup"}) @@
    Sends(RapidPut, {"restoreBackup"}) @@
    Sends(Ask, {"checkRestore"})

\* rws2/ctrl.ts, getBackupStatus to setVirtualTimeRunning
Ctrl3 ==
    Sends(Get, {"getBackupStatus", "getCyclicBrakeCheckStatus"}) @@
    Sends(Quiet \o Quiet \o Quiet, {"getSafetyStatus", "getVirtualTime"}) @@
    Sends(Fixed, {"listSafetyZones"}) @@
    Sends(Never, {"runCyclicBrakeCheck", "setVirtualTimeRunning"}) @@
    Sends(Put, {"setVirtualTimeScale"})

\* rws2/ctrl.ts, listCertificates to decompressPath
Ctrl4 ==
    Sends(Quiet, {"listCertificates", "getRegistry"}) @@
    Sends(Temp(Put), {"uploadCertificate"}) @@
    Sends(Put, {"clearCertificateStore", "compressPath", "decompressPath"}) @@
    Sends(Never, {"removeCertificate"})

\* rws2/ctrl.ts, startJob to getDiagnostics
Ctrl5 ==
    Sends(Put, {"startJob"}) @@
    Sends(Quiet, {"getReturnCode"}) @@
    Sends(Get, {"listControllerOptions", "listFeatures", "verifyControllerFeature",
        "getDiagnostics"})

\* rws2/ctrl.ts, saveDiagnostics to getCompatibility
Ctrl6 ==
    Sends(Put, {"saveDiagnostics", "setControllerLanguage"}) @@
    Sends(Get, {"getEnv", "getCompatibility"})

\* rws2/motion.ts, getJointPositions to getCollisionPredictionModel
Motion1 ==
    Sends(Get, {"getJointPositions", "getJointTargetFull", "getCartesianFull", "listMechunits",
        "getMotionSupervision", "getPathSupervision", "getMechunitSmbData",
        "getMechunitMotorCalib", "getLeadThrough", "getCollisionPredictionModel"})

\* rws2/motion.ts, getAxisPose to setActiveWobj
Motion2 ==
    Sends(Get, {"getAxisPose", "checkMotionChangeCount", "getActiveTool", "getActiveWobj",
        "getActivePayload"}) @@
    Sends(Under(EveryDomain, Put), {"setMotionSupervisionMode",
        "setMotionSupervisionSensitivity", "setPathSupervisionMode", "setActiveTool",
        "setActiveWobj"})

\* rws2/motion.ts, calcCartesianFromJoints to getMechunitInfo
Motion3 ==
    Sends(Ask, {"calcCartesianFromJoints"}) @@
    Sends(Get, {"getMechunitBaseFrame", "getMechunitPjoints", "getMechunitCalib",
        "getMechunitInfo"}) @@
    Sends(Put, {"setMechunitBaseFrame"}) @@
    Sends(Get \o Quiet, {"getMechunitAxes"})

\* rws2/motion.ts, jog to setCollisionPredictionMode
Motion4 ==
    Sends(JogRequests, {"jog"}) @@
    Sends(MotionPut, {"setMechunitForJogging"}) @@
    Sends(Get, {"getMotionChangeCount", "getMotionErrorState", "getNonMotionExecution",
        "getCollisionPredictionMode"}) @@
    Sends(RapidPut, {"setNonMotionExecution"}) @@
    Sends(Put, {"setCollisionPredictionMode"})

\* rws2/motion.ts, calcJointsFromCartesian to loadCollisionAvoidanceConfig
Motion5 ==
    Sends(Ask, {"calcJointsFromCartesian"}) @@
    Sends(Get, {"getCollisionPredictionModelName"}) @@
    Sends(Put, {"saveCollisionAvoidanceSnapshot", "loadCollisionAvoidanceConfig"})

\* rws2/io.ts, listAllSignals to searchSignals
Io1 ==
    Sends(Pages(Get), {"listAllSignals"}) @@
    Sends(Get, {"readSignal", "readSignalByName"}) @@
    Sends(Pages(Ask), {"searchSignals"})

\* rws2/io.ts, getSignalConfig to getIoDeviceConfig
Io2 ==
    Sends(Get, {"getSignalConfig", "listDeviceGroups", "listControllerDevices", "getIoNetwork",
        "getIoNetworkConfig", "getIoDeviceInfo", "getIoDeviceConfig"}) @@
    Sends(Put, {"setSignalSimulated", "unblockSignals", "setNetworkLState",
        "setIoDeviceLState"}) @@
    Sends(Ask, {"searchDevices"})

\* rws2/io.ts, writeSignal to listAllIoDevices
Io3 ==
    Sends(May(Get) \o Put, {"writeSignal"}) @@
    Sends(Get, {"listNetworks", "listDevices", "listSystemDevices", "getDeviceTree",
        "listAllIoDevices"})

\* rws2/io.ts, searchSignalsEx to searchIoDevices
Io4 ==
    Sends(Pages(Ask), {"searchSignalsEx"}) @@
    Sends(Ask, {"searchIoDevices"})

\* rws2/cfgElogDipc.ts, getEventLog to saveEventLogRaw
CfgElogDipc1 ==
    Sends(Get \o May(Quiet), {"getEventLog"}) @@
    Sends(Put, {"clearEventLog", "clearAllEventLogs", "saveEventLogRaw"}) @@
    Sends(Quiet, {"getEventLogMessage", "getEventLogMessageBySeqnum"})

\* rws2/cfgElogDipc.ts, listEventLogDomains to createCfgInstance
CfgElogDipc2 ==
    Sends(Get, {"listEventLogDomains", "listCfgDomains", "listCfgInstancesDetailed",
        "getCfgInstance"}) @@
    Sends(Pages(Get), {"listCfgTypes"}) @@
    Sends(Pages(Quiet), {"listCfgInstances"}) @@
    Sends(CfgPut, {"setCfgInstance"}) @@
    Sends(CfgPut \o May(CfgPut), {"createCfgInstance"})

\* rws2/cfgElogDipc.ts, removeCfgInstance to getDipcQueueInfo
CfgElogDipc3 ==
    Sends(CfgPut, {"removeCfgInstance", "loadCfgFile", "saveCfgFile"}) @@
    Sends(Get, {"getCfgType", "listCfgTypeAttributes", "listDipcQueues"}) @@
    Sends(Put, {"createDipcQueue", "sendDipcMessage", "removeDipcQueue"}) @@
    Sends(Quiet, {"readDipcMessage", "getDipcQueueInfo"})

\* rws2/cfgElogDipc.ts, validateCfgInstances to validateCfgFile
CfgElogDipc4 ==
    Sends(Ask, {"validateCfgInstances", "validateCfgFile"})

\* rws2/users.ts, registerUser to listUasUserRoles
Users1 ==
    Sends(Put, {"registerUser", "impersonateUser", "changePassword"}) @@
    Sends(Get, {"isPasswordChangeAllowed", "listUasUsers", "getUasUser", "listUasUserGrants",
        "listUasUserRoles"})

\* rws2/users.ts, isUasUserEnabled to getUasRoleDescription
Users2 ==
    Sends(Get, {"isUasUserEnabled", "getUasUserDescription", "isUasUserPasswordChangeAllowed",
        "listUasRoles", "getUasRole", "listUasRoleGrants", "getUasRoleDescription"})

\* rws2/panel.ts, getControllerState to getOperationModeLockState
Panel1 ==
    Sends(Get, {"getControllerState", "getOperationMode", "getSpeedRatio",
        "getCollisionDetectionState", "getOperationModeLockState"}) @@
    Sends(Put, {"setControllerState", "lockOperationMode", "unlockOperationMode",
        "acknowledgeOperationMode"}) @@
    Sends(RapidPut, {"setSpeedRatio"})

\* rws2/panel.ts, setOperationMode to setKeylessMotorOn
Panel2(g) ==
    Sends(ModePut(g), {"setOperationMode"}) @@
    Sends(Put, {"simEmergencyStop", "simResetEmergencyStop", "simGeneralStop", "simAutoStop",
        "simEnableSwitch", "teleportMechunit", "setPanelLanguage"}) @@
    Sends(Get, {"getEnableRequest"}) @@
    Sends(RapidPut, {"setKeylessMotorOn"})

\* rws2/panel.ts, setExternalEmergencyStop to setExternalEmergencyStop
Panel3 ==
    Sends(Put, {"setExternalEmergencyStop"})

\* rws2/files.ts, refreshVisionCameras to getVisionSystemInfo
Files1 ==
    Sends(Put, {"refreshVisionCameras", "uploadFile", "deleteFile", "createDirectory",
        "copyFile", "renameFile"}) @@
    Sends(Get, {"listDirectory", "readFile", "getFileMetadata", "getVisionSystemInfo"}) @@
    Sends(Quiet, {"listVisionSystems", "getVisionCameraCount"})

\* rws2/files.ts, listVisionJobs to listFileVolumes
Files2 ==
    Sends(Get, {"listVisionJobs"}) @@
    Sends(Never, {"triggerVisionJob"}) @@
    Sends(Quiet, {"listFileVolumes"})

\* rws2/system.ts, getSystemInfo to saveSystemInfo
System1 ==
    Sends(Get, {"getSystemInfo", "getControllerIdentity", "getControllerClock",
        "getRestartCount", "getLicenseInfo", "listProducts", "getRobotType", "getEnergyStats"}) @@
    Sends(Put, {"setControllerClock", "resetEnergy", "saveSystemInfo"}) @@
    Sends(RapidPut, {"restartController"})

\* rws2/core.ts, getMastershipStatus to listMastershipDomains
Core1 ==
    Sends(Get, {"getMastershipStatus", "listMastershipDomains"})

\* rws2/core.ts, getWriteAccessAppealChangeCount to getAllowMotionControl
Core2 ==
    Sends(Get, {"getWriteAccessAppealChangeCount", "getWriteAccessStatus",
        "getControlStationType", "getControlStationId", "isLocalControlStationConnected",
        "getAllowMotionControl"})

\* rws2/core.ts, getTpuSafetyProtocolStatus to getTpuSafetyProtocolStatus
Core3 ==
    Sends(Get, {"getTpuSafetyProtocolStatus"})

\* rws2/core.ts, getRmmpPrivilege to listCurrentUserGrants
Core4(g) ==
    Sends(RmmpRead(g), {"getRmmpPrivilege", "pollRmmp"}) @@
    Sends(Get, {"getLoginInfo", "checkGrantExists", "listAllGrants", "listCurrentUserGrants"})

\* rws2/core.ts, listSubscriptionGroups to getSubscriptionGroup
Core5 ==
    Sends(Get, {"listSubscriptionGroups", "getSubscriptionGroup"})

\* Every method of the RWS 2.0 adapter that call() or RobotManager uses.
Rws2(g) ==
    Rapid1 @@ Rapid2 @@ Rapid3 @@ Rapid4 @@ Rapid5 @@ Rapid6 @@ Rapid7 @@ Rapid8 @@ Rapid9 @@
    Rapid10 @@ Ctrl1 @@ Ctrl2 @@ Ctrl3 @@ Ctrl4 @@ Ctrl5 @@ Ctrl6 @@ Motion1 @@ Motion2 @@
    Motion3 @@ Motion4 @@ Motion5 @@ Io1 @@ Io2 @@ Io3 @@ Io4 @@ CfgElogDipc1 @@ CfgElogDipc2 @@
    CfgElogDipc3 @@ CfgElogDipc4 @@ Users1 @@ Users2 @@ Panel1 @@ Panel2(g) @@ Panel3 @@ Files1
    @@ Files2 @@ System1 @@ Core1 @@ Core2 @@ Core3 @@ Core4(g) @@ Core5
=============================================================================
