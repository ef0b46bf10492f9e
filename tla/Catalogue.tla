----------------------------- MODULE Catalogue ------------------------------
(*****************************************************************************)
(* The operations RobotManager.call() knows: the rows of the path tables,    *)
(* the composites, the method each key is routed to, and what is said of a   *)
(* write: who takes RobotWare 8 write access for it and which read shows     *)
(* that it took effect. An operation is named by its id; ids are unique.     *)
(*****************************************************************************)
EXTENDS TLC

Rows(e, apis, S) == [id \in S |-> [effect |-> e, apis |-> apis]]

ReadBack(r, apis, S) == [id \in S |-> [key |-> r, apis |-> apis]]

\* paths/panel.ts, getControllerState to setExternalEmergencyStop
PANEL_1 ==
    Rows("read", {"rws1", "rws2"}, {"getControllerState", "getOperationMode", "getSpeedRatio",
        "getCollisionDetectionState"}) @@
    Rows("write", {"rws1", "rws2"}, {"setControllerState", "lockOperationMode",
        "unlockOperationMode", "setSpeedRatio", "setPanelLanguage", "setKeylessMotorOn"}) @@
    Rows("write", {"rws2"}, {"setOperationMode", "acknowledgeOperationMode",
        "setExternalEmergencyStop"}) @@
    Rows("read", {"rws2"}, {"getOperationModeLockState", "getEnableRequest"})

\* paths/panel.ts, simEmergencyStop to restartController
PANEL_2 ==
    Rows("write", {"rws2"}, {"simEmergencyStop", "simGeneralStop", "simAutoStop",
        "simEnableSwitch"}) @@
    Rows("write", {"rws1", "rws2"}, {"restartController"})

\* paths/rapid.ts, getRapidExecutionState to deactivateAllRapidTasks
RAPID_1 ==
    Rows("read", {"rws1", "rws2"}, {"getRapidExecutionState", "getRapidExecutionInfo",
        "getRapidTasks", "getRapidTask"}) @@
    Rows("read", {"rws2"}, {"getExecutionErrorState"}) @@
    Rows("write", {"rws1", "rws2"}, {"startRapid", "stopRapid", "resetRapid",
        "setExecutionCycle", "startProductionEntry", "stepRapid", "holdToRun",
        "activateRapidTask", "deactivateRapidTask"}) @@
    Rows("write", {"rws1"}, {"activateAllRapidTasks", "deactivateAllRapidTasks"})

\* paths/rapid.ts, getTaskStructuralChangeCount to getMotionPointerSyncState
RAPID_2 ==
    Rows("read", {"rws1", "rws2"}, {"getTaskStructuralChangeCount", "getTaskMotion",
        "getMotionPointer", "getTaskActivationRecord", "getTaskProgramInfo", "getBuildErrors"}) @@
    Rows("read", {"rws2"}, {"getTaskChangeCount", "getTaskRobTarget", "getTaskJointTarget",
        "getTaskMechunits", "getTaskExtJointState", "getProgramPointerSyncState",
        "getMotionPointerSyncState"}) @@
    Rows("write", {"rws1", "rws2"}, {"loadProgram", "unloadProgram", "saveProgram"})

\* paths/rapid.ts, getSpyStatus to getModuleText
RAPID_3 ==
    Rows("read", {"rws2"}, {"getSpyStatus", "listInstructionCategories", "listInstructions"}) @@
    Rows("read", {"rws1", "rws2"}, {"listServiceRoutines", "getTaskSelection", "listAliasIO",
        "listModules", "listModulesDetailed", "getModuleInfo", "listModuleRoutines",
        "getModuleText"}) @@
    Rows("write", {}, {"callServiceRoutine", "setTaskSelection"}) @@
    Rows("write", {"rws1", "rws2"}, {"loadModule", "unloadModule", "saveModule"})

\* paths/rapid.ts, setModuleText to validateRapidValue
RAPID_4 ==
    Rows("write", {"rws1", "rws2"}, {"setModuleText", "setModuleTextRange", "setRapidVariable"}) @@
    Rows("read", {"rws1", "rws2"}, {"getModuleTextRange", "getRapidVariable",
        "getRapidSymbolProperties", "searchRapidSymbols", "validateRapidValue"}) @@
    Rows("read", {"rws2"}, {"searchModuleText", "getModuleChangeCount",
        "getModuleSyncPersStatus", "getModuleExtension", "getModPossibleAll",
        "getModuleModPossible", "getModuleSymbolInfo", "getModuleAttributes",
        "getModuleObject"}) @@
    Rows("write", {"rws2"}, {"modifyPosition"})

\* paths/rapid.ts, getActiveUiInstruction to removeBreakpoint
RAPID_5 ==
    Rows("read", {"rws1", "rws2"}, {"getActiveUiInstruction", "getProgramPointer",
        "listBreakpoints"}) @@
    Rows("write", {"rws1", "rws2"}, {"setUiInstructionParam", "setProgramPointer",
        "setPPToCursor", "ppPrevInst", "ppNextInst", "setBreakpoint"}) @@
    Rows("write", {"rws2"}, {"setPPToRoutineFromUrl", "resetTaskProgramPointer",
        "removeBreakpoint"})

\* paths/motion.ts, getJointPositions to getMechunitSmbData
MOTION_1 ==
    Rows("read", {"rws1", "rws2"}, {"getJointPositions", "getJointTargetFull", "getRobTarget",
        "getCartesianFull", "listMechunits", "getMechunitInfo", "getActiveTool",
        "getActiveWobj", "getActivePayload", "getMechunitBaseFrame", "getMechunitAxes",
        "getMechunitPjoints", "getMechunitSmbData"}) @@
    Rows("write", {"rws1", "rws2"}, {"setActiveTool", "setActiveWobj", "setMechunitBaseFrame"}) @@
    Rows("read", {"rws2"}, {"getAxisPose", "getMechunitCalib"})

\* paths/motion.ts, getMechunitMotorCalib to getCollisionPredictionModel
MOTION_2 ==
    Rows("read", {"rws1", "rws2"}, {"getMechunitMotorCalib", "getLeadThrough",
        "getMotionChangeCount", "checkMotionChangeCount", "getMotionErrorState",
        "getNonMotionExecution"}) @@
    Rows("write", {"rws2"}, {"teleportMechunit", "setCollisionPredictionMode"}) @@
    Rows("write", {"rws1", "rws2"}, {"jog", "setMechunitForJogging", "setNonMotionExecution"}) @@
    Rows("write", {"rws1"}, {"setRobtargetForJogging"}) @@
    Rows("read", {"rws2"}, {"getCollisionPredictionMode", "getCollisionPredictionModelName",
        "getCollisionPredictionModel"})

\* paths/motion.ts, saveCollisionAvoidanceSnapshot to calcCartesianFromJoints
MOTION_3 ==
    Rows("write", {"rws2"}, {"saveCollisionAvoidanceSnapshot", "loadCollisionAvoidanceConfig",
        "setMotionSupervisionMode", "setMotionSupervisionSensitivity",
        "setPathSupervisionMode"}) @@
    Rows("read", {"rws1", "rws2"}, {"getMotionSupervision", "getPathSupervision",
        "calcJointsFromCartesian", "calcCartesianFromJoints"})

\* paths/io.ts, listAllSignals to getIoNetwork
IO_1 ==
    Rows("read", {"rws1", "rws2"}, {"listAllSignals", "readSignal", "readSignalByName",
        "searchSignals", "searchSignalsEx", "getSignalConfig", "listNetworks", "getIoNetwork"}) @@
    Rows("write", {"rws1", "rws2"}, {"writeSignal", "writeSignalByName", "setSignalSimulated",
        "unblockSignals"})

\* paths/io.ts, getIoNetworkConfig to setIoDeviceLState
IO_2 ==
    Rows("read", {"rws1", "rws2"}, {"getIoNetworkConfig", "listDevices", "listAllIoDevices",
        "searchIoDevices", "getIoDeviceInfo", "getIoDeviceConfig"}) @@
    Rows("write", {"rws2"}, {"setNetworkLState"}) @@
    Rows("write", {"rws1", "rws2"}, {"setIoDeviceLState"})

\* paths/cfgElogDipc.ts, getEventLog to saveCfgFile
CFG_ELOG_DIPC_1 ==
    Rows("read", {"rws1", "rws2"}, {"getEventLog", "getEventLogMessage", "listEventLogDomains",
        "listCfgDomains", "listCfgTypes", "listCfgInstances", "getCfgInstance", "getCfgType",
        "listCfgTypeAttributes"}) @@
    Rows("write", {"rws1", "rws2"}, {"clearEventLog", "clearAllEventLogs", "saveEventLogRaw",
        "setCfgInstance", "createCfgInstance", "removeCfgInstance", "loadCfgFile",
        "saveCfgFile"}) @@
    Rows("read", {"rws2"}, {"getEventLogMessageBySeqnum"})

\* paths/cfgElogDipc.ts, validateCfgInstances to getDipcQueueInfo
CFG_ELOG_DIPC_2 ==
    Rows("read", {"rws2"}, {"validateCfgInstances"}) @@
    Rows("read", {"rws1", "rws2"}, {"validateCfgFile", "listDipcQueues", "getDipcQueueInfo"}) @@
    Rows("read", {"rws1"}, {"validateInstanceBeforeDelete"}) @@
    Rows("write", {"rws1", "rws2"}, {"createDipcQueue", "sendDipcMessage", "readDipcMessage",
        "removeDipcQueue"})

\* paths/ctrl.ts, getControllerIdentity to getSystems
CTRL_1 ==
    Rows("read", {"rws1", "rws2"}, {"getControllerIdentity", "getControllerClock",
        "getCompatibility", "getEnv"}) @@
    Rows("write", {"rws1", "rws2"}, {"setControllerClock", "setControllerLanguage"}) @@
    Rows("read", {"rws1"}, {"getTimezone", "getNetworkConfig", "getDnsConfig",
        "getRoutingTable"}) @@
    Rows("read", {"rws2"}, {"getRestartCount", "getDiagnostics"}) @@
    Rows("write", {"rws2"}, {"saveDiagnostics", "saveSystemInfo"}) @@
    Rows("read", {}, {"getSyslog", "getSystems"})

\* paths/ctrl.ts, tpuScreendump to checkRestore
CTRL_2 ==
    Rows("write", {}, {"tpuScreendump", "tpuDetach", "systemUpdate", "runCyclicBrakeCheck"}) @@
    Rows("read", {"rws2"}, {"getSafetyMode", "getSafetyViolationInfo", "getSafetyLoadStatus",
        "getSafetyStartupStatus", "getSafetyConfigChangeCount", "getSafetyConfig",
        "getCyclicBrakeCheckStatus"}) @@
    Rows("read", {"rws1"}, {"getSafetyStatus"}) @@
    Rows("read", {}, {"listSafetyZones"}) @@
    Rows("write", {"rws1", "rws2"}, {"createBackup", "restoreBackup"}) @@
    Rows("read", {"rws1", "rws2"}, {"checkRestore"})

\* paths/ctrl.ts, getBackupStatus to getRegistryFile
CTRL_3 ==
    Rows("read", {"rws1", "rws2"}, {"getBackupStatus", "getVirtualTimeClock",
        "getVirtualTimeState", "getVirtualTimeScale", "getVirtualTimeTimeslice"}) @@
    Rows("read", {"rws2"}, {"getBackupState", "listCertificateStores", "getCertificates",
        "getRegistry", "getRegistryFile"}) @@
    Rows("write", {"rws2"}, {"setVirtualTimeScale", "setVirtualTimeTimeslice",
        "uploadCertificate", "clearCertificateStore"}) @@
    Rows("write", {}, {"removeCertificate"})

\* paths/ctrl.ts, compressPath to verifyControllerFeature
CTRL_4 ==
    Rows("write", {"rws1", "rws2"}, {"compressPath", "decompressPath"}) @@
    Rows("read", {}, {"ctrlOptionsVerify"}) @@
    Rows("read", {"rws2"}, {"listFeatures", "verifyControllerFeature"})

\* paths/systemMastership.ts, getSystemInfo to appealWriteAccessRelease
SYSTEM_MASTERSHIP_1 ==
    Rows("read", {"rws1", "rws2"}, {"getSystemInfo", "getLicenseInfo", "listProducts",
        "getRobotType", "getEnergyStats", "listControllerOptions", "getMastershipStatus",
        "listMastershipDomains"}) @@
    Rows("write", {"rws2"}, {"resetEnergy", "requestMastershipWithId",
        "releaseMastershipWithId", "resetMastershipWatchdog", "registerControlStationRemote",
        "registerControlStationLocal", "requestWriteAccess", "releaseWriteAccess",
        "appealWriteAccessRelease"}) @@
    Rows("write", {"rws1", "rws2"}, {"requestMastership", "releaseMastership",
        "requestMastershipAll", "releaseMastershipAll"})

\* paths/systemMastership.ts, getWriteAccessAppealChangeCount to getTpuSafetyProtocolStatus
SYSTEM_MASTERSHIP_2 ==
    Rows("read", {"rws2"}, {"getWriteAccessAppealChangeCount", "getWriteAccessStatus",
        "getControlStationType", "getControlStationId", "isLocalControlStationConnected",
        "getAllowMotionControl", "getTpuSafetyProtocolStatus"}) @@
    Rows("write", {"rws2"}, {"setAllowMotionControl", "disableExternalControl"})

\* paths/usersUas.ts, getRmmpPrivilege to listUasRoles
USERS_UAS_1 ==
    Rows("read", {"rws1", "rws2"}, {"getRmmpPrivilege", "pollRmmp", "listCurrentUserGrants"}) @@
    Rows("write", {"rws1", "rws2"}, {"requestRmmp", "cancelRmmp"}) @@
    Rows("read", {"rws2"}, {"getLoginInfo", "checkGrantExists", "listAllGrants",
        "isPasswordChangeAllowed", "listUasUsers", "getUasUser", "listUasUserGrants",
        "listUasUserRoles", "isUasUserEnabled", "getUasUserDescription",
        "isUasUserPasswordChangeAllowed", "listUasRoles"}) @@
    Rows("write", {"rws2"}, {"registerUser", "impersonateUser", "changePassword"})

\* paths/usersUas.ts, getUasRole to uploadUasConfiguration
USERS_UAS_2 ==
    Rows("read", {"rws2"}, {"getUasRole", "listUasRoleGrants", "getUasRoleDescription",
        "listLdapResources", "getLdapResource"}) @@
    Rows("read", {}, {"getUasConfiguration"}) @@
    Rows("write", {}, {"uploadUasConfiguration"})

\* paths/filesVision.ts, listFileVolumes to listVisionSystems
FILES_VISION_1 ==
    Rows("read", {"rws1", "rws2"}, {"listFileVolumes", "listDirectory", "readFile",
        "getFileMetadata", "listSubscriptionGroups", "getSubscriptionGroup",
        "listVisionSystems"}) @@
    Rows("write", {"rws1", "rws2"}, {"uploadFile", "deleteFile", "createDirectory", "copyFile",
        "renameFile"}) @@
    Rows("session", {"rws1", "rws2"}, {"createSubscription", "unsubscribeGroup",
        "updateSubscriptionGroup", "unsubscribeResource"})

\* paths/filesVision.ts, getVisionCameraCount to refreshVisionCameras
FILES_VISION_2 ==
    Rows("read", {"rws2"}, {"getVisionCameraCount", "listVisionJobs"}) @@
    Rows("read", {"rws1", "rws2"}, {"getVisionSystemInfo"}) @@
    Rows("write", {}, {"triggerVisionJob"}) @@
    Rows("write", {"rws2"}, {"refreshVisionCameras"})

\* operations/generated.ts: operations made of several requests or of none of the tables' rows
COMPOSITES ==
    Rows("write", {"rws1", "rws2"}, {"pushModule", "getModuleSource", "startJob"}) @@
    Rows("read", {"rws1", "rws2"}, {"describeReturnCode", "getReturnCode", "listDeviceGroups",
        "listControllerDevices", "listSystemDevices", "getDeviceTree", "listBackups",
        "getProgress", "listProgress"}) @@
    Rows("read", {"rws2"}, {"searchDevices"})

\* Every operation: what it does to the controller and which web-service generations offer it.
Catalogue ==
    PANEL_1 @@ PANEL_2 @@ RAPID_1 @@ RAPID_2 @@ RAPID_3 @@ RAPID_4 @@ RAPID_5 @@ MOTION_1 @@
    MOTION_2 @@ MOTION_3 @@ IO_1 @@ IO_2 @@ CFG_ELOG_DIPC_1 @@ CFG_ELOG_DIPC_2 @@ CTRL_1 @@
    CTRL_2 @@ CTRL_3 @@ CTRL_4 @@ SYSTEM_MASTERSHIP_1 @@ SYSTEM_MASTERSHIP_2 @@ USERS_UAS_1 @@
    USERS_UAS_2 @@ FILES_VISION_1 @@ FILES_VISION_2 @@ COMPOSITES

\* operations/generated.ts, routes getControllerState to unblockSignals
ROUTES_1 ==
    [manager |-> {"setControllerState", "setOperationMode", "lockOperationMode",
        "unlockOperationMode", "setSpeedRatio", "getEnableRequest", "setPanelLanguage",
        "setKeylessMotorOn", "setExternalEmergencyStop", "simEmergencyStop", "simGeneralStop",
        "simAutoStop", "simEnableSwitch", "restartController", "startRapid", "stopRapid",
        "resetRapid", "setExecutionCycle", "stepRapid", "holdToRun", "getRapidTask",
        "activateRapidTask", "deactivateRapidTask", "activateAllRapidTasks",
        "deactivateAllRapidTasks", "getTaskStructuralChangeCount", "getTaskMotion",
        "getMotionPointer", "getTaskActivationRecord", "getTaskProgramInfo", "unloadProgram",
        "listServiceRoutines", "getTaskSelection", "listAliasIO", "listModulesDetailed",
        "unloadModule", "getModuleInfo", "listModuleRoutines", "getModuleText", "setModuleText",
        "getModuleTextRange", "setModuleTextRange", "modifyPosition", "getRapidVariable",
        "setRapidVariable", "getRapidSymbolProperties", "searchRapidSymbols",
        "validateRapidValue", "getActiveUiInstruction", "setUiInstructionParam",
        "getProgramPointer", "setPPToCursor", "ppPrevInst", "ppNextInst",
        "resetTaskProgramPointer", "listBreakpoints", "setBreakpoint", "removeBreakpoint",
        "getJointTargetFull", "getCartesianFull", "getMechunitInfo", "getActiveTool",
        "getActiveWobj", "getActivePayload", "setActiveTool", "setActiveWobj",
        "getMechunitBaseFrame", "setMechunitBaseFrame", "getMechunitAxes", "getMechunitPjoints",
        "getMechunitSmbData", "getMechunitMotorCalib", "getLeadThrough", "teleportMechunit",
        "jog", "setMechunitForJogging", "getMotionChangeCount", "checkMotionChangeCount",
        "getMotionErrorState", "getNonMotionExecution", "setNonMotionExecution",
        "getCollisionPredictionMode", "setCollisionPredictionMode",
        "getCollisionPredictionModelName", "saveCollisionAvoidanceSnapshot",
        "loadCollisionAvoidanceConfig", "getMotionSupervision", "getPathSupervision",
        "calcJointsFromCartesian", "calcCartesianFromJoints", "writeSignalByName",
        "searchSignals", "searchSignalsEx", "getSignalConfig", "setSignalSimulated",
        "unblockSignals"},
     none |-> {"acknowledgeOperationMode", "callServiceRoutine", "setTaskSelection"}]

\* operations/generated.ts, routes listNetworks to getFileMetadata
ROUTES_2 ==
    [manager |-> {"listNetworks", "getIoNetwork", "getIoNetworkConfig", "listDevices",
        "listAllIoDevices", "searchIoDevices", "getIoDeviceInfo", "getIoDeviceConfig",
        "setIoDeviceLState", "getEventLog", "clearEventLog", "clearAllEventLogs",
        "saveEventLogRaw", "listCfgDomains", "listCfgTypes", "listCfgInstances",
        "getCfgInstance", "setCfgInstance", "createCfgInstance", "removeCfgInstance",
        "getCfgType", "listCfgTypeAttributes", "loadCfgFile", "saveCfgFile",
        "validateCfgInstances", "validateCfgFile", "validateInstanceBeforeDelete",
        "listDipcQueues", "createDipcQueue", "sendDipcMessage", "readDipcMessage",
        "removeDipcQueue", "getDipcQueueInfo", "setControllerClock", "getDiagnostics",
        "saveDiagnostics", "setControllerLanguage", "saveSystemInfo", "getCompatibility",
        "getEnv", "getSafetyStatus", "createBackup", "restoreBackup", "checkRestore",
        "getBackupStatus", "setVirtualTimeScale", "getVirtualTimeTimeslice",
        "uploadCertificate", "clearCertificateStore", "compressPath", "decompressPath",
        "listFeatures", "getLicenseInfo", "listProducts", "getRobotType", "getEnergyStats",
        "listControllerOptions", "listMastershipDomains", "getWriteAccessStatus",
        "getAllowMotionControl", "getRmmpPrivilege", "pollRmmp", "isPasswordChangeAllowed",
        "changePassword", "listFileVolumes", "listDirectory", "readFile", "getFileMetadata"},
     none |-> {"getSyslog", "getSystems", "tpuScreendump", "tpuDetach", "systemUpdate",
        "listSafetyZones", "runCyclicBrakeCheck", "removeCertificate", "ctrlOptionsVerify",
        "requestMastership", "releaseMastership", "requestMastershipAll",
        "releaseMastershipAll", "requestMastershipWithId", "releaseMastershipWithId",
        "resetMastershipWatchdog", "registerControlStationRemote",
        "registerControlStationLocal", "requestWriteAccess", "releaseWriteAccess",
        "appealWriteAccessRelease", "setAllowMotionControl", "disableExternalControl",
        "requestRmmp", "cancelRmmp", "registerUser", "impersonateUser", "getUasConfiguration",
        "uploadUasConfiguration"}]

\* operations/generated.ts, routes uploadFile to listProgress
ROUTES_3 ==
    [manager |-> {"uploadFile", "createDirectory", "renameFile", "listSubscriptionGroups",
        "getSubscriptionGroup", "listVisionSystems", "getVisionSystemInfo", "listVisionJobs",
        "pushModule", "listDeviceGroups", "listControllerDevices", "listSystemDevices",
        "startJob", "getProgress"},
     none |-> {"createSubscription", "unsubscribeGroup", "updateSubscriptionGroup",
        "unsubscribeResource", "triggerVisionJob"}]

\* operations/generated.ts, details getControllerState to unblockSignals
DETAILS_1 ==
    [self |-> {"setControllerState", "setOperationMode", "setSpeedRatio", "setKeylessMotorOn",
        "restartController", "startRapid", "stopRapid", "resetRapid", "setExecutionCycle",
        "startProductionEntry", "stepRapid", "holdToRun", "activateRapidTask",
        "deactivateRapidTask", "activateAllRapidTasks", "deactivateAllRapidTasks",
        "loadProgram", "unloadProgram", "saveProgram", "loadModule", "unloadModule",
        "setModuleText", "setModuleTextRange", "modifyPosition", "setRapidVariable",
        "setUiInstructionParam", "setProgramPointer", "setPPToCursor", "ppPrevInst",
        "ppNextInst", "setPPToRoutineFromUrl", "resetTaskProgramPointer", "setBreakpoint",
        "removeBreakpoint", "setActiveTool", "setActiveWobj", "setMechunitBaseFrame", "jog",
        "setMechunitForJogging", "setNonMotionExecution", "setMotionSupervisionMode",
        "setMotionSupervisionSensitivity", "setPathSupervisionMode"},
     call |-> {"lockOperationMode", "unlockOperationMode", "setPanelLanguage", "saveModule",
        "teleportMechunit", "setRobtargetForJogging", "setCollisionPredictionMode",
        "saveCollisionAvoidanceSnapshot", "loadCollisionAvoidanceConfig", "writeSignal",
        "writeSignalByName", "setSignalSimulated", "unblockSignals"},
      back |-> ReadBack("getControllerState", {"rws1", "rws2"}, {"setControllerState",
         "setKeylessMotorOn"}) @@
               ReadBack("getOperationMode", {"rws2"}, {"setOperationMode"}) @@
               ReadBack("getOperationModeLockState", {"rws2"}, {"lockOperationMode",
         "unlockOperationMode"}) @@
               ReadBack("getSpeedRatio", {"rws1", "rws2"}, {"setSpeedRatio"}) @@
               ReadBack("getRapidExecutionState", {"rws1", "rws2"}, {"startRapid", "stopRapid",
         "startProductionEntry"}) @@
               ReadBack("getRapidExecutionInfo", {"rws1", "rws2"}, {"setExecutionCycle"}) @@
               ReadBack("getRapidTask", {"rws1", "rws2"}, {"activateRapidTask",
         "deactivateRapidTask"}) @@
               ReadBack("getRapidTasks", {"rws1"}, {"activateAllRapidTasks",
         "deactivateAllRapidTasks"}) @@
               ReadBack("getTaskProgramInfo", {"rws1", "rws2"}, {"loadProgram",
         "unloadProgram"}) @@
               ReadBack("listModules", {"rws1", "rws2"}, {"loadModule", "unloadModule"}) @@
               ReadBack("getModuleText", {"rws1", "rws2"}, {"setModuleText",
         "setModuleTextRange"}) @@
               ReadBack("getRapidVariable", {"rws1", "rws2"}, {"setRapidVariable"}) @@
               ReadBack("getProgramPointer", {"rws1", "rws2"}, {"setProgramPointer",
         "setPPToCursor", "ppPrevInst", "ppNextInst"}) @@
               ReadBack("getProgramPointer", {"rws2"}, {"setPPToRoutineFromUrl",
         "resetTaskProgramPointer"}) @@
               ReadBack("listBreakpoints", {"rws1", "rws2"}, {"setBreakpoint"}) @@
               ReadBack("listBreakpoints", {"rws2"}, {"removeBreakpoint"}) @@
               ReadBack("getActiveTool", {"rws1", "rws2"}, {"setActiveTool"}) @@
               ReadBack("getActiveWobj", {"rws1", "rws2"}, {"setActiveWobj"}) @@
               ReadBack("getMechunitBaseFrame", {"rws1", "rws2"}, {"setMechunitBaseFrame"}) @@
               ReadBack("getJointPositions", {"rws2"}, {"teleportMechunit"}) @@
               ReadBack("getNonMotionExecution", {"rws1", "rws2"}, {"setNonMotionExecution"}) @@
               ReadBack("getCollisionPredictionMode", {"rws2"}, {"setCollisionPredictionMode"}) @@
               ReadBack("getMotionSupervision", {"rws2"}, {"setMotionSupervisionMode",
         "setMotionSupervisionSensitivity"}) @@
               ReadBack("getPathSupervision", {"rws2"}, {"setPathSupervisionMode"}) @@
               ReadBack("readSignal", {"rws1", "rws2"}, {"writeSignal"}) @@
               ReadBack("readSignalByName", {"rws1", "rws2"}, {"writeSignalByName"})]

\* operations/generated.ts, details listNetworks to getFileMetadata
DETAILS_2 ==
    [self |-> {"setCfgInstance", "createCfgInstance", "removeCfgInstance", "loadCfgFile",
        "saveCfgFile", "restoreBackup"},
     call |-> {"setNetworkLState", "setIoDeviceLState", "clearEventLog", "clearAllEventLogs",
        "saveEventLogRaw", "createDipcQueue", "sendDipcMessage", "removeDipcQueue",
        "setControllerClock", "saveDiagnostics", "setControllerLanguage", "saveSystemInfo",
        "createBackup", "setVirtualTimeScale", "setVirtualTimeTimeslice", "uploadCertificate",
        "clearCertificateStore", "compressPath", "decompressPath", "resetEnergy",
        "changePassword"},
      back |-> ReadBack("listNetworks", {"rws2"}, {"setNetworkLState"}) @@
               ReadBack("listDevices", {"rws1", "rws2"}, {"setIoDeviceLState"}) @@
               ReadBack("getEventLog", {"rws1", "rws2"}, {"clearEventLog", "clearAllEventLogs"}) @@
               ReadBack("getCfgInstance", {"rws1", "rws2"}, {"setCfgInstance",
         "createCfgInstance"}) @@
               ReadBack("listCfgInstances", {"rws1", "rws2"}, {"removeCfgInstance"}) @@
               ReadBack("listDipcQueues", {"rws1", "rws2"}, {"createDipcQueue",
         "removeDipcQueue"}) @@
               ReadBack("getDipcQueueInfo", {"rws1", "rws2"}, {"sendDipcMessage"}) @@
               ReadBack("getControllerClock", {"rws1", "rws2"}, {"setControllerClock"}) @@
               ReadBack("getBackupStatus", {"rws1", "rws2"}, {"createBackup"}) @@
               ReadBack("getVirtualTimeScale", {"rws2"}, {"setVirtualTimeScale"}) @@
               ReadBack("getVirtualTimeTimeslice", {"rws2"}, {"setVirtualTimeTimeslice"}) @@
               ReadBack("getEnergyStats", {"rws2"}, {"resetEnergy"})]

\* operations/generated.ts, details uploadFile to listProgress
DETAILS_3 ==
    [self |-> {"pushModule"},
     call |-> {"uploadFile", "deleteFile", "createDirectory", "copyFile", "renameFile",
        "refreshVisionCameras", "getModuleSource", "startJob"},
      back |-> ReadBack("getFileMetadata", {"rws1", "rws2"}, {"uploadFile", "copyFile"}) @@
               ReadBack("listDirectory", {"rws1", "rws2"}, {"createDirectory"}) @@
               ReadBack("listModules", {"rws1", "rws2"}, {"pushModule"})]

\* The key's method on RobotManager, on the adapter, or not callable.
Via(k) ==
    IF \E R \in {ROUTES_1, ROUTES_2, ROUTES_3} : k \in R.manager THEN "manager"
    ELSE IF \E R \in {ROUTES_1, ROUTES_2, ROUTES_3} : k \in R.none THEN "none"
    ELSE "adapter"

\* Who takes RobotWare 8 write access for the operation: its method, call() or nobody.
Rw8Access(k) ==
    IF \E D \in {DETAILS_1, DETAILS_2, DETAILS_3} : k \in D.self THEN "self"
    ELSE IF \E D \in {DETAILS_1, DETAILS_2, DETAILS_3} : k \in D.call THEN "call"
    ELSE "none"

\* The read that shows whether a write took effect, and where it does.
ReadBacks == DETAILS_1.back @@ DETAILS_2.back @@ DETAILS_3.back

\* The method of a key: its own name, but for these.
MethodOf(k) ==
    CASE k = "writeSignalByName" -> "writeIoSignal"
      [] k \in {"getVirtualTimeClock", "getVirtualTimeState", "getVirtualTimeScale"} -> "getVirtualTime"
      [] k = "pushModule" -> "loadProgram"
      [] OTHER -> k
=============================================================================
