---------------------------- MODULE Rws1Methods -----------------------------
(*****************************************************************************)
(* The methods of the RWS 1.0 client and of the adapter over it, one table   *)
(* for each stretch of a file.                                               *)
(*****************************************************************************)
EXTENDS Requests

\* RwsClient.ts, getControllerState to setOperationMode
Client1 ==
    Sends(Get, {"getControllerState", "getOperationMode", "getCollisionDetectionState"}) @@
    Sends(Put, {"setControllerState", "restartController", "lockOperationMode",
        "unlockOperationMode"}) @@
    Sends(Never, {"setOperationMode"})

\* RwsClient.ts, getSpeedRatio to setExecutionCycle
Client2 ==
    Sends(Get, {"getSpeedRatio", "getRapidExecutionState", "getRapidExecutionInfo",
        "getRapidTasks"}) @@
    Sends(Put, {"setSpeedRatio", "startRapid", "stopRapid", "resetRapid", "setExecutionCycle"})

\* RwsClient.ts, getRapidVariable to setUiInstructionParam
Client3 ==
    Sends(Get, {"getRapidVariable", "getActiveUiInstruction"}) @@
    Sends(Put, {"setRapidVariable", "activateRapidTask", "deactivateRapidTask",
        "activateAllRapidTasks", "deactivateAllRapidTasks", "setUiInstructionParam"})

\* RwsClient.ts, searchRapidSymbols to readFile
Client4 ==
    Sends(Ask, {"searchRapidSymbols", "validateRapidValue"}) @@
    Sends(Get, {"getRapidSymbolProperties", "getJointPositions", "getJointTargetFull",
        "getCartesianPosition", "getCartesianFull", "readFile"})

\* RwsClient.ts, uploadFile to copyFile
Client5 ==
    Sends(Put, {"uploadFile", "uploadModule", "unloadModule", "loadModule", "deleteFile",
        "createDirectory", "copyFile"}) @@
    Sends(Get, {"listModules", "listDirectory"})

\* RwsClient.ts, renameFile to listAllSignals
Client6 ==
    Sends(Put, {"renameFile", "writeSignal"}) @@
    Sends(Get, {"readSignal"}) @@
    Sends(Pages(Get), {"listAllSignals"})

\* RwsClient.ts, searchSignals to getEventLog
Client7 ==
    Sends(Ask, {"searchSignals"}) @@
    Sends(Get, {"listNetworks", "listDevices", "getSystemInfo", "getControllerIdentity",
        "getControllerClock"}) @@
    Sends(Put, {"setControllerClock"}) @@
    Sends(Get \o May(Quiet), {"getEventLog"})

\* RwsClient.ts, clearEventLog to clearAllEventLogs
Client8 ==
    Sends(Put, {"clearEventLog", "clearAllEventLogs"})

\* Every method of the RWS 1.0 client.
Client ==
    Client1 @@ Client2 @@ Client3 @@ Client4 @@ Client5 @@ Client6 @@ Client7 @@ Client8

\* RWS1Adapter.ts, getControllerState to readFile
Adapter1 ==
    Through(Client, {"getControllerState", "setControllerState", "getOperationMode",
        "getSpeedRatio", "setSpeedRatio", "getCollisionDetectionState", "lockOperationMode",
        "unlockOperationMode", "setOperationMode", "getRapidExecutionState",
        "getRapidExecutionInfo", "stopRapid", "getRapidTasks", "listModules",
        "getRapidVariable", "validateRapidValue", "getRapidSymbolProperties",
        "searchRapidSymbols", "getActiveUiInstruction", "getJointPositions", "getCartesianFull",
        "getJointTargetFull", "getSystemInfo", "getControllerIdentity", "getControllerClock",
        "setControllerClock", "restartController", "getEventLog", "clearEventLog",
        "clearAllEventLogs", "listAllSignals", "readSignal", "writeSignal", "searchSignals",
        "listNetworks", "listDevices", "listDirectory", "readFile"}) @@
    Sends(RapidPut, {"startRapid", "resetRapid", "setExecutionCycle", "activateRapidTask",
        "deactivateRapidTask", "activateAllRapidTasks", "deactivateAllRapidTasks", "loadModule",
        "unloadModule", "setRapidVariable", "setUiInstructionParam"}) @@
    Sends(Get, {"listModulesDetailed", "getRobTarget", "listMechunits", "getMechunitPjoints",
        "readSignalByName"})

\* RWS1Adapter.ts, uploadFile to getCfgType
Adapter2 ==
    Sends(Put, {"uploadFile"}) @@
    Through(Client, {"deleteFile", "createDirectory", "copyFile", "renameFile"}) @@
    Sends(Get, {"getMastershipStatus", "listMastershipDomains", "listSystemDevices",
        "getDeviceTree", "listAllIoDevices", "getBuildErrors", "getRapidTask", "getCfgType"})

\* RWS1Adapter.ts, listCfgTypeAttributes to getIoNetworkConfig
Adapter3 ==
    Sends(Get, {"listCfgTypeAttributes", "getDipcQueueInfo", "getIoNetwork", "getIoDeviceInfo",
        "getSignalConfig", "getIoNetworkConfig"})

\* RWS1Adapter.ts, getIoDeviceConfig to calcCartesianFromJoints
Adapter4 ==
    Sends(Get, {"getIoDeviceConfig", "getFileMetadata"}) @@
    Sends(Ask, {"calcCartesianFromJoints"})

\* RWS1Adapter.ts, listSubscriptionGroups to getLeadThrough
Adapter5 ==
    Sends(Get, {"listSubscriptionGroups", "getSubscriptionGroup", "getMotionSupervision",
        "getPathSupervision", "getMechunitSmbData", "getMechunitMotorCalib", "getLeadThrough"})

\* RWS1Adapter.ts, jog to getReturnCode
Adapter6 ==
    Sends(JogRequests, {"jog"}) @@
    Sends(Get, {"getRobotType", "getLicenseInfo", "listProducts"}) @@
    Sends(Quiet, {"getEnergyStats", "getReturnCode"})

\* RWS1Adapter.ts, listControllerOptions to getProgramPointer
Adapter7 ==
    Sends(Quiet, {"listControllerOptions", "listAliasIO", "getProgramPointer"}) @@
    Sends(Get, {"getMotionChangeCount", "getMotionErrorState", "getNonMotionExecution",
        "getMechunitInfo", "getMechunitBaseFrame", "getActiveTool", "getActiveWobj",
        "getActivePayload"}) @@
    Sends(Under({"cfg", "motion", "rapid"}, Put), {"setNonMotionExecution"}) @@
    Sends(MotionPut, {"setMechunitBaseFrame"}) @@
    Sends(Get \o Quiet, {"getMechunitAxes"})

\* RWS1Adapter.ts, getMotionPointer to setCfgInstance
Adapter8 ==
    Sends(Quiet, {"getMotionPointer", "listCfgInstances"}) @@
    Sends(Get, {"getTaskSelection", "listCfgDomains", "listCfgInstancesDetailed",
        "getCfgInstance"}) @@
    Sends(Pages(Get), {"listCfgTypes"}) @@
    Sends(CfgPut, {"setCfgInstance"})

\* RWS1Adapter.ts, createCfgInstance to restoreBackup
Adapter9 ==
    Sends(Under({"cfg"}, Put \o May(Put)), {"createCfgInstance"}) @@
    Sends(CfgPut, {"removeCfgInstance"}) @@
    Sends(Quiet, {"listBackups", "getBackupStatus"}) @@
    Sends(Get, {"getRmmpPrivilege", "pollRmmp"}) @@
    Sends(Put, {"createBackup"}) @@
    Sends(Under({"rapid", "cfg"}, Put), {"restoreBackup"})

\* RWS1Adapter.ts, checkRestore to removeDipcQueue
Adapter10 ==
    Sends(Get, {"checkRestore"}) @@
    Sends(Quiet, {"listProgress", "getProgress", "listDipcQueues", "readDipcMessage"}) @@
    Sends(Put, {"createDipcQueue", "sendDipcMessage", "removeDipcQueue"})

\* RWS1Adapter.ts, getSafetyStatus to compressPath
Adapter11 ==
    Sends(Quiet, {"getSafetyStatus"}) @@
    Sends(Fixed, {"listSafetyZones"}) @@
    Sends(Never, {"runCyclicBrakeCheck", "setVirtualTimeScale", "setVirtualTimeRunning"}) @@
    Sends(Quiet \o Quiet \o Quiet, {"getVirtualTime"}) @@
    Sends(Get, {"getVirtualTimeTimeslice"}) @@
    Sends(Put, {"compressPath"})

\* RWS1Adapter.ts, decompressPath to checkMotionChangeCount
Adapter12 ==
    Sends(Put, {"decompressPath", "startJob"}) @@
    Sends(Get, {"getModuleText", "getModuleTextRange", "checkMotionChangeCount"}) @@
    Sends(RapidPut, {"setModuleText", "setModuleTextRange"})

\* RWS1Adapter.ts, searchSignalsEx to setKeylessMotorOn
Adapter13 ==
    Sends(Ask, {"searchSignalsEx", "searchIoDevices"}) @@
    Sends(Put, {"saveEventLogRaw", "setPanelLanguage", "setControllerLanguage",
        "setSignalSimulated", "unblockSignals", "setIoDeviceLState"}) @@
    Sends(RapidPut, {"setKeylessMotorOn"})

\* RWS1Adapter.ts, getEnv to readModuleViaSave
Adapter14 ==
    Sends(Get, {"getEnv"}) @@
    Sends(Ask, {"validateCfgFile", "validateInstanceBeforeDelete"}) @@
    Sends(Quiet, {"listVisionSystems", "getVisionSystemInfo"}) @@
    Sends(Never, {"triggerVisionJob"}) @@
    Sends(Put, {"saveModule"}) @@
    Sends(Try(Temp(Get), Get), {"getModuleSource"}) @@
    Sends(Temp(Get), {"readModuleViaSave"})

\* RWS1Adapter.ts, listModuleRoutines to ppNextInst
Adapter15 ==
    Sends(Ask, {"listModuleRoutines"}) @@
    Sends(Get, {"listBreakpoints"}) @@
    Sends(RapidPut, {"setBreakpoint", "ppPrevInst", "ppNextInst"}) @@
    Sends(May(Get) \o RapidPut, {"setPPToCursor"})

\* RWS1Adapter.ts, holdToRun to getTaskProgramInfo
Adapter16 ==
    Sends(RapidPut, {"holdToRun"}) @@
    Sends(Get, {"listDeviceGroups", "listControllerDevices", "getModuleInfo",
        "getTaskProgramInfo"}) @@
    Sends(Quiet, {"describeReturnCode", "getEventLogMessage", "listServiceRoutines"})

\* RWS1Adapter.ts, listEventLogDomains to setProgramPointer
Adapter17 ==
    Sends(Quiet, {"listEventLogDomains", "getTaskStructuralChangeCount", "getTaskMotion",
        "getTaskActivationRecord", "listCurrentUserGrants", "listNetworkInterfaces"}) @@
    Sends(Put, {"saveProgram"}) @@
    Sends(RapidPut, {"loadProgram", "unloadProgram", "setProgramPointer"})

\* RWS1Adapter.ts, stepRapid to getRoutingTable
Adapter18 ==
    Sends(RapidPut, {"stepRapid", "startProductionMode", "startProductionEntry"}) @@
    Sends(Quiet, {"listFileVolumes", "getNetworkConfig", "getDnsConfig", "getRoutingTable"}) @@
    Sends(CfgPut, {"loadCfgFile", "saveCfgFile"}) @@
    Sends(MotionPut, {"setActiveTool", "setActiveWobj"})

\* RWS1Adapter.ts, getTimezone to setRobtargetForJogging
Adapter19 ==
    Sends(Quiet, {"getTimezone"}) @@
    Sends(May(Get) \o Get, {"getCompatibility"}) @@
    Sends(MotionPut, {"setMechunitForJogging", "setRobtargetForJogging"})

\* RWS1Adapter.ts, calcJointsFromCartesian to calcJointsFromCartesian
Adapter20 ==
    Sends(Ask, {"calcJointsFromCartesian"})

\* Every method of the RWS 1.0 adapter that call() or RobotManager uses.
Rws1 ==
    Adapter1 @@ Adapter2 @@ Adapter3 @@ Adapter4 @@ Adapter5 @@ Adapter6 @@ Adapter7 @@ Adapter8
    @@ Adapter9 @@ Adapter10 @@ Adapter11 @@ Adapter12 @@ Adapter13 @@ Adapter14 @@ Adapter15 @@
    Adapter16 @@ Adapter17 @@ Adapter18 @@ Adapter19 @@ Adapter20
=============================================================================
