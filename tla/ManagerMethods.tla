--------------------------- MODULE ManagerMethods ---------------------------
(*****************************************************************************)
(* The methods of RobotManager over an adapter A of generation g, one table  *)
(* for each stretch of RobotManager.ts. A method the adapter does not have   *)
(* is refused (Needs) or answered with a neutral value (Neutral).            *)
(*****************************************************************************)
EXTENDS Requests

\* RobotManager.ts, setMotorsOn to setOperationMode
Manager1(A, g) ==
    Sends(Under({"rapid"}, A["setControllerState"]), {"setMotorsOn"}) @@
    Sends(SendFirst(A["setControllerState"]), {"setMotorsOff"}) @@
    Through(A, {"setSpeedRatio", "lockOperationMode", "unlockOperationMode"}) @@
    Sends(ChangeMode(A["setOperationMode"], g), {"setOperationMode"})

\* RobotManager.ts, getAllowMotionControl to teleportMechunit
Manager2(A, g) ==
    Sends(OnRw8(A["getAllowMotionControl"], g), {"getAllowMotionControl"}) @@
    Sends(OnRw8(Get, g), {"getLocalStationStatus"}) @@
    Needs(A, {"simEmergencyStop", "simResetEmergencyStop", "simGeneralStop", "simAutoStop",
        "simEnableSwitch", "teleportMechunit"})

\* RobotManager.ts, getRmmpPrivilege to getRmmpPrivilege
Manager3(A, g) ==
    Neutral(A, {"getRmmpPrivilege"})

\* RobotManager.ts, pollRmmp to pollRmmp
Manager4(A, g) ==
    Neutral(A, {"pollRmmp"})

\* RobotManager.ts, startRapid to stopRapid
Manager5(A, g) ==
    Sends(Started(A["startRapid"]), {"startRapid"}) @@
    Sends(SendFirst(A["stopRapid"]), {"stopRapid"})

\* RobotManager.ts, resetRapid to getCurrentPP
Manager6(A, g) ==
    UnderEach({"rapid"}, A, {"resetRapid"}) @@
    Sends(Under({"rapid"}, A["setExecutionCycle"]) \o Quiet, {"setExecutionCycle"}) @@
    Through(A, {"activateRapidTask", "deactivateRapidTask", "activateAllRapidTasks",
        "deactivateAllRapidTasks", "getRapidVariable", "setRapidVariable", "validateRapidValue",
        "getRapidSymbolProperties", "searchRapidSymbols", "listModulesDetailed"}) @@
    Sends(Quiet, {"getCurrentPP"})

\* RobotManager.ts, listRoutines to createDirectory
Manager7(A, g) ==
    Sends(Ask, {"listRoutines"}) @@
    Sends(PointerTo(A), {"setPPToRoutine"}) @@
    Through(A, {"getActiveUiInstruction", "setUiInstructionParam", "listDirectory", "readFile",
        "uploadFile"}) @@
    Sends(A["deleteFile"], {"deleteControllerFile"}) @@
    Sends(TrySome(Put, Each(Put) \o Put), {"createDirectory"})

\* RobotManager.ts, copyControllerFile to listSystemSignals
Manager8(A, g) ==
    Sends(A["copyFile"], {"copyControllerFile"}) @@
    Sends(Quiet, {"refreshEventLog"}) @@
    Through(A, {"getEventLog", "clearEventLog", "clearAllEventLogs", "restartController",
        "getControllerClock", "setControllerClock"}) @@
    Sends(A["listAllSignals"], {"refreshIoSignals"}) @@
    Sends(A["writeSignal"], {"writeIoSignal"}) @@
    Sends(A["readSignal"], {"readIoSignal"}) @@
    Sends(May(Pages(Get)), {"listSystemSignals"})

\* RobotManager.ts, getSignalCategory to setIoDeviceLState
Manager9(A, g) ==
    Sends(May(Pages(Get)), {"getSignalCategory"}) @@
    Through(A, {"listNetworks", "listDevices"}) @@
    Needs(A, {"setSignalSimulated", "unblockSignals", "setIoDeviceLState"})

\* RobotManager.ts, loadProgram to uploadAndLoad
Manager10(A, g) ==
    Sends(LoadFile(A), {"loadProgram", "uploadAndLoad"})

\* RobotManager.ts, unloadModule to listAliasIO
Manager11(A, g) ==
    Sends(Unload(A, "unloadModule"), {"unloadModule"}) @@
    Sends(Unload(A, "unloadProgram"), {"unloadProgram"}) @@
    Neutral(A, {"getLicenseInfo", "listProducts", "getRobotType", "getEnergyStats",
        "getReturnCode", "listControllerOptions", "listFeatures", "getMotionChangeCount",
        "getMotionErrorState", "getNonMotionExecution", "getCollisionPredictionMode",
        "getEnableRequest", "listAliasIO"}) @@
    Needs(A, {"setNonMotionExecution", "setCollisionPredictionMode"})

\* RobotManager.ts, getTaskSelection to getSignalConfig
Manager12(A, g) ==
    Neutral(A, {"getTaskSelection", "getProgramPointer", "getMotionPointer", "getEnv",
        "listCfgDomains", "listCfgTypes", "listCfgInstances", "getCfgInstance", "listBackups",
        "getBackupStatus", "getRapidTask", "getCfgType", "listCfgTypeAttributes",
        "getDipcQueueInfo", "getIoNetwork", "getIoDeviceInfo", "getSignalConfig"}) @@
    Needs(A, {"setTaskSelection", "getCompatibility", "createBackup", "restoreBackup",
        "checkRestore"}) @@
    UnderEach({"cfg"}, A, {"setCfgInstance", "createCfgInstance", "removeCfgInstance",
        "loadCfgFile", "saveCfgFile"})

\* RobotManager.ts, getIoNetworkConfig to callServiceRoutine
Manager13(A, g) ==
    Neutral(A, {"getIoNetworkConfig", "getIoDeviceConfig", "listModuleRoutines",
        "getFileMetadata", "listSubscriptionGroups", "getSubscriptionGroup",
        "getMotionSupervision", "getPathSupervision", "getMechunitSmbData",
        "getMechunitMotorCalib", "getLeadThrough", "getModuleInfo", "listServiceRoutines"}) @@
    Needs(A, {"callServiceRoutine"})

\* RobotManager.ts, setPPToServiceRoutine to setVirtualTimeRunning
Manager14(A, g) ==
    Sends(PointerToService(A), {"setPPToServiceRoutine"}) @@
    Needs(A, {"setActiveTool", "setActiveWobj", "createDipcQueue", "sendDipcMessage",
        "readDipcMessage", "removeDipcQueue", "compressPath", "startJob", "getProgress",
        "setVirtualTimeScale"}) @@
    Neutral(A, {"listDipcQueues", "listFileVolumes", "getActiveTool", "getActiveWobj",
        "getActivePayload", "listVisionSystems", "getSafetyStatus", "getVirtualTime"}) @@
    Sends(Never, {"setVirtualTimeRunning"})

\* RobotManager.ts, getMechunitBaseFrame to getMechunitDetails
Manager15(A, g) ==
    Neutral(A, {"getMechunitBaseFrame", "getMechunitAxes", "getMechunitInfo"}) @@
    Needs(A, {"getJointTargetFull"}) @@
    Through(A, {"getCartesianFull"}) @@
    Sends(Get, {"getMechunitDetails"})

\* RobotManager.ts, getTaskStructuralChangeCount to resetTaskProgramPointer
Manager16(A, g) ==
    Neutral(A, {"getTaskStructuralChangeCount", "getTaskMotion", "getTaskActivationRecord",
        "getTaskProgramInfo", "getModuleSource", "listModuleSymbols",
        "getCollisionPredictionModelName"}) @@
    Needs(A, {"setPanelLanguage", "setControllerLanguage", "setExternalEmergencyStop",
        "setKeylessMotorOn", "setModuleText", "setModuleTextRange", "searchSignalsEx",
        "validateCfgInstances", "searchSignals", "searchIoDevices", "renameFile",
        "getModuleText", "getModuleTextRange", "checkMotionChangeCount", "saveEventLogRaw",
        "decompressPath", "getVirtualTimeTimeslice", "validateCfgFile",
        "validateInstanceBeforeDelete", "saveCollisionAvoidanceSnapshot",
        "loadCollisionAvoidanceConfig", "modifyPosition", "resetTaskProgramPointer"})

\* RobotManager.ts, getDiagnostics to triggerVisionJob
Manager17(A, g) ==
    Neutral(A, {"getDiagnostics", "isPasswordChangeAllowed", "listBreakpoints",
        "getVisionSystemInfo", "listVisionJobs"}) @@
    Needs(A, {"saveDiagnostics", "saveSystemInfo", "changePassword", "holdToRun",
        "setBreakpoint", "removeBreakpoint", "triggerVisionJob"}) @@
    UnderEach({"rapid"}, A, {"setPPToCursor", "ppPrevInst", "ppNextInst"}) @@
    Sends(Started(A["stepRapid"]), {"stepRapid"})

\* RobotManager.ts, listSafetyZones to listAllIoDevices
Manager18(A, g) ==
    Neutral(A, {"listSafetyZones", "getMechunitPjoints", "listCertificates", "listDeviceGroups",
        "listControllerDevices", "listSystemDevices", "listAllIoDevices"}) @@
    Needs(A, {"runCyclicBrakeCheck", "uploadCertificate", "clearCertificateStore",
        "removeCertificate", "calcCartesianFromJoints"}) @@
    Sends(BaseFrame(A, g), {"setMechunitBaseFrame"}) @@
    Through(A, {"calcJointsFromCartesian"})

\* RobotManager.ts, getMastershipStatus to listMastershipDomains
Manager19(A, g) ==
    Sends(Quiet, {"getMastershipStatus"}) @@
    Sends(OnRw8(Get, g), {"getWriteAccessStatus"}) @@
    Neutral(A, {"listMastershipDomains"})

\* RobotManager.ts, jog to setMechunitForJogging
Manager20(A, g) ==
    Sends(Jog(A, g), {"jog"}) @@
    Needs(A, {"setMechunitForJogging"})

\* RobotManager.ts, downloadModule to downloadModule
Manager21(A, g) ==
    Sends(A["readFile"], {"downloadModule"})

\* Every operation of RobotManager that is sent to its adapter.
Manager(A, g) ==
    Manager1(A, g) @@ Manager2(A, g) @@ Manager3(A, g) @@ Manager4(A, g) @@ Manager5(A, g) @@
    Manager6(A, g) @@ Manager7(A, g) @@ Manager8(A, g) @@ Manager9(A, g) @@ Manager10(A, g) @@
    Manager11(A, g) @@ Manager12(A, g) @@ Manager13(A, g) @@ Manager14(A, g) @@ Manager15(A, g)
    @@ Manager16(A, g) @@ Manager17(A, g) @@ Manager18(A, g) @@ Manager19(A, g) @@ Manager20(A,
    g) @@ Manager21(A, g)
=============================================================================
